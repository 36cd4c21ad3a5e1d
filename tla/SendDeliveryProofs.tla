-------------------------- MODULE SendDeliveryProofs --------------------------
(***************************************************************************)
(* Theorems about SendPipeline that follow one batch through it: where a   *)
(* batch is until it ends, that it ends once, that a closed pipeline has   *)
(* none left, and that one sender keeps the batches of a key in order.     *)
(***************************************************************************)
EXTENDS SendProofs

USE DEF buildVars, workVars, queueVars, listVars, senderVars, passVars, Sending, credVars, fateVars,
        endVars

-------------------------------------------------------------------------------
(* Sequences without duplicates *)

Occurs(q, b) == \E i \in DOMAIN q : q[i] = b
Distinct(q) == \A i, j \in DOMAIN q : q[i] = q[j] => i = j

(* To take the head takes its only occurrence.                               *)
LEMMA TailLacksHead ==
    ASSUME NEW S, NEW q \in Seq(S), q # <<>>, Distinct(q)
    PROVE  /\ Distinct(Tail(q)) /\ Occurs(q, Head(q))
           /\ \A b : Occurs(Tail(q), b) <=> Occurs(q, b) /\ b # Head(q)
<1> USE DEF Occurs, Distinct
<1>1. Len(q) \in Nat \ {0} /\ DOMAIN q = 1 .. Len(q) /\ Head(q) = q[1]
  BY EmptySeq, LenProperties
<1>2. /\ Tail(q) \in Seq(S) /\ Len(Tail(q)) = Len(q) - 1
      /\ \A i \in 1 .. Len(Tail(q)) : Tail(q)[i] = q[i + 1]
  BY HeadTailProperties
<1>3. DOMAIN Tail(q) = 1 .. Len(q) - 1
  BY <1>2, LenProperties
<1>4. Distinct(Tail(q))
  <2>1. \A i \in 1 .. Len(q) - 1 : Tail(q)[i] = q[i + 1] /\ i + 1 \in 1 .. Len(q)
    BY <1>1, <1>2
  <2>2. \A i, j \in 1 .. Len(q) - 1 : i + 1 = j + 1 => i = j
    BY <1>1
  <2> QED
    BY <1>1, <1>3, <2>1, <2>2
<1>5. ASSUME NEW b, Occurs(Tail(q), b) PROVE Occurs(q, b) /\ b # Head(q)
  <2>1. PICK i \in 1 .. Len(q) - 1 : q[i + 1] = b
    BY <1>2, <1>3, <1>5
  <2>2. i + 1 \in 1 .. Len(q) /\ 1 \in 1 .. Len(q) /\ i + 1 # 1
    BY <1>1
  <2> QED
    BY <1>1, <2>1, <2>2
<1>6. ASSUME NEW b, Occurs(q, b), b # Head(q) PROVE Occurs(Tail(q), b)
  <2>1. PICK i \in 1 .. Len(q) : q[i] = b
    BY <1>1, <1>6
  <2>2. i - 1 \in 1 .. Len(q) - 1 /\ (i - 1) + 1 = i
    BY <1>1, <1>6, <2>1
  <2>3. Tail(q)[i - 1] = b
    BY <1>2, <2>1, <2>2
  <2> QED
    BY <1>3, <2>2, <2>3
<1> QED
  BY <1>1, <1>4, <1>5, <1>6

(* What is new to a sequence joins it at either end.                         *)
LEMMA Joined ==
    ASSUME NEW S, NEW q \in Seq(S), NEW b \in S, Distinct(q), ~Occurs(q, b)
    PROVE  /\ Distinct(Append(q, b))
           /\ \A c : Occurs(Append(q, b), c) <=> Occurs(q, c) \/ c = b
<1> USE DEF Occurs, Distinct
<1>1. Len(q) \in Nat /\ DOMAIN q = 1 .. Len(q)
  BY LenProperties
<1> DEFINE r == Append(q, b)
<1>2. /\ r \in Seq(S) /\ Len(r) = Len(q) + 1 /\ r[Len(q) + 1] = b
      /\ \A i \in 1 .. Len(q) : r[i] = q[i]
  BY AppendProperties
<1>3. DOMAIN r = 1 .. Len(q) + 1
  BY <1>2, LenProperties
<1>4. \A i \in 1 .. Len(q) + 1 : i \in 1 .. Len(q) \/ i = Len(q) + 1
  BY <1>1
<1>5. 1 .. Len(q) \subseteq 1 .. Len(q) + 1 /\ Len(q) + 1 \in 1 .. Len(q) + 1
  BY <1>1
<1> HIDE DEF r
<1>6. Distinct(r)
  BY <1>1, <1>2, <1>3, <1>4
<1>7. \A c : Occurs(r, c) <=> Occurs(q, c) \/ c = b
  BY <1>1, <1>2, <1>3, <1>4, <1>5
<1> QED
  BY <1>6, <1>7 DEF r

LEMMA JoinedInFront ==
    ASSUME NEW S, NEW q \in Seq(S), NEW b \in S, Distinct(q), ~Occurs(q, b)
    PROVE  /\ Distinct(<<b>> \o q)
           /\ \A c : Occurs(<<b>> \o q, c) <=> Occurs(q, c) \/ c = b
<1> USE DEF Occurs, Distinct
<1>1. Len(q) \in Nat /\ DOMAIN q = 1 .. Len(q)
  BY LenProperties
<1> DEFINE r == <<b>> \o q
<1>2. <<b>> \in Seq(S) /\ Len(<<b>>) = 1 /\ <<b>>[1] = b
  OBVIOUS
<1>3. /\ r \in Seq(S) /\ Len(r) = Len(q) + 1
      /\ \A i \in 1 .. Len(q) + 1 : r[i] = IF i = 1 THEN b ELSE q[i - 1]
  <2>1. /\ r \in Seq(S) /\ Len(r) = 1 + Len(q)
        /\ \A i \in 1 .. 1 + Len(q) : r[i] = IF i <= 1 THEN <<b>>[i] ELSE q[i - 1]
    BY <1>2, ConcatProperties
  <2> HIDE DEF r
  <2>2. \A i \in 1 .. 1 + Len(q) : i <= 1 <=> i = 1
    BY <1>1
  <2> QED
    BY <1>1, <1>2, <2>1, <2>2
<1>4. DOMAIN r = 1 .. Len(q) + 1
  BY <1>3, LenProperties
<1>5. /\ \A i \in 1 .. Len(q) + 1 : i = 1 \/ i - 1 \in 1 .. Len(q)
      /\ 1 \in 1 .. Len(q) + 1
  BY <1>1
<1>6. \A i \in 1 .. Len(q) : i + 1 \in 1 .. Len(q) + 1 /\ i + 1 # 1 /\ (i + 1) - 1 = i
  BY <1>1
<1> HIDE DEF r
<1>7. Distinct(r)
  <2>1. SUFFICES ASSUME NEW i \in 1 .. Len(q) + 1, NEW j \in 1 .. Len(q) + 1, r[i] = r[j]
                 PROVE  i = j
    BY <1>4
  <2>2. CASE i = 1 /\ j # 1
    BY <1>1, <1>3, <1>5, <2>1, <2>2
  <2>3. CASE i # 1 /\ j = 1
    BY <1>1, <1>3, <1>5, <2>1, <2>3
  <2>4. CASE i # 1 /\ j # 1
    <3>1. i - 1 = j - 1
      BY <1>1, <1>3, <1>5, <2>1, <2>4
    <3> QED
      BY <3>1
  <2> QED
    BY <2>2, <2>3, <2>4
<1>8. \A c : Occurs(q, c) => Occurs(r, c)
  <2>1. \A i \in 1 .. Len(q) : r[i + 1] = q[i]
    BY <1>3, <1>6
  <2> QED
    BY <1>1, <1>4, <1>6, <2>1
<1>9. Occurs(r, b)
  BY <1>3, <1>4, <1>5
<1>10. \A c : Occurs(r, c) => Occurs(q, c) \/ c = b
  BY <1>1, <1>3, <1>4, <1>5
<1> QED
  BY <1>7, <1>8, <1>9, <1>10 DEF r

LEMMA NothingOccurs == Distinct(<<>>) /\ \A b : ~Occurs(<<>>, b)
  BY DEF Occurs, Distinct

-------------------------------------------------------------------------------
LEMMA NoBatch == \A b \in Batches : b # None
  BY SendAssumption DEF Batches

(* Queues per key: each has batches of its key, and none twice.              *)
Filed(f) ==
    \A k \in Keys : Distinct(f[k]) /\ \A b \in Batches : Occurs(f[k], b) => KeyOf(b) = k

FiledAt(f, b) == Occurs(f[KeyOf(b)], b)
InHand(h, b) == \E s \in Senders : h[s] = b

LEMMA FiledTail ==
    ASSUME NEW f, NEW k \in Keys, f[k] \in Seq(Batches), f[k] # <<>>, Filed(f),
           NEW g, g[k] = Tail(f[k]), \A j \in Keys \ {k} : g[j] = f[j]
    PROVE  /\ Filed(g)
           /\ Head(f[k]) \in Batches /\ KeyOf(Head(f[k])) = k /\ FiledAt(f, Head(f[k]))
           /\ \A b \in Batches : FiledAt(g, b) <=> FiledAt(f, b) /\ b # Head(f[k])
<1>1. Distinct(f[k])
  BY DEF Filed
<1>2. /\ Distinct(Tail(f[k])) /\ Occurs(f[k], Head(f[k]))
      /\ \A b : Occurs(Tail(f[k]), b) <=> Occurs(f[k], b) /\ b # Head(f[k])
  BY <1>1, TailLacksHead
<1>3. Head(f[k]) \in Batches
  BY Emptied
<1>4. KeyOf(Head(f[k])) = k
  BY <1>2, <1>3 DEF Filed
<1>5. Filed(g)
  BY <1>2 DEF Filed
<1>6. \A b \in Batches : FiledAt(g, b) <=> FiledAt(f, b) /\ b # Head(f[k])
  BY <1>2, <1>4, KeyOfBatch DEF FiledAt
<1> QED
  BY <1>2, <1>3, <1>4, <1>5, <1>6 DEF FiledAt

LEMMA FiledLast ==
    ASSUME NEW f, NEW k \in Keys, f[k] \in Seq(Batches), Filed(f),
           NEW b \in Batches, KeyOf(b) = k, ~FiledAt(f, b),
           NEW g, g[k] = Append(f[k], b), \A j \in Keys \ {k} : g[j] = f[j]
    PROVE  Filed(g) /\ \A c \in Batches : FiledAt(g, c) <=> FiledAt(f, c) \/ c = b
<1>1. Distinct(f[k]) /\ ~Occurs(f[k], b)
  BY DEF Filed, FiledAt
<1>2. Distinct(g[k]) /\ \A c : Occurs(g[k], c) <=> Occurs(f[k], c) \/ c = b
  BY <1>1, Joined
<1> QED
  BY <1>2, KeyOfBatch DEF Filed, FiledAt

LEMMA FiledFirst ==
    ASSUME NEW f, NEW k \in Keys, f[k] \in Seq(Batches), Filed(f),
           NEW b \in Batches, KeyOf(b) = k, ~FiledAt(f, b),
           NEW g, g[k] = <<b>> \o f[k], \A j \in Keys \ {k} : g[j] = f[j]
    PROVE  Filed(g) /\ \A c \in Batches : FiledAt(g, c) <=> FiledAt(f, c) \/ c = b
<1>1. Distinct(f[k]) /\ ~Occurs(f[k], b)
  BY DEF Filed, FiledAt
<1>2. Distinct(g[k]) /\ \A c : Occurs(g[k], c) <=> Occurs(f[k], c) \/ c = b
  BY <1>1, JoinedInFront
<1> QED
  BY <1>2, KeyOfBatch DEF Filed, FiledAt

-------------------------------------------------------------------------------
(* Where a batch is *)

PlaceNames == {"builder", "sealed", "work", "sendQ", "tasks", "sender"}

Sits(p, b) ==
    \/ p = "builder" /\ builder[KeyOf(b)] = b
    \/ p = "sealed" /\ FiledAt(sealed, b)
    \/ p = "work" /\ FiledAt(work, b)
    \/ p = "sendQ" /\ Occurs(sendQ, b)
    \/ p = "tasks" /\ FiledAt(tasks, b)
    \/ p = "sender" /\ InHand(task, b)

Pending(b) == b \in Accepted /\ result[b] = "none"

(* A batch that has not ended is in one of these places, and one that is not *)
(* yet accepted or has ended in none.                                        *)
OnePlace ==
    \A b \in Batches :
        /\ Pending(b) => \E p \in PlaceNames : Sits(p, b)
        /\ \A p \in PlaceNames : Sits(p, b) => Pending(b)
        /\ \A p, q \in PlaceNames : Sits(p, b) /\ Sits(q, b) => p = q

(* No place has it twice, and queues per key have it under its key.          *)
OwnQueues ==
    /\ Filed(sealed) /\ Filed(work) /\ Filed(tasks) /\ Distinct(sendQ)
    /\ \A k \in Keys : builder[k] # None => KeyOf(builder[k]) = k

OneHand ==
    /\ \A s, t \in Senders : task[s] # None /\ task[s] = task[t] => s = t
    /\ \A s \in Senders : task[s] # None => pc[s] \in HasTask
    /\ \A s \in Senders : task[s] # None /\ key[s] # None => KeyOf(task[s]) = key[s]

(* The worker has taken nothing from the sealed lists between its passes: a   *)
(* pass does not overwrite what it has.                                      *)
PassDone == worker \in {"idle", "exited"} => \A k \in Keys : work[k] = <<>>

(* Nothing has become of a batch before it is accepted.                      *)
NotBefore == \A b \in Batches : b \notin Accepted => result[b] = "none"

PlaceInv == OwnQueues /\ OneHand /\ OnePlace /\ PassDone /\ NotBefore

(* A step takes one batch from one place to another.  What is accepted comes  *)
(* from outside and what ends goes there.                                    *)
Shift(b, from, to) ==
    \A p \in PlaceNames : \A c \in Batches :
        Sits(p, c)' <=> \/ Sits(p, c) /\ ~(p = from /\ c = b)
                        \/ p = to /\ c = b

Still == \A p \in PlaceNames : \A c \in Batches : Sits(p, c)' <=> Sits(p, c)

Moves(b, from, to) == Sits(from, b) /\ Shift(b, from, to) /\ UNCHANGED <<added, result>>
Ends(b, from, r) ==
    Sits(from, b) /\ Shift(b, from, "outside") /\ UNCHANGED added /\ Settle(b, r)

EndsKept == \A b \in Batches : result[b] # "none" => result'[b] = result[b]

LEMMA StillOne ==
    ASSUME OnePlace, Still, UNCHANGED <<added, result>>
    PROVE  OnePlace' /\ EndsKept
<1>1. \A b \in Batches : Pending(b)' <=> Pending(b)
  BY DEF Pending, Accepted
<1> QED
  BY <1>1 DEF OnePlace, Still, EndsKept

LEMMA ShiftOne ==
    ASSUME OnePlace, NEW b \in Batches, NEW from \in PlaceNames, NEW to \in PlaceNames,
           Sits(from, b), Shift(b, from, to), UNCHANGED <<added, result>>
    PROVE  OnePlace' /\ EndsKept
<1>1. \A c \in Batches : Pending(c)' <=> Pending(c)
  BY DEF Pending, Accepted
<1> QED
  BY <1>1 DEF OnePlace, Shift, EndsKept

LEMMA EndOne ==
    ASSUME OnePlace, TypeInv, NEW b \in Batches, NEW from \in PlaceNames, Sits(from, b),
           Shift(b, from, "outside"), UNCHANGED added,
           NEW r \in Results \ {"none"}, Settle(b, r)
    PROVE  OnePlace' /\ EndsKept
<1>1. result'[b] = r /\ \A c \in Batches \ {b} : result'[c] = result[c]
  BY DEF Settle, TypeInv, TypeOK
<1>2. \A c \in Batches \ {b} : Pending(c)' <=> Pending(c)
  BY <1>1 DEF Pending, Accepted
<1>3. ~Pending(b)' /\ result[b] = "none"
  BY <1>1 DEF Pending, OnePlace
<1>4. \A p \in PlaceNames : ~Sits(p, b)'
  BY DEF OnePlace, Shift, PlaceNames
<1>5. OnePlace'
  BY <1>2, <1>3, <1>4 DEF OnePlace, Shift
<1> QED
  BY <1>1, <1>3, <1>5 DEF EndsKept

(* Most steps leave all places alone.                                        *)
LEMMA QuietStep ==
    ASSUME Inv, PlaceInv,
           UNCHANGED <<added, builder, sealed, work, sendQ, tasks, task, result>>,
           \A s \in Senders : task[s] # None => pc'[s] \in HasTask,
           \A s \in Senders : task[s] # None => key'[s] \in {None, key[s]},
           worker' \in {"idle", "exited"} => \A k \in Keys : work[k] = <<>>
    PROVE  PlaceInv' /\ EndsKept /\ Still
<1> USE DEF PlaceInv
<1>1. Still
  BY DEF Still, Sits, FiledAt, InHand, Occurs
<1>2. OnePlace' /\ EndsKept
  BY <1>1, StillOne
<1>3. OwnQueues'
  BY DEF OwnQueues, Filed
<1>4. OneHand'
  BY DEF OneHand
<1>5. NotBefore' /\ PassDone'
  BY DEF NotBefore, PassDone, Accepted
<1> QED
  BY <1>1, <1>2, <1>3, <1>4, <1>5

(* To free a queue that has neither tasks nor a builder frees no batch.       *)
LEMMA FreesNothing ==
    ASSUME TypeInv, NEW K \in SUBSET Keys, FreeAll(K),
           \A k \in K : tasks[k] = <<>> /\ builder[k] = None
    PROVE  UNCHANGED <<tasks, builder>>
  BY DEF FreeAll, TypeInv, TypeOK

-------------------------------------------------------------------------------
(* The steps of adders and worker *)

LEMMA PlaceAdd ==
    ASSUME Inv, PlaceInv, NEW k \in Keys, Add(k)
    PROVE  /\ PlaceInv' /\ EndsKept
           /\ \E b \in Batches : /\ b = <<k, added[k] + 1>> /\ Accepted' = Accepted \cup {b}
                                 /\ b \notin Accepted /\ Shift(b, "outside", "builder")
<1>1. TypeInv
  BY DEF Inv, SlotInv, QueueInv
<1>2. PICK b \in Batches : b = <<k, added[k] + 1>> /\ KeyOf(b) = k /\ b # None
  <2>1. added[k] + 1 \in 1 .. MaxBatches
    BY <1>1, AcceptedBound DEF Add
  <2>2. <<k, added[k] + 1>> \in Batches /\ KeyOf(<<k, added[k] + 1>>) = k
    BY <2>1 DEF Batches, KeyOf
  <2> QED
    BY <2>2, NoBatch
<1>3. added[k] \in Nat /\ added' = [added EXCEPT ![k] = @ + 1] /\ added \in [Keys -> 0 .. MaxBatches]
  BY <1>1, SendAssumption DEF Add, TypeInv, TypeOK
<1>4. b \notin Accepted /\ Accepted' = Accepted \cup {b}
  <2>1. b \notin Accepted
    <3>1. b[2] = added[k] + 1 /\ ~(added[k] + 1 <= added[k])
      BY <1>2, <1>3
    <3> QED
      BY <1>2, <3>1 DEF Accepted
  <2>2. b \in Accepted'
    BY <1>2, <1>3 DEF Accepted
  <2>3. \A c \in Batches \ {b} : c \in Accepted' <=> c \in Accepted
    <3>1. SUFFICES ASSUME NEW c \in Batches, c # b PROVE c[2] <= added'[c[1]] <=> c[2] <= added[c[1]]
      BY DEF Accepted, KeyOf
    <3>2. c[1] \in Keys /\ c[2] \in Nat /\ c = <<c[1], c[2]>>
      BY DEF Batches
    <3>3. CASE c[1] # k
      BY <1>3, <3>2, <3>3
    <3>4. CASE c[1] = k
      <4>1. c[2] # added[k] + 1 /\ added'[k] = added[k] + 1
        BY <1>2, <1>3, <3>1, <3>2, <3>4
      <4> QED
        BY <1>3, <3>2, <3>4, <4>1
    <3> QED
      BY <3>3, <3>4
  <2> QED
    BY <2>1, <2>2, <2>3 DEF Accepted
<1>5. UNCHANGED <<sealed, work, sendQ, tasks, task, pc, result, worker>>
      /\ builder' = [builder EXCEPT ![k] = b] /\ builder[k] = None
  BY <1>2 DEF Add
<1>6. builder'[k] = b /\ \A j \in Keys \ {k} : builder'[j] = builder[j]
  BY <1>1, <1>5 DEF TypeInv, TypeOK
<1>7. \A p \in PlaceNames : ~Sits(p, b)
  BY <1>2, <1>4 DEF PlaceInv, OnePlace, Pending
<1>8. Shift(b, "outside", "builder")
  <2>1. ASSUME NEW c \in Batches
        PROVE  builder'[KeyOf(c)] = c <=> builder[KeyOf(c)] = c \/ c = b
    <3>1. KeyOf(c) \in Keys /\ c # None
      BY KeyOfBatch, NoBatch
    <3>2. CASE KeyOf(c) = k
      BY <1>5, <1>6, <3>1, <3>2
    <3>3. CASE KeyOf(c) # k
      BY <1>2, <1>6, <3>1, <3>3
    <3> QED
      BY <3>2, <3>3
  <2>2. /\ \A c \in Batches : FiledAt(sealed', c) <=> FiledAt(sealed, c)
        /\ \A c \in Batches : FiledAt(work', c) <=> FiledAt(work, c)
        /\ \A c \in Batches : FiledAt(tasks', c) <=> FiledAt(tasks, c)
        /\ \A c \in Batches : Occurs(sendQ', c) <=> Occurs(sendQ, c)
    BY <1>5
  <2> QED
    BY <1>5, <2>1, <2>2 DEF Shift, Sits, PlaceNames
<1>9. result[b] = "none"
  BY <1>2, <1>4 DEF PlaceInv, NotBefore
<1>10. OnePlace'
  <2>1. \A c \in Batches \ {b} : Pending(c)' <=> Pending(c)
    BY <1>4, <1>5 DEF Pending
  <2>2. Pending(b)'
    BY <1>4, <1>5, <1>9 DEF Pending
  <2>3. \A p \in PlaceNames : Sits(p, b)' <=> p = "builder"
    BY <1>2, <1>7, <1>8 DEF Shift
  <2>4. "builder" \in PlaceNames
    BY DEF PlaceNames
  <2>5. \A c \in Batches \ {b} : \A p \in PlaceNames : Sits(p, c)' <=> Sits(p, c)
    BY <1>8 DEF Shift
  <2> QED
    BY <2>1, <2>2, <2>3, <2>4, <2>5 DEF PlaceInv, OnePlace
<1>11. OwnQueues'
  BY <1>2, <1>5, <1>6 DEF PlaceInv, OwnQueues, Filed
<1>12. NotBefore' /\ EndsKept
  BY <1>4, <1>5 DEF PlaceInv, NotBefore, EndsKept
<1>13. OneHand' /\ PassDone'
  BY <1>5 DEF Add, PlaceInv, OneHand, PassDone
<1> QED
  BY <1>2, <1>4, <1>8, <1>10, <1>11, <1>12, <1>13 DEF PlaceInv

LEMMA PlaceAddFills ==
    ASSUME Inv, PlaceInv, NEW k \in Keys, AddFills(k)
    PROVE  /\ PlaceInv' /\ EndsKept
           /\ \E b \in Batches : b = builder[k] /\ Moves(b, "builder", "sealed")
<1> USE DEF PlaceInv
<1>1. TypeInv
  BY DEF Inv, SlotInv, QueueInv
<1>2. PICK b \in Batches : b = builder[k] /\ b # None
  BY <1>1 DEF AddFills, TypeInv, TypeOK
<1>3. KeyOf(b) = k /\ Sits("builder", b)
  BY <1>2 DEF OwnQueues, Sits
<1>4. /\ sealed' = [sealed EXCEPT ![k] = Append(@, b)]
      /\ builder' = [builder EXCEPT ![k] = None]
      /\ UNCHANGED <<added, result, work, worker, sendQ, tasks, task, pc, key>>
  BY <1>2 DEF AddFills
<1>5. sealed[k] \in Seq(Batches) /\ Filed(sealed) /\ ~FiledAt(sealed, b)
      /\ sealed'[k] = Append(sealed[k], b) /\ \A j \in Keys \ {k} : sealed'[j] = sealed[j]
  BY <1>1, <1>3, <1>4 DEF TypeInv, TypeOK, OwnQueues, OnePlace, Sits, PlaceNames
<1>6. /\ Filed(sealed')
      /\ \A c \in Batches : FiledAt(sealed', c) <=> FiledAt(sealed, c) \/ c = b
  BY <1>3, <1>5, FiledLast
<1>7. builder'[k] = None /\ \A j \in Keys \ {k} : builder'[j] = builder[j]
  BY <1>1, <1>4 DEF TypeInv, TypeOK
<1>8. \A c \in Batches : builder'[KeyOf(c)] = c <=> builder[KeyOf(c)] = c /\ c # b
  BY <1>2, <1>3, <1>7, KeyOfBatch, NoBatch
<1>9. Shift(b, "builder", "sealed")
  BY <1>4, <1>6, <1>8 DEF Shift, Sits, PlaceNames, FiledAt
<1>10. OnePlace' /\ EndsKept
  BY <1>3, <1>4, <1>9, ShiftOne DEF PlaceNames
<1>11. OwnQueues'
  BY <1>4, <1>6, <1>7 DEF OwnQueues
<1>12. OneHand' /\ PassDone' /\ NotBefore'
  BY <1>4 DEF OneHand, PassDone, NotBefore, Accepted
<1> QED
  BY <1>2, <1>3, <1>4, <1>9, <1>10, <1>11, <1>12 DEF Moves

(* What the worker takes is on no other list of its own: these are empty.    *)
LEMMA PlaceWorkerPass ==
    ASSUME Inv, PlaceInv, NEW K \in SUBSET Keys, WorkerPass(K) PROVE PlaceInv' /\ EndsKept
<1> USE DEF PlaceInv
<1>1. TypeInv
  BY DEF Inv, SlotInv, QueueInv
<1>2. \A k \in Keys : work[k] = <<>>
  BY DEF WorkerPass, PassDone
<1>3. UNCHANGED <<added, result, sendQ, tasks, task, pc, key>> /\ worker' = "flushing"
  BY DEF WorkerPass
<1>4. ASSUME NEW k \in Keys
      PROVE  /\ Distinct(work'[k])
             /\ \A c \in Batches : Occurs(work'[k], c)
                    <=> Occurs(sealed[k], c) \/ (k \in K /\ c = builder[k])
             /\ sealed'[k] = <<>>
             /\ builder'[k] = IF k \in K THEN None ELSE builder[k]
  <2>1. sealed[k] \in Seq(Batches) /\ Distinct(sealed[k])
    BY <1>1 DEF TypeInv, TypeOK, OwnQueues, Filed
  <2>2. CASE k \in K
    <3>1. PICK b \in Batches : b = builder[k] /\ b # None
      BY <1>1, <2>2 DEF WorkerPass, TypeInv, TypeOK
    <3>2. KeyOf(b) = k /\ ~FiledAt(sealed, b)
      BY <3>1 DEF OwnQueues, OnePlace, Sits, PlaceNames
    <3>3. work'[k] = Append(sealed[k], b)
      BY <2>2, <3>1 DEF WorkerPass
    <3>4. ~Occurs(sealed[k], b)
      BY <3>2 DEF FiledAt
    <3> QED
      BY <2>1, <2>2, <3>1, <3>3, <3>4, Joined DEF WorkerPass
  <2>3. CASE k \notin K
    BY <2>1, <2>3 DEF WorkerPass
  <2> QED
    BY <2>2, <2>3
<1>5. /\ \A c \in Batches : ~FiledAt(work, c) /\ ~FiledAt(sealed', c)
      /\ \A k \in Keys : Distinct(sealed'[k]) /\ \A c : ~Occurs(sealed'[k], c)
  BY <1>2, <1>4, NothingOccurs, KeyOfBatch DEF FiledAt
<1>6. \A c \in Batches :
        /\ FiledAt(work', c) <=> FiledAt(sealed, c) \/ (KeyOf(c) \in K /\ builder[KeyOf(c)] = c)
        /\ builder'[KeyOf(c)] = c <=> builder[KeyOf(c)] = c /\ KeyOf(c) \notin K
  BY <1>4, KeyOfBatch, NoBatch DEF FiledAt
<1>7. \A c \in Batches : Pending(c)' <=> Pending(c)
  BY <1>3 DEF Pending, Accepted
<1>8. ASSUME NEW c \in Batches
      PROVE  /\ Sits("work", c)' <=> Sits("sealed", c) \/ (KeyOf(c) \in K /\ Sits("builder", c))
             /\ Sits("builder", c)' <=> Sits("builder", c) /\ KeyOf(c) \notin K
             /\ ~Sits("sealed", c)' /\ ~Sits("work", c)
             /\ \A p \in {"sendQ", "tasks", "sender"} : Sits(p, c)' <=> Sits(p, c)
  BY <1>3, <1>5, <1>6 DEF Sits, FiledAt
<1>9. OnePlace'
  <2>1. SUFFICES ASSUME NEW c \in Batches
                 PROVE  /\ Pending(c) => \E p \in PlaceNames : Sits(p, c)'
                        /\ \A p \in PlaceNames : Sits(p, c)' => Pending(c)
                        /\ \A p, q \in PlaceNames : Sits(p, c)' /\ Sits(q, c)' => p = q
    BY <1>7 DEF OnePlace
  <2>2. /\ Pending(c) => \E p \in PlaceNames : Sits(p, c)
        /\ \A p \in PlaceNames : Sits(p, c) => Pending(c)
        /\ \A p, q \in PlaceNames : Sits(p, c) /\ Sits(q, c) => p = q
    BY DEF OnePlace
  <2> QED
    BY <1>8, <2>2 DEF PlaceNames
<1>10. OwnQueues'
  <2>1. ASSUME NEW k \in Keys, NEW c \in Batches, Occurs(work'[k], c) PROVE KeyOf(c) = k
    BY <1>4, <2>1 DEF OwnQueues, Filed, WorkerPass
  <2>2. Filed(work')
    BY <1>4, <2>1 DEF Filed
  <2>3. Filed(sealed')
    BY <1>5 DEF Filed
  <2> QED
    BY <1>3, <1>4, <2>2, <2>3 DEF OwnQueues
<1>11. OneHand' /\ PassDone' /\ NotBefore' /\ EndsKept
  BY <1>3 DEF OneHand, PassDone, NotBefore, Accepted, EndsKept
<1> QED
  BY <1>9, <1>10, <1>11

(* The head of what the worker has either goes on or ends.                   *)
LEMMA WorkTaken ==
    ASSUME Inv, PlaceInv, NEW k \in Keys, work[k] # <<>>,
           work'[k] = Tail(work[k]), \A j \in Keys \ {k} : work'[j] = work[j],
           NEW b, b = Head(work[k])
    PROVE  /\ b \in Batches /\ Sits("work", b) /\ Filed(work')
           /\ \A c \in Batches : FiledAt(work', c) <=> FiledAt(work, c) /\ c # b
<1>1. work[k] \in Seq(Batches) /\ Filed(work)
  BY DEF Inv, SlotInv, QueueInv, TypeInv, TypeOK, PlaceInv, OwnQueues
<1> QED
  BY <1>1, FiledTail DEF Sits

LEMMA WorkEnds ==
    ASSUME Inv, PlaceInv, NEW k \in Keys, work[k] # <<>>,
           work'[k] = Tail(work[k]), \A j \in Keys \ {k} : work'[j] = work[j],
           Settle(Head(work[k]), "failed"),
           UNCHANGED <<added, builder, sealed, sendQ, tasks, task, pc, key>>,
           worker' \notin {"idle", "exited"}
    PROVE  /\ PlaceInv' /\ EndsKept
           /\ \E b \in Batches : b = Head(work[k]) /\ Ends(b, "work", "failed")
<1> USE DEF PlaceInv
<1>1. PICK b \in Batches : b = Head(work[k])
  BY WorkTaken
<1>2. /\ Sits("work", b) /\ Filed(work')
      /\ \A c \in Batches : FiledAt(work', c) <=> FiledAt(work, c) /\ c # b
  BY <1>1, WorkTaken
<1>3. Shift(b, "work", "outside")
  BY <1>2 DEF Shift, Sits, PlaceNames, FiledAt
<1>4. TypeInv /\ "failed" \in Results \ {"none"} /\ Settle(b, "failed")
  BY <1>1 DEF Inv, SlotInv, QueueInv, Results
<1>5. OnePlace' /\ EndsKept
  BY <1>2, <1>3, <1>4, EndOne DEF PlaceNames
<1>6. OwnQueues'
  BY <1>2 DEF OwnQueues
<1>7. OneHand' /\ PassDone'
  BY DEF OneHand, PassDone
<1>8. NotBefore'
  BY <1>2, <1>4 DEF NotBefore, Accepted, Settle, TypeInv, TypeOK, OnePlace, Pending, PlaceNames
<1> QED
  BY <1>1, <1>2, <1>3, <1>4, <1>5, <1>6, <1>7, <1>8 DEF Ends

LEMMA PlaceReserve ==
    ASSUME Inv, PlaceInv, NEW k \in Keys, Reserve(k)
    PROVE  /\ PlaceInv' /\ EndsKept
           /\ \/ Still /\ UNCHANGED <<work, result>>
              \/ \E b \in Batches : b = Head(work[k]) /\ Ends(b, "work", "failed")
<1>1. CASE HasSlot(k)
  <2>1. worker' = "reserved"
        /\ UNCHANGED <<added, builder, sealed, work, sendQ, tasks, task, result, pc, key>>
    BY <1>1 DEF Reserve
  <2> QED
    BY <2>1, QuietStep DEF PlaceInv, OneHand
<1>2. CASE ~HasSlot(k)
  <2>1. work'[k] = Tail(work[k]) /\ \A j \in Keys \ {k} : work'[j] = work[j]
    BY <1>2 DEF Reserve, Inv, SlotInv, QueueInv, TypeInv, TypeOK
  <2>2. /\ work[k] # <<>> /\ Settle(Head(work[k]), "failed") /\ worker' = "flushing"
        /\ UNCHANGED <<added, builder, sealed, sendQ, tasks, task, pc, key>>
    BY <1>2 DEF Reserve
  <2> QED
    BY <2>1, <2>2, WorkEnds
<1> QED
  BY <1>1, <1>2

LEMMA PlacePushFails == ASSUME Inv, PlaceInv, PushFails
    PROVE  /\ PlaceInv' /\ EndsKept
           /\ \E b \in Batches : b = Head(work[slot]) /\ Ends(b, "work", "failed")
<1>1. slot \in Keys /\ work[slot] # <<>>
  BY DEF PushFails, Inv, SlotInv, QueueInv, TypeInv, SlotOK
<1>2. work'[slot] = Tail(work[slot]) /\ \A j \in Keys \ {slot} : work'[j] = work[j]
  BY <1>1 DEF PushFails, Inv, SlotInv, QueueInv, TypeInv, TypeOK
<1>3. /\ Settle(Head(work[slot]), "failed") /\ worker' = "rollback"
      /\ UNCHANGED <<added, builder, sealed, sendQ, tasks, task, pc, key>>
  BY DEF PushFails
<1> QED
  BY <1>1, <1>2, <1>3, WorkEnds

LEMMA PlacePush == ASSUME Inv, PlaceInv, Push
    PROVE  /\ PlaceInv' /\ EndsKept
           /\ \E b \in Batches : b = Head(work[slot]) /\ Moves(b, "work", "sendQ")
<1> USE DEF PlaceInv
<1>1. TypeInv
  BY DEF Inv, SlotInv, QueueInv
<1>2. /\ slot \in Keys /\ work[slot] # <<>>
      /\ work'[slot] = Tail(work[slot]) /\ \A j \in Keys \ {slot} : work'[j] = work[j]
  BY <1>1 DEF Push, TypeInv, TypeOK, SlotOK
<1>3. PICK b \in Batches : b = Head(work[slot])
  BY <1>2, WorkTaken
<1>4. /\ Sits("work", b) /\ Filed(work')
      /\ \A c \in Batches : FiledAt(work', c) <=> FiledAt(work, c) /\ c # b
  BY <1>2, <1>3, WorkTaken
<1>5. /\ sendQ' = Append(sendQ, b) /\ worker' = "flushing"
      /\ UNCHANGED <<added, builder, sealed, tasks, task, pc, key, result>>
  BY <1>3 DEF Push
<1>6. sendQ \in Seq(Batches) /\ Distinct(sendQ) /\ ~Occurs(sendQ, b)
  BY <1>1, <1>4 DEF TypeInv, TypeOK, OwnQueues, OnePlace, Sits, PlaceNames
<1>7. Distinct(sendQ') /\ \A c : Occurs(sendQ', c) <=> Occurs(sendQ, c) \/ c = b
  BY <1>5, <1>6, Joined
<1>8. Shift(b, "work", "sendQ")
  BY <1>4, <1>5, <1>7 DEF Shift, Sits, PlaceNames, FiledAt
<1>9. OnePlace' /\ EndsKept
  BY <1>4, <1>5, <1>8, ShiftOne DEF PlaceNames
<1>10. OwnQueues'
  BY <1>4, <1>5, <1>7 DEF OwnQueues
<1>11. OneHand' /\ PassDone' /\ NotBefore'
  BY <1>5 DEF OneHand, PassDone, NotBefore, Accepted
<1> QED
  BY <1>3, <1>4, <1>5, <1>8, <1>9, <1>10, <1>11 DEF Moves

LEMMA PlaceRollback == ASSUME Inv, PlaceInv, Rollback PROVE PlaceInv' /\ EndsKept /\ Still
<1>1. TypeInv /\ slot \in Keys
  BY DEF Rollback, Inv, SlotInv, QueueInv, TypeInv, SlotOK
<1>2. UNCHANGED <<tasks, builder>>
  BY <1>1, FreesNothing DEF Rollback, UnusedQueue
<1> QED
  BY <1>2, QuietStep DEF Rollback, PlaceInv, OneHand

LEMMA PlaceWorkerRests ==
    ASSUME Inv, PlaceInv, WorkerDone \/ WorkerExit PROVE PlaceInv' /\ EndsKept /\ Still
  BY QuietStep DEF WorkerDone, WorkerExit, PlaceInv, OneHand, PassDone

-------------------------------------------------------------------------------
(* The steps of the senders *)

LEMMA HandEmptied ==
    ASSUME NEW h, NEW g, NEW s \in Senders, h[s] # None, g[s] = None,
           \A t \in Senders \ {s} : g[t] = h[t],
           \A t, u \in Senders : h[t] # None /\ h[t] = h[u] => t = u
    PROVE  \A c \in Batches : InHand(g, c) <=> InHand(h, c) /\ c # h[s]
  BY NoBatch DEF InHand

LEMMA HandFilled ==
    ASSUME NEW h, NEW g, NEW s \in Senders, NEW b \in Batches, h[s] = None, g[s] = b,
           \A t \in Senders \ {s} : g[t] = h[t]
    PROVE  \A c \in Batches : InHand(g, c) <=> InHand(h, c) \/ c = b
  BY NoBatch DEF InHand

(* A sender that has no batch may move, and one that has may wait for its     *)
(* answer.                                                                   *)
LEMMA SenderMoves ==
    ASSUME Inv, PlaceInv, NEW s \in Senders,
           UNCHANGED <<added, builder, sealed, work, sendQ, tasks, task, result, worker>>,
           pc[s] \notin HasTask \/ pc'[s] \in HasTask,
           \A t \in Senders \ {s} : pc'[t] = pc[t],
           \A t \in Senders : key'[t] \in {None, key[t]}
    PROVE  PlaceInv' /\ EndsKept /\ Still
<1>1. \A t \in Senders : task[t] # None => pc'[t] \in HasTask
  BY DEF PlaceInv, OneHand
<1>2. worker' \in {"idle", "exited"} => \A k \in Keys : work[k] = <<>>
  BY DEF PlaceInv, PassDone
<1> QED
  BY <1>1, <1>2, QuietStep

(* The batch in a sender's hand ends.                                        *)
LEMMA HandEnds ==
    ASSUME Inv, PlaceInv, NEW s \in Senders, pc[s] \in HasTask,
           NEW r \in Results \ {"none"}, Settle(task[s], r), task'[s] = None,
           \A t \in Senders \ {s} : task'[t] = task[t] /\ pc'[t] = pc[t],
           UNCHANGED <<added, builder, sealed, work, sendQ, tasks, key, worker>>
    PROVE  /\ PlaceInv' /\ EndsKept
           /\ \E b \in Batches : b = task[s] /\ Ends(b, "sender", r)
<1> USE DEF PlaceInv
<1>1. TypeInv
  BY DEF Inv, SlotInv, QueueInv
<1>2. PICK b \in Batches : b = task[s]
  BY <1>1 DEF TypeInv, HandsOK
<1>3. b # None /\ Sits("sender", b)
  BY <1>2, NoBatch DEF Sits, InHand
<1>4. \A c \in Batches : InHand(task', c) <=> InHand(task, c) /\ c # b
  BY <1>2, <1>3, HandEmptied DEF OneHand
<1>5. Shift(b, "sender", "outside")
  BY <1>4 DEF Shift, Sits, PlaceNames, FiledAt, Occurs
<1>6. OnePlace' /\ EndsKept
  BY <1>1, <1>2, <1>3, <1>5, EndOne DEF PlaceNames
<1>7. OwnQueues' /\ PassDone'
  BY DEF OwnQueues, Filed, PassDone
<1>8. OneHand'
  BY DEF OneHand
<1>9. NotBefore'
  BY <1>1, <1>2, <1>3 DEF NotBefore, Accepted, Settle, TypeInv, TypeOK, OnePlace, Pending, PlaceNames
<1> QED
  BY <1>2, <1>3, <1>5, <1>6, <1>7, <1>8, <1>9 DEF Ends

LEMMA EndPlaces ==
    ASSUME Inv, PlaceInv, NEW s \in Senders, pc[s] \in HasTask,
           NEW r \in Results \ {"none"}, End(s, r),
           UNCHANGED <<added, builder, sealed, work, sendQ, tasks, key, worker>>
    PROVE  /\ PlaceInv' /\ EndsKept
           /\ \E b \in Batches : b = task[s] /\ Ends(b, "sender", r)
<1>1. TypeInv
  BY DEF Inv, SlotInv, QueueInv
<1>2. /\ Settle(task[s], r) /\ task'[s] = None
      /\ \A t \in Senders \ {s} : task'[t] = task[t] /\ pc'[t] = pc[t]
  BY <1>1 DEF End, TypeInv, TypeOK
<1> QED
  BY <1>2, HandEnds

(* The batch goes back to its queue: it is of the key that the sender holds.  *)
LEMMA PutBackPlaces ==
    ASSUME Inv, PlaceInv, NEW s \in Senders, pc[s] \in HasTask, pc[s] \in Holding, PutBack(s),
           UNCHANGED <<added, builder, sealed, work, sendQ, worker, result>>
    PROVE  /\ PlaceInv' /\ EndsKept
           /\ \E b \in Batches : b = task[s] /\ KeyOf(b) = key[s] /\ Moves(b, "sender", "tasks")
           /\ \A c \in Batches : FiledAt(tasks, c) => FiledAt(tasks', c)
<1> USE DEF PlaceInv
<1>1. TypeInv
  BY DEF Inv, SlotInv, QueueInv
<1>2. PICK b \in Batches : b = task[s]
  BY <1>1 DEF TypeInv, HandsOK
<1>3. PICK k \in Keys : k = key[s]
  BY <1>1 DEF TypeInv, TypeOK, HandsOK
<1>4. b # None /\ Sits("sender", b) /\ KeyOf(b) = k
  BY <1>2, <1>3, NoBatch, SendAssumption DEF Sits, InHand, OneHand
<1>5. /\ tasks'[k] = <<b>> \o tasks[k] /\ \A j \in Keys \ {k} : tasks'[j] = tasks[j]
      /\ task'[s] = None /\ key'[s] = None
      /\ \A t \in Senders \ {s} : task'[t] = task[t] /\ pc'[t] = pc[t] /\ key'[t] = key[t]
  BY <1>1, <1>2, <1>3 DEF PutBack, InFront, TypeInv, TypeOK
<1>6. tasks[k] \in Seq(Batches) /\ Filed(tasks) /\ ~FiledAt(tasks, b)
  BY <1>1, <1>4 DEF TypeInv, TypeOK, OwnQueues, OnePlace, Sits, PlaceNames
<1>7. Filed(tasks') /\ \A c \in Batches : FiledAt(tasks', c) <=> FiledAt(tasks, c) \/ c = b
  BY <1>4, <1>5, <1>6, FiledFirst
<1>8. \A c \in Batches : InHand(task', c) <=> InHand(task, c) /\ c # b
  BY <1>2, <1>4, <1>5, HandEmptied DEF OneHand
<1>9. Shift(b, "sender", "tasks")
  BY <1>7, <1>8 DEF Shift, Sits, PlaceNames, FiledAt, Occurs
<1>10. OnePlace' /\ EndsKept
  BY <1>4, <1>9, ShiftOne DEF PlaceNames
<1>11. OwnQueues'
  BY <1>7 DEF OwnQueues, Filed
<1>12. OneHand' /\ PassDone' /\ NotBefore'
  BY <1>5 DEF OneHand, PassDone, NotBefore, Accepted
<1> QED
  BY <1>2, <1>3, <1>4, <1>7, <1>9, <1>10, <1>11, <1>12 DEF Moves

LEMMA PlaceScanReady ==
    ASSUME Inv, PlaceInv, NEW s \in Senders, NEW k \in Keys, ScanReady(s, k)
    PROVE  /\ PlaceInv' /\ EndsKept
           /\ \E b \in Batches :
                 /\ b = Head(tasks[k])
                 /\ \/ Moves(b, "tasks", "sender")
                    \/ \E r \in {"kept", "closed", "failed"} : Ends(b, "tasks", r)
<1> USE DEF PlaceInv
<1>1. TypeInv /\ ListedFull
  BY QueueInvScheduled DEF Inv, SlotInv, QueueInv
<1>2. tasks[k] \in Seq(Batches) /\ tasks[k] # <<>>
  BY <1>1 DEF ScanReady, ReadyAfterPromotion, ListedFull, TypeInv, TypeOK
<1>3. tasks'[k] = Tail(tasks[k]) /\ \A j \in Keys \ {k} : tasks'[j] = tasks[j]
  BY <1>1 DEF ScanReady, TypeInv, TypeOK
<1>4. PICK b \in Batches : b = Head(tasks[k])
  BY <1>2, Emptied
<1>5. /\ Filed(tasks') /\ KeyOf(b) = k /\ Sits("tasks", b)
      /\ \A c \in Batches : FiledAt(tasks', c) <=> FiledAt(tasks, c) /\ c # b
  BY <1>2, <1>3, <1>4, FiledTail DEF OwnQueues, Sits
<1>6. UNCHANGED <<added, builder, sealed, work, sendQ, worker>>
  BY DEF ScanReady
<1>7. task[s] = None /\ "tasks" \in PlaceNames /\ "sender" \in PlaceNames
  BY DEF ScanReady, OneHand, HasTask, PlaceNames
<1>8. key'[s] = k /\ \A t \in Senders \ {s} : pc'[t] = pc[t] /\ key'[t] = key[t]
  BY <1>1 DEF ScanReady, TypeInv, TypeOK
<1>9. OwnQueues' /\ PassDone'
  BY <1>5, <1>6 DEF OwnQueues, Filed, PassDone
<1>10. CASE Popped(b) = "none"
  <2>1. /\ task'[s] = b /\ pc'[s] = "send" /\ \A t \in Senders \ {s} : task'[t] = task[t]
        /\ UNCHANGED result
    <3>1. /\ task' = [task EXCEPT ![s] = b] /\ pc' = [pc EXCEPT ![s] = "send"]
          /\ UNCHANGED result
      BY <1>4, <1>10 DEF ScanReady
    <3>2. task \in [Senders -> Batches \cup {None}] /\ pc \in [Senders -> SenderStates]
      BY <1>1 DEF TypeInv, TypeOK
    <3> QED
      BY <3>1, <3>2
  <2>2. \A c \in Batches : InHand(task', c) <=> InHand(task, c) \/ c = b
    <3>1. /\ task[s] = None /\ task'[s] = b
          /\ \A t \in Senders \ {s} : task'[t] = task[t]
      BY <1>7, <2>1
    <3> QED
      BY <3>1, HandFilled
  <2>3. Shift(b, "tasks", "sender")
    BY <1>5, <1>6, <2>2 DEF Shift, Sits, PlaceNames, FiledAt, Occurs
  <2>4. OnePlace' /\ EndsKept
    BY <1>5, <1>6, <1>7, <2>1, <2>3, ShiftOne
  <2>5. ~InHand(task, b)
    BY <1>5, <1>7 DEF OnePlace, Sits
  <2>6. OneHand'
    BY <1>5, <1>7, <1>8, <2>1, <2>5 DEF OneHand, InHand, HasTask
  <2>7. NotBefore'
    BY <1>6, <2>1 DEF NotBefore, Accepted
  <2> QED
    BY <1>4, <1>5, <1>6, <1>9, <2>1, <2>3, <2>4, <2>6, <2>7 DEF Moves
<1>11. CASE Popped(b) # "none"
  <2>1. Settle(b, Popped(b)) /\ UNCHANGED task
    BY <1>4, <1>11 DEF ScanReady
  <2>2. Popped(b) \in Results \ {"none"}
    BY <1>11 DEF Popped, Results
  <2>3. Shift(b, "tasks", "outside")
    BY <1>5, <1>6, <2>1 DEF Shift, Sits, PlaceNames, FiledAt, Occurs, InHand
  <2>4. OnePlace' /\ EndsKept
    BY <1>1, <1>5, <1>6, <1>7, <2>1, <2>2, <2>3, EndOne
  <2>5. OneHand'
    BY <1>7, <1>8, <2>1 DEF OneHand
  <2>6. b \in Accepted
    BY <1>5, <1>7 DEF OnePlace, Pending
  <2>7. NotBefore'
    BY <1>1, <1>6, <2>1, <2>6 DEF NotBefore, Accepted, Settle, TypeInv, TypeOK
  <2> QED
    BY <1>4, <1>5, <1>6, <1>9, <2>1, <2>2, <2>3, <2>4, <2>5, <2>7 DEF Ends, Popped
<1> QED
  BY <1>10, <1>11

LEMMA PlaceTake == ASSUME Inv, PlaceInv, NEW s \in Senders, Take(s)
    PROVE  /\ PlaceInv' /\ EndsKept
           /\ \E b \in Batches : b = Head(sendQ) /\ Moves(b, "sendQ", "sender")
<1> USE DEF PlaceInv
<1>1. TypeInv
  BY DEF Inv, SlotInv, QueueInv
<1>2. sendQ \in Seq(Batches) /\ sendQ # <<>> /\ Distinct(sendQ) /\ sendQ' = Tail(sendQ)
  BY <1>1 DEF Take, TypeInv, TypeOK, OwnQueues
<1>3. PICK b \in Batches : b = Head(sendQ)
  BY <1>2, Emptied
<1>4. /\ Distinct(sendQ') /\ Occurs(sendQ, b)
      /\ \A c : Occurs(sendQ', c) <=> Occurs(sendQ, c) /\ c # b
  BY <1>2, <1>3, TailLacksHead
<1>5. UNCHANGED <<added, builder, sealed, work, worker, tasks, key, result>>
  BY DEF Take
<1>6. task[s] = None /\ key[s] = None
  BY <1>1 DEF Take, OneHand, HasTask, TypeInv, HandsOK, Holding
<1>7. /\ task'[s] = b /\ pc'[s] = "inbound"
      /\ \A t \in Senders \ {s} : task'[t] = task[t] /\ pc'[t] = pc[t]
  BY <1>1, <1>3 DEF Take, TypeInv, TypeOK
<1>8. Sits("sendQ", b) /\ "sendQ" \in PlaceNames /\ "sender" \in PlaceNames
  BY <1>4 DEF Sits, PlaceNames
<1>9. \A c \in Batches : InHand(task', c) <=> InHand(task, c) \/ c = b
  BY <1>6, <1>7, HandFilled
<1>10. Shift(b, "sendQ", "sender")
  BY <1>4, <1>5, <1>9 DEF Shift, Sits, PlaceNames, FiledAt
<1>11. OnePlace' /\ EndsKept
  BY <1>5, <1>8, <1>10, ShiftOne
<1>12. ~InHand(task, b)
  BY <1>8 DEF OnePlace, Sits
<1>13. OneHand'
  BY <1>5, <1>6, <1>7, <1>12 DEF OneHand, InHand, HasTask
<1>14. OwnQueues' /\ PassDone' /\ NotBefore'
  BY <1>4, <1>5 DEF OwnQueues, Filed, PassDone, NotBefore, Accepted
<1> QED
  BY <1>3, <1>5, <1>8, <1>10, <1>11, <1>13, <1>14 DEF Moves

LEMMA PlaceInbound ==
    ASSUME Inv, PlaceInv, NEW s \in Senders, Inbound(s)
    PROVE  /\ PlaceInv' /\ EndsKept
           /\ \E b \in Batches :
                 /\ b = task[s]
                 /\ Moves(b, "sender", "tasks") \/ Ends(b, "sender", "failed")
           /\ \A c \in Batches : FiledAt(tasks, c) => FiledAt(tasks', c)
<1> USE DEF PlaceInv
<1>1. TypeInv
  BY DEF Inv, SlotInv, QueueInv
<1>2. PICK b \in Batches : b = task[s] /\ b # None
  BY <1>1, NoBatch DEF Inbound, HasTask, TypeInv, HandsOK
<1>3. PICK k \in Keys : k = KeyOf(b)
  BY KeyOfBatch
<1>4. /\ task'[s] = None /\ \A t \in Senders \ {s} : task'[t] = task[t] /\ pc'[t] = pc[t]
      /\ UNCHANGED <<added, builder, sealed, work, worker, sendQ, key>>
  BY <1>1 DEF Inbound, TypeInv, TypeOK
<1>5. Sits("sender", b) /\ "sender" \in PlaceNames /\ "tasks" \in PlaceNames
  BY <1>2 DEF Sits, InHand, PlaceNames
<1>6. CASE HasSlot(k)
  <2>1. UNCHANGED result /\ tasks'[k] = Append(tasks[k], b)
        /\ \A j \in Keys \ {k} : tasks'[j] = tasks[j]
    BY <1>1, <1>2, <1>3, <1>6 DEF Inbound, TypeInv, TypeOK
  <2>2. tasks[k] \in Seq(Batches) /\ Filed(tasks) /\ ~FiledAt(tasks, b)
    BY <1>1, <1>5 DEF TypeInv, TypeOK, OwnQueues, OnePlace, Sits
  <2>3. Filed(tasks') /\ \A c \in Batches : FiledAt(tasks', c) <=> FiledAt(tasks, c) \/ c = b
    BY <1>3, <2>1, <2>2, FiledLast
  <2>4. \A c \in Batches : InHand(task', c) <=> InHand(task, c) /\ c # b
    BY <1>2, <1>4, HandEmptied DEF OneHand
  <2>5. Shift(b, "sender", "tasks")
    BY <1>4, <2>3, <2>4 DEF Shift, Sits, PlaceNames, FiledAt
  <2>6. OnePlace' /\ EndsKept
    BY <1>4, <1>5, <2>1, <2>5, ShiftOne
  <2>7. OwnQueues' /\ OneHand' /\ PassDone' /\ NotBefore'
    BY <1>4, <2>1, <2>3 DEF OwnQueues, Filed, OneHand, PassDone, NotBefore, Accepted
  <2> QED
    BY <1>2, <1>4, <1>5, <2>1, <2>3, <2>5, <2>6, <2>7 DEF Moves
<1>7. CASE ~HasSlot(k)
  <2>1. Settle(task[s], "failed") /\ UNCHANGED tasks
    BY <1>2, <1>3, <1>7 DEF Inbound
  <2>2. "failed" \in Results \ {"none"} /\ pc[s] \in HasTask
    BY DEF Results, Inbound, HasTask
  <2> QED
    BY <1>4, <2>1, <2>2, HandEnds
<1> QED
  BY <1>6, <1>7

LEMMA PlaceAgain ==
    ASSUME Inv, PlaceInv, NEW s \in Senders, NEW K \in SUBSET Keys, Again(s, K)
    PROVE  PlaceInv' /\ EndsKept /\ Still
<1>1. TypeInv
  BY DEF Inv, SlotInv, QueueInv
<1>2. UNCHANGED <<tasks, builder>>
  BY <1>1, FreesNothing DEF Again, Cleanable
<1>3. pc[s] \notin HasTask /\ \A t \in Senders \ {s} : pc'[t] = pc[t]
  BY <1>1 DEF Again, HasTask, TypeInv, TypeOK
<1> QED
  BY <1>2, <1>3, SenderMoves DEF Again

LEMMA PlaceFinish ==
    ASSUME Inv, PlaceInv, NEW s \in Senders, Finish(s) PROVE PlaceInv' /\ EndsKept /\ Still
<1>1. TypeInv /\ key[s] \in Keys
  BY DEF Finish, Inv, SlotInv, QueueInv, TypeInv, TypeOK, HandsOK, Holding
<1>2. UNCHANGED <<tasks, builder>>
  BY <1>1, FreesNothing DEF Finish, HasBuilder
<1>3. /\ pc[s] \notin HasTask /\ \A t \in Senders \ {s} : pc'[t] = pc[t] /\ key'[t] = key[t]
      /\ key'[s] = None
  BY <1>1 DEF Finish, HasTask, TypeInv, TypeOK
<1> QED
  BY <1>2, <1>3, SenderMoves DEF Finish

LEMMA PlaceTransientFailure ==
    ASSUME Inv, PlaceInv, NEW s \in Senders, TransientFailure(s) PROVE PlaceInv' /\ EndsKept
<1>1. pc[s] \in HasTask /\ pc[s] \in Holding
      /\ UNCHANGED <<added, builder, sealed, work, sendQ, worker>>
  BY DEF TransientFailure, HasTask, Holding
<1>2. CASE PutBack(s) /\ LearnsNothing(task[s])
  BY <1>1, <1>2, PutBackPlaces DEF LearnsNothing
<1>3. ASSUME NEW r \in Results \ {"none"}, End(s, r),
             UNCHANGED <<tasks, inflight, ready, delayed, due, idle, key>>
      PROVE  PlaceInv' /\ EndsKept
  BY <1>1, <1>3, EndPlaces
<1>4. {"failed", "kept", "closed"} \subseteq Results \ {"none"}
  BY DEF Results
<1> QED
  BY <1>2, <1>3, <1>4 DEF TransientFailure

LEMMA PlaceAuthWaitEnds ==
    ASSUME Inv, PlaceInv, NEW s \in Senders, AuthWaitEnds(s) PROVE PlaceInv' /\ EndsKept
<1>1. TypeInv /\ UNCHANGED <<added, builder, sealed, work, sendQ, tasks, key, worker>>
  BY DEF Inv, SlotInv, QueueInv, AuthWaitEnds
<1>2. CASE Open
  <2>1. pc'[s] \in HasTask /\ \A t \in Senders \ {s} : pc'[t] = pc[t]
    BY <1>1, <1>2 DEF AuthWaitEnds, HasTask, TypeInv, TypeOK
  <2> QED
    BY <1>1, <1>2, <2>1, SenderMoves DEF AuthWaitEnds
<1>3. CASE ~Open
  <2>1. End(s, "kept") /\ pc[s] \in HasTask /\ "kept" \in Results \ {"none"}
    BY <1>3 DEF AuthWaitEnds, HasTask, Results
  <2> QED
    BY <1>1, <2>1, EndPlaces
<1> QED
  BY <1>2, <1>3

LEMMA PlaceSender ==
    ASSUME Inv, PlaceInv, NEW s \in Senders, Sender(s) PROVE PlaceInv' /\ EndsKept
<1>1. TypeInv
  BY DEF Inv, SlotInv, QueueInv
<1>2. CASE \E k \in Keys : ScanReady(s, k)
  BY <1>2, PlaceScanReady
<1>3. CASE ScanNothing(s) \/ TakeNothing(s) \/ RelockLeaving(s) \/ Leave(s)
  <2>1. /\ UNCHANGED <<added, builder, sealed, work, sendQ, tasks, task, result, worker, key>>
        /\ pc[s] \notin HasTask /\ \A t \in Senders \ {s} : pc'[t] = pc[t]
    BY <1>1, <1>3 DEF ScanNothing, TakeNothing, RelockLeaving, Leave, HasTask, TypeInv, TypeOK
  <2> QED
    BY <2>1, SenderMoves
<1>4. CASE Take(s) \/ Inbound(s)
  BY <1>4, PlaceTake, PlaceInbound
<1>5. CASE \E K \in SUBSET Keys : Again(s, K)
  BY <1>5, PlaceAgain
<1>6. CASE PassGate(s) \/ EnterBreaker(s) \/ Request(s) \/ Retry(s) \/ Refused(s)
  <2>1. /\ UNCHANGED <<added, builder, sealed, work, sendQ, tasks, task, result, worker, key>>
        /\ pc'[s] \in HasTask /\ \A t \in Senders \ {s} : pc'[t] = pc[t]
    BY <1>1, <1>6 DEF PassGate, EnterBreaker, Request, Retry, Refused, HasTask,
       TypeInv, TypeOK
  <2> QED
    BY <2>1, SenderMoves
<1>7. CASE Defer(s)
  <2>1. /\ pc[s] \in HasTask /\ pc[s] \in Holding /\ PutBack(s)
        /\ UNCHANGED <<added, builder, sealed, work, sendQ, worker, result>>
    BY <1>7 DEF Defer, HasTask, Holding
  <2> QED
    BY <2>1, PutBackPlaces
<1>8. CASE EndsTooOld(s) \/ Delivered(s) \/ Rejected(s)
  <2>1. PICK r \in Results \ {"none"} : End(s, r)
    BY <1>8 DEF EndsTooOld, Delivered, Rejected, Results
  <2>2. /\ pc[s] \in HasTask
        /\ UNCHANGED <<added, builder, sealed, work, sendQ, tasks, key, worker>>
    BY <1>8 DEF EndsTooOld, Delivered, Rejected, HasTask
  <2> QED
    BY <2>1, <2>2, EndPlaces
<1>9. CASE TransientFailure(s) \/ AuthWaitEnds(s) \/ Finish(s)
  BY <1>9, PlaceTransientFailure, PlaceAuthWaitEnds, PlaceFinish
<1> QED
  BY <1>2, <1>3, <1>4, <1>5, <1>6, <1>7, <1>8, <1>9 DEF Sender, Answer

LEMMA PlaceEnvironment ==
    ASSUME Inv, PlaceInv, Environment PROVE PlaceInv' /\ EndsKept
<1>1. CASE \E k \in Keys : Add(k) \/ AddFills(k)
  BY <1>1, PlaceAdd, PlaceAddFills
<1>2. CASE \/ \E k \in Keys : RetryDue(k)
           \/ \E b \in Batches : Expire(b)
           \/ NetworkRecovered \/ UpdateCredentials
           \/ CloseBegin \/ CloseDrained \/ Destroy \/ StopSendQueue
  <2>1. UNCHANGED <<added, builder, sealed, work, sendQ, tasks, task, result, worker, pc, key>>
    BY <1>2 DEF RetryDue, Expire, NetworkRecovered, UpdateCredentials, CloseBegin, CloseDrained,
       Destroy, StopSendQueue
  <2> QED
    BY <2>1, QuietStep DEF PlaceInv, OneHand, PassDone
<1> QED
  BY <1>1, <1>2 DEF Environment

LEMMA PlaceStep == ASSUME Inv, PlaceInv, [Next]_vars PROVE PlaceInv' /\ EndsKept
<1>1. CASE Work
  BY <1>1, PlaceWorkerPass, PlaceReserve, PlacePush, PlacePushFails, PlaceRollback,
     PlaceWorkerRests DEF Work, WorkerStep
<1>2. CASE UNCHANGED vars
  BY <1>2, QuietStep DEF vars, PlaceInv, OneHand, PassDone
<1> QED
  BY <1>1, <1>2, PlaceSender, PlaceEnvironment DEF Next

LEMMA PlaceInit == ASSUME Init PROVE PlaceInv
<1> USE DEF Init
<1>1. Accepted = {}
  <2>1. ASSUME NEW b \in Batches PROVE ~(b[2] <= added[KeyOf(b)])
    <3>1. b[2] \in 1 .. MaxBatches /\ added[KeyOf(b)] = 0
      BY KeyOfBatch DEF Batches
    <3> QED
      BY <3>1, SendAssumption
  <2> QED
    BY <2>1 DEF Accepted
<1>2. OwnQueues
  BY NothingOccurs DEF OwnQueues, Filed
<1>3. \A b \in Batches : \A p \in PlaceNames : ~Sits(p, b)
  BY NothingOccurs, KeyOfBatch, NoBatch DEF Sits, FiledAt, InHand
<1>4. OnePlace
  BY <1>1, <1>3 DEF OnePlace, Pending
<1> QED
  BY <1>2, <1>4 DEF PlaceInv, OneHand, PassDone, NotBefore

LEMMA PlacesAlways == Spec => [](Inv /\ PlaceInv)
<1>1. Init => Inv /\ PlaceInv
  BY InvInit, PlaceInit
<1>2. Inv /\ PlaceInv /\ [Next]_vars => (Inv /\ PlaceInv)'
  BY InvStep, PlaceStep
<1> QED
  BY <1>1, <1>2, PTL DEF Spec

-------------------------------------------------------------------------------
(* The places of a batch, counted *)

(* A batch that is in the queue of its key is there under one index.         *)
LEMMA InQueue ==
    ASSUME NEW name, NEW f, Filed(f), NEW b \in Batches
    PROVE  /\ ~FiledAt(f, b) => In(name, f, b) = {}
           /\ FiledAt(f, b) => \E x : In(name, f, b) = {x}
<1>1. KeyOf(b) \in Keys
  BY KeyOfBatch
<1>2. \A k \in Keys : (\E j \in DOMAIN f[k] : f[k][j] = b) => k = KeyOf(b)
  BY DEF Filed, Occurs
<1>3. CASE ~FiledAt(f, b)
  BY <1>3 DEF FiledAt, Occurs, In
<1>4. CASE FiledAt(f, b)
  <2>1. PICK i \in DOMAIN f[KeyOf(b)] : f[KeyOf(b)][i] = b
    BY <1>4 DEF FiledAt, Occurs
  <2>2. {j \in DOMAIN f[KeyOf(b)] : f[KeyOf(b)][j] = b} = {i}
    BY <1>1, <2>1 DEF Filed, Distinct
  <2>3. {x \in Keys : \E j \in DOMAIN f[x] : f[x][j] = b} = {KeyOf(b)}
    BY <1>1, <1>2, <2>1
  <2>4. In(name, f, b) = {<<name, KeyOf(b), i>>}
    BY <2>2, <2>3 DEF In
  <2> QED
    BY <1>4, <2>4
<1> QED
  BY <1>3, <1>4

LEMMA PlacesCounted == ASSUME Inv, PlaceInv PROVE Conserved
<1> USE DEF PlaceInv
<1>1. SUFFICES ASSUME NEW b \in Batches
               PROVE  Cardinality(Places(b)) = IF Pending(b) THEN 1 ELSE 0
  BY DEF Conserved, Pending
<1> DEFINE inBuilder == {<<"builder", k>> : k \in {x \in Keys : builder[x] = b}}
<1> DEFINE inSendQ == {<<"sendQ", i>> : i \in {j \in DOMAIN sendQ : sendQ[j] = b}}
<1> DEFINE inSender == {<<"sender", s>> : s \in {x \in Senders : task[x] = b}}
<1>2. KeyOf(b) \in Keys /\ b # None
  BY KeyOfBatch, NoBatch
<1>3. /\ ~Sits("builder", b) => inBuilder = {}
      /\ Sits("builder", b) => \E x : inBuilder = {x}
  <2>1. {x \in Keys : builder[x] = b} = IF Sits("builder", b) THEN {KeyOf(b)} ELSE {}
    BY <1>2 DEF OwnQueues, Sits
  <2>2. CASE Sits("builder", b)
    <3>1. inBuilder = {<<"builder", KeyOf(b)>>}
      BY <2>1, <2>2
    <3> QED
      BY <2>2, <3>1
  <2> QED
    BY <2>1, <2>2
<1>4. /\ ~Sits("sendQ", b) => inSendQ = {}
      /\ Sits("sendQ", b) => \E x : inSendQ = {x}
  <2>1. CASE Sits("sendQ", b)
    <3>1. PICK i \in DOMAIN sendQ : sendQ[i] = b
      BY <2>1 DEF Sits, Occurs
    <3>2. inSendQ = {<<"sendQ", i>>}
      BY <3>1 DEF OwnQueues, Distinct
    <3> QED
      BY <2>1, <3>2
  <2>2. CASE ~Sits("sendQ", b)
    BY <2>2 DEF Sits, Occurs
  <2> QED
    BY <2>1, <2>2
<1>5. /\ ~Sits("sender", b) => inSender = {}
      /\ Sits("sender", b) => \E x : inSender = {x}
  <2>1. CASE Sits("sender", b)
    <3>1. PICK s \in Senders : task[s] = b
      BY <2>1 DEF Sits, InHand
    <3>2. inSender = {<<"sender", s>>}
      BY <1>2, <3>1 DEF OneHand
    <3> QED
      BY <2>1, <3>2
  <2>2. CASE ~Sits("sender", b)
    BY <2>2 DEF Sits, InHand
  <2> QED
    BY <2>1, <2>2
<1>6. /\ ~Sits("sealed", b) => In("sealed", sealed, b) = {}
      /\ Sits("sealed", b) => \E x : In("sealed", sealed, b) = {x}
  BY InQueue DEF OwnQueues, Sits
<1>7. /\ ~Sits("work", b) => In("work", work, b) = {}
      /\ Sits("work", b) => \E x : In("work", work, b) = {x}
  BY InQueue DEF OwnQueues, Sits
<1>8. /\ ~Sits("tasks", b) => In("tasks", tasks, b) = {}
      /\ Sits("tasks", b) => \E x : In("tasks", tasks, b) = {x}
  BY InQueue DEF OwnQueues, Sits
<1>9. Places(b) = inBuilder \cup In("sealed", sealed, b) \cup In("work", work, b)
                    \cup In("tasks", tasks, b) \cup inSendQ \cup inSender
  BY DEF Places
<1> HIDE DEF inBuilder, inSendQ, inSender
<1>10. CASE Pending(b)
  <2>1. PICK p \in PlaceNames : Sits(p, b) /\ \A q \in PlaceNames : Sits(q, b) => q = p
    BY <1>10 DEF OnePlace
  <2>2. \E x : Places(b) = {x}
    <3> USE <1>3, <1>4, <1>5, <1>6, <1>7, <1>8, <1>9, <2>1 DEF PlaceNames
    <3>1. CASE p = "builder"
      BY <3>1
    <3>2. CASE p = "sealed"
      BY <3>2
    <3>3. CASE p = "work"
      BY <3>3
    <3>4. CASE p = "sendQ"
      BY <3>4
    <3>5. CASE p = "tasks"
      BY <3>5
    <3>6. CASE p = "sender"
      BY <3>6
    <3> QED
      BY <3>1, <3>2, <3>3, <3>4, <3>5, <3>6
  <2> QED
    BY <1>10, <2>2, FS_Singleton
<1>11. CASE ~Pending(b)
  <2>1. \A p \in PlaceNames : ~Sits(p, b)
    BY <1>11 DEF OnePlace
  <2>2. Places(b) = {}
    BY <1>3, <1>4, <1>5, <1>6, <1>7, <1>8, <1>9, <2>1 DEF PlaceNames
  <2> QED
    BY <1>11, <2>2, FS_EmptySet
<1> QED
  BY <1>10, <1>11

-------------------------------------------------------------------------------
(* The end of the pipeline *)

(* As long as a key queue has tasks some sender has not decided to leave: it  *)
(* decides so when it sees none in use, and what comes later comes from a    *)
(* sender that goes on.                                                      *)
SomeoneStays ==
    (\E k \in Keys : tasks[k] # <<>>) => \E s \in Senders : pc[s] \notin {"leave", "exited"}

(* After a successful close nothing is left before the senders.              *)
DrainedBefore ==
    phase = "closed" =>
        /\ sendQ = <<>> /\ worker \in {"idle", "exited"}
        /\ \A k \in Keys : sealed[k] = <<>> /\ builder[k] = None

LEMMA StaysStep == ASSUME Inv, SomeoneStays, [Next]_vars PROVE SomeoneStays'
<1>1. TypeInv
  BY DEF Inv, SlotInv, QueueInv
<1>2. ASSUME UNCHANGED <<tasks, pc>> PROVE SomeoneStays'
  BY <1>2 DEF SomeoneStays
<1>3. CASE Work \/ Environment \/ UNCHANGED vars
  <2>1. CASE Rollback
    <3>1. UNCHANGED pc /\ \A k \in Keys : tasks'[k] # <<>> => tasks[k] # <<>>
      BY <1>1, <2>1 DEF Rollback, FreeAll, TypeInv, TypeOK
    <3> QED
      BY <3>1 DEF SomeoneStays
  <2>2. CASE ~Rollback
    BY <1>2, <1>3, <2>2 DEF Work, WorkerStep, Environment, vars, WorkerPass, Reserve, Push,
       PushFails, WorkerDone, WorkerExit, Add, AddFills, RetryDue, Expire, NetworkRecovered,
       UpdateCredentials, CloseBegin, CloseDrained, Destroy, StopSendQueue
  <2> QED
    BY <2>1, <2>2
<1>4. ASSUME NEW s \in Senders, Sender(s) PROVE SomeoneStays'
  <2>1. pc \in [Senders -> SenderStates]
    BY <1>1 DEF TypeInv, TypeOK
  <2>2. CASE pc'[s] \notin {"leave", "exited"}
    BY <2>2 DEF SomeoneStays
  <2>3. CASE RelockLeaving(s) /\ pc'[s] = "leave"
    BY <2>1, <2>3 DEF RelockLeaving, InUse, SomeoneStays
  <2>4. CASE Leave(s)
    BY <2>1, <2>4 DEF Leave, SomeoneStays
  <2>5. pc'[s] \notin {"leave", "exited"} \/ (RelockLeaving(s) /\ pc'[s] = "leave") \/ Leave(s)
    <3>1. CASE \E k \in Keys : ScanReady(s, k)
      BY <2>1, <3>1 DEF ScanReady
    <3>2. CASE ScanNothing(s) \/ Take(s) \/ TakeNothing(s) \/ Inbound(s)
      BY <2>1, <3>2 DEF ScanNothing, Take, TakeNothing, Inbound
    <3>3. CASE RelockLeaving(s) \/ (\E K \in SUBSET Keys : Again(s, K))
      BY <2>1, <3>3 DEF RelockLeaving, Again
    <3>4. CASE \/ Defer(s) \/ Finish(s)
               \/ PassGate(s) \/ EnterBreaker(s) \/ Request(s) \/ Retry(s) \/ Refused(s)
      BY <2>1, <3>4 DEF Defer, PutBack, Finish, PassGate, EnterBreaker, Request, Retry, Refused
    <3>5. CASE EndsTooOld(s) \/ Delivered(s) \/ Rejected(s) \/ AuthWaitEnds(s)
      BY <2>1, <3>5 DEF EndsTooOld, Delivered, Rejected, AuthWaitEnds, End
    <3>6. CASE TransientFailure(s)
      BY <2>1, <3>6 DEF TransientFailure, PutBack, End
    <3> QED
      BY <1>4, <3>1, <3>2, <3>3, <3>4, <3>5, <3>6 DEF Sender, Answer
  <2> QED
    BY <2>2, <2>3, <2>4, <2>5
<1> QED
  BY <1>3, <1>4 DEF Next

LEMMA DrainedStep == ASSUME Inv, DrainedBefore, [Next]_vars PROVE DrainedBefore'
<1>1. TypeInv
  BY DEF Inv, SlotInv, QueueInv
<1> USE DEF DrainedBefore
<1>2. ASSUME UNCHANGED <<phase, sendQ, worker, sealed, builder>> PROVE DrainedBefore'
  BY <1>2
<1>3. CASE Work
  BY <1>3 DEF Work, WorkerStep, WorkerPass, Reserve, Push, PushFails, Rollback, WorkerDone,
     WorkerExit
<1>4. ASSUME NEW s \in Senders, Sender(s) PROVE DrainedBefore'
  <2>1. UNCHANGED <<phase, worker, sealed>>
    BY <1>4 DEF Sender, Answer, ScanReady, ScanNothing, Take, TakeNothing, Inbound,
       RelockLeaving, Again, Leave, PassGate, Defer, PutBack, EnterBreaker, EndsTooOld, Request,
       Retry, Delivered, Rejected, Refused, End, TransientFailure, AuthWaitEnds, Finish
  <2>2. sendQ = <<>> => sendQ' = <<>>
    BY <1>4 DEF Sender, Answer, ScanReady, ScanNothing, Take, TakeNothing, Inbound,
       RelockLeaving, Again, Leave, PassGate, Defer, PutBack, EnterBreaker, EndsTooOld, Request,
       Retry, Delivered, Rejected, Refused, End, TransientFailure, AuthWaitEnds, Finish
  <2>3. \A k \in Keys : builder[k] = None => builder'[k] = None
    BY <1>4 DEF Sender, Answer, ScanReady, ScanNothing, Take, TakeNothing, Inbound,
       RelockLeaving, Again, Leave, PassGate, Defer, PutBack, EnterBreaker, EndsTooOld, Request,
       Retry, Delivered, Rejected, Refused, End, TransientFailure, AuthWaitEnds, Finish, FreeAll
  <2> QED
    BY <2>1, <2>2, <2>3
<1>5. CASE Environment
  BY <1>5 DEF Environment, Add, AddFills, RetryDue, Expire, NetworkRecovered,
     UpdateCredentials, CloseBegin, CloseDrained, Drained, Destroy, StopSendQueue, Open
<1>6. CASE UNCHANGED vars
  BY <1>2, <1>6 DEF vars
<1> QED
  BY <1>3, <1>4, <1>5, <1>6 DEF Next

DoneInv == Inv /\ PlaceInv /\ SomeoneStays /\ DrainedBefore

LEMMA DoneAlways == Spec => []DoneInv
<1>1. Init => SomeoneStays /\ DrainedBefore
  BY DEF Init, SomeoneStays, DrainedBefore
<1>2. Init => DoneInv
  BY <1>1, InvInit, PlaceInit DEF DoneInv
<1>3. DoneInv /\ [Next]_vars => DoneInv'
  BY InvStep, PlaceStep, StaysStep, DrainedStep DEF DoneInv
<1> QED
  BY <1>2, <1>3, PTL DEF Spec

(* With every sender gone no place is left for a batch that has not ended.   *)
LEMMA NowhereLeft == ASSUME DoneInv PROVE ClosedMeansDone
<1>1. SUFFICES ASSUME phase = "closed", \A s \in Senders : pc[s] = "exited",
                      NEW b \in Accepted, result[b] = "none"
               PROVE  FALSE
  BY DEF ClosedMeansDone
<1>2. b \in Batches /\ KeyOf(b) \in Keys /\ b # None /\ worker \in {"idle", "exited"}
      /\ work[KeyOf(b)] = <<>> /\ sendQ = <<>>
      /\ sealed[KeyOf(b)] = <<>> /\ builder[KeyOf(b)] = None
  BY <1>1, KeyOfBatch, NoBatch DEF Accepted, DoneInv, PlaceInv, PassDone, DrainedBefore
<1>3. tasks[KeyOf(b)] = <<>>
  BY <1>1, <1>2 DEF DoneInv, SomeoneStays
<1>4. ~InHand(task, b)
  BY <1>1, <1>2 DEF DoneInv, PlaceInv, OneHand, InHand, HasTask
<1>5. \A p \in PlaceNames : ~Sits(p, b)
  BY <1>2, <1>3, <1>4, NothingOccurs DEF Sits, FiledAt
<1> QED
  BY <1>1, <1>2, <1>5 DEF DoneInv, PlaceInv, OnePlace, Pending

-------------------------------------------------------------------------------
(* Batches that close ends without another request *)

ClosedAs == IF Persistent THEN "kept" ELSE "closed"

(* A doomed batch waits in its key queue, still retained, until it is popped  *)
(* and ended; it never gets into a sender's hand.                            *)
DoomInv ==
    \A b \in doomed :
        /\ ~Open
        /\ \/ result[b] = "none" /\ Sits("tasks", b) /\ b \in retained
           \/ result[b] = ClosedAs

LEMMA DoomedNotSent == ASSUME Inv, PlaceInv, DoomInv PROVE NoFinalRequest
<1>1. ASSUME NEW s \in Senders, pc[s] \in Sending PROVE task[s] \notin doomed
  <2>1. task[s] \in Batches /\ Sits("sender", task[s])
    BY <1>1 DEF Inv, SlotInv, QueueInv, TypeInv, HandsOK, HasTask, Sits, InHand
  <2>2. "tasks" \in PlaceNames /\ "sender" \in PlaceNames /\ ClosedAs # "none"
    BY DEF PlaceNames, ClosedAs
  <2>3. Pending(task[s]) /\ ~Sits("tasks", task[s])
    BY <2>1, <2>2 DEF PlaceInv, OnePlace
  <2> QED
    BY <2>2, <2>3 DEF DoomInv, Pending
<1> QED
  BY <1>1 DEF NoFinalRequest, DoomInv, ClosedAs

(* What becomes in one step of a retained batch in its key queue, once the    *)
(* producer closes: it stays, or it is popped and ends.                      *)
Stays(b) == FiledAt(tasks', b) /\ b \in retained' /\ result'[b] = result[b]
Fated(b) == Stays(b) \/ result'[b] = ClosedAs

LEMMA StaysWhileOtherEnds ==
    ASSUME Inv, PlaceInv, NEW b \in Batches, Sits("tasks", b), b \in retained,
           NEW p \in PlaceNames, p # "tasks", NEW c \in Batches, Sits(p, c),
           NEW r, Settle(c, r), UNCHANGED tasks, retained \ {c} \subseteq retained'
    PROVE  Stays(b)
<1>1. b # c
  BY DEF PlaceInv, OnePlace, PlaceNames
<1>2. result \in [Batches -> Results]
  BY DEF Inv, SlotInv, QueueInv, TypeInv, TypeOK
<1> QED
  BY <1>1, <1>2 DEF Stays, Settle, Sits, FiledAt

LEMMA FateScanReady ==
    ASSUME Inv, PlaceInv, NEW b \in Batches, Sits("tasks", b), b \in retained, ~Open,
           NEW s \in Senders, NEW k \in Keys, ScanReady(s, k)
    PROVE  Fated(b)
<1>1. TypeInv /\ ListedFull
  BY QueueInvScheduled DEF Inv, SlotInv, QueueInv
<1>2. tasks[k] \in Seq(Batches) /\ tasks[k] # <<>> /\ Filed(tasks)
  BY <1>1 DEF ScanReady, ReadyAfterPromotion, ListedFull, TypeInv, TypeOK, PlaceInv, OwnQueues
<1>3. tasks'[k] = Tail(tasks[k]) /\ \A j \in Keys \ {k} : tasks'[j] = tasks[j]
  BY <1>1 DEF ScanReady, TypeInv, TypeOK
<1>4. PICK c \in Batches : c = Head(tasks[k])
  BY <1>2, Emptied
<1>5. \A d \in Batches : FiledAt(tasks', d) <=> FiledAt(tasks, d) /\ d # c
  BY <1>2, <1>3, <1>4, FiledTail
<1>6. result \in [Batches -> Results]
  BY <1>1 DEF TypeInv, TypeOK
<1>7. CASE b = c
  <2>1. Popped(b) = ClosedAs /\ ClosedAs # "none"
    BY DEF Popped, ClosedAs
  <2>2. Settle(b, ClosedAs)
    BY <1>4, <1>7, <2>1 DEF ScanReady
  <2> QED
    BY <1>6, <2>2 DEF Settle, Fated
<1>8. CASE b # c
  <2>1. (UNCHANGED <<retained, result>>) \/ \E r : Settle(c, r) /\ retained' = retained \ {c}
    BY <1>4 DEF ScanReady, Release
  <2>2. FiledAt(tasks', b)
    BY <1>5, <1>8 DEF Sits
  <2> QED
    BY <1>6, <1>8, <2>1, <2>2 DEF Settle, Fated, Stays
<1> QED
  BY <1>7, <1>8

LEMMA FateWork ==
    ASSUME Inv, PlaceInv, NEW b \in Batches, Sits("tasks", b), b \in retained, Work
    PROVE  Stays(b)
<1>1. TypeInv /\ FiledAt(tasks, b)
  BY DEF Inv, SlotInv, QueueInv, Sits
<1>2. ASSUME UNCHANGED <<tasks, retained, result>> PROVE Stays(b)
  BY <1>1, <1>2 DEF Stays
<1>3. ASSUME NEW k \in Keys, work[k] # <<>>, Settle(Head(work[k]), "failed"),
             UNCHANGED <<tasks, retained>>
      PROVE  Stays(b)
  <2>1. work[k] \in Seq(Batches) /\ Filed(work)
    BY <1>1 DEF TypeInv, TypeOK, PlaceInv, OwnQueues
  <2>2. Head(work[k]) \in Batches /\ FiledAt(work, Head(work[k]))
    <3>1. Head(work[k]) \in Batches
      BY <1>3, <2>1, Emptied
    <3>2. Occurs(work[k], Head(work[k]))
      BY <1>3, <2>1, TailLacksHead DEF Filed
    <3> QED
      BY <2>1, <3>1, <3>2 DEF Filed, FiledAt
  <2>3. PICK c \in Batches : c = Head(work[k])
    BY <2>2
  <2>4. Sits("work", c) /\ "work" \in PlaceNames /\ "work" # "tasks"
    BY <2>2, <2>3 DEF Sits, PlaceNames
  <2> QED
    BY <1>3, <2>3, <2>4, StaysWhileOtherEnds
<1>4. ASSUME NEW k \in Keys, Reserve(k) PROVE Stays(b)
  BY <1>2, <1>3, <1>4 DEF Reserve
<1>5. CASE PushFails
  <2>1. slot \in Keys /\ work[slot] # <<>>
    BY <1>1, <1>5 DEF PushFails, TypeInv, SlotOK
  <2> QED
    BY <1>3, <1>5, <2>1 DEF PushFails
<1>6. CASE Rollback
  <2>1. slot \in Keys
    BY <1>1, <1>6 DEF Rollback, TypeInv, SlotOK
  <2>2. UNCHANGED <<tasks, builder>>
    BY <1>1, <1>6, <2>1, FreesNothing DEF Rollback, UnusedQueue
  <2> QED
    BY <1>2, <1>6, <2>2 DEF Rollback
<1>7. CASE (\E K \in SUBSET Keys : WorkerPass(K)) \/ Push \/ WorkerDone \/ WorkerExit
  BY <1>2, <1>7 DEF WorkerPass, Push, WorkerDone, WorkerExit
<1> QED
  BY <1>4, <1>5, <1>6, <1>7 DEF Work, WorkerStep

LEMMA FateSender ==
    ASSUME Inv, PlaceInv, NEW b \in Batches, Sits("tasks", b), b \in retained, ~Open,
           NEW s \in Senders, Sender(s)
    PROVE  Fated(b)
<1>1. TypeInv /\ FiledAt(tasks, b)
  BY DEF Inv, SlotInv, QueueInv, Sits
<1>2. ASSUME UNCHANGED <<tasks, retained, result>> PROVE Fated(b)
  BY <1>1, <1>2 DEF Fated, Stays
<1>3. ASSUME NEW r, pc[s] \in HasTask, Settle(task[s], r), UNCHANGED tasks,
             retained \ {task[s]} \subseteq retained'
      PROVE  Fated(b)
  <2>1. PICK c \in Batches : c = task[s]
    BY <1>1, <1>3 DEF TypeInv, HandsOK
  <2>2. Sits("sender", c) /\ "sender" \in PlaceNames /\ "sender" # "tasks"
    BY <2>1 DEF Sits, InHand, PlaceNames
  <2> QED
    BY <1>3, <2>1, <2>2, StaysWhileOtherEnds DEF Fated
<1>4. CASE \E k \in Keys : ScanReady(s, k)
  BY <1>4, FateScanReady
<1>5. CASE ScanNothing(s) \/ Take(s) \/ TakeNothing(s) \/ RelockLeaving(s) \/ Leave(s)
           \/ PassGate(s) \/ EnterBreaker(s) \/ Request(s) \/ Retry(s) \/ Refused(s)
  BY <1>2, <1>5 DEF ScanNothing, Take, TakeNothing, RelockLeaving, Leave, PassGate, EnterBreaker,
     Request, Retry, Refused
<1>6. CASE Inbound(s)
  <2>1. CASE HasSlot(KeyOf(task[s]))
    <3>1. UNCHANGED <<retained, result>>
      BY <1>6, <2>1 DEF Inbound
    <3> QED
      BY <1>1, <1>6, <3>1, PlaceInbound DEF Fated, Stays
  <2>2. CASE ~HasSlot(KeyOf(task[s]))
    BY <1>3, <1>6, <2>2 DEF Inbound, HasTask
  <2> QED
    BY <2>1, <2>2
<1>7. ASSUME NEW K \in SUBSET Keys, Again(s, K) PROVE Fated(b)
  <2>1. UNCHANGED <<tasks, builder>>
    BY <1>1, <1>7, FreesNothing DEF Again, Cleanable
  <2> QED
    BY <1>2, <1>7, <2>1 DEF Again
<1>8. CASE Finish(s)
  <2>1. key[s] \in Keys
    BY <1>1, <1>8 DEF Finish, TypeInv, TypeOK, HandsOK, Holding
  <2>2. UNCHANGED <<tasks, builder>>
    BY <1>1, <1>8, <2>1, FreesNothing DEF Finish, HasBuilder
  <2> QED
    BY <1>2, <1>8, <2>2 DEF Finish
<1>9. CASE Defer(s)
  <2>1. /\ pc[s] \in HasTask /\ pc[s] \in Holding /\ PutBack(s)
        /\ UNCHANGED <<added, builder, sealed, work, sendQ, worker, result, retained>>
    BY <1>9 DEF Defer, HasTask, Holding
  <2> QED
    BY <1>1, <2>1, PutBackPlaces DEF Fated, Stays
<1>10. CASE EndsTooOld(s) \/ Delivered(s) \/ Rejected(s)
  BY <1>3, <1>10 DEF EndsTooOld, Delivered, Rejected, End, Release, HasTask
<1>11. CASE TransientFailure(s) \/ AuthWaitEnds(s)
  BY <1>3, <1>11 DEF TransientFailure, AuthWaitEnds, End, Release, HasTask
<1> QED
  BY <1>4, <1>5, <1>6, <1>7, <1>8, <1>9, <1>10, <1>11 DEF Sender, Answer

LEMMA DoomStep == ASSUME Inv, PlaceInv, DoomInv, [Next]_vars PROVE DoomInv'
<1>1. CASE doomed' = doomed /\ (~Open => ~Open')
  <2>1. SUFFICES ASSUME NEW b \in Batches, b \in doomed, ~Open,
                        \/ result[b] = "none" /\ Sits("tasks", b) /\ b \in retained
                        \/ result[b] = ClosedAs
                 PROVE  \/ result'[b] = "none" /\ FiledAt(tasks', b) /\ b \in retained'
                        \/ result'[b] = ClosedAs
    <3>1. doomed \subseteq Batches
      BY DEF Inv, SlotInv, QueueInv, TypeInv, TypeOK
    <3>2. ClosedAs' = ClosedAs
      BY DEF ClosedAs
    <3> QED
      BY <1>1, <2>1, <3>1, <3>2 DEF DoomInv, Sits
  <2>2. CASE result[b] = ClosedAs
    BY <2>2, PlaceStep DEF EndsKept, ClosedAs
  <2>3. CASE result[b] = "none" /\ Sits("tasks", b) /\ b \in retained
    <3>1. Fated(b)
      <4>1. CASE Work
        BY <2>1, <2>3, <4>1, FateWork DEF Fated
      <4>2. ASSUME NEW s \in Senders, Sender(s) PROVE Fated(b)
        BY <2>1, <2>3, <4>2, FateSender
      <4>3. CASE Environment \/ UNCHANGED vars
        <5>1. UNCHANGED <<tasks, retained, result>>
          BY <4>3 DEF vars, Environment, Add, AddFills, RetryDue, Expire, NetworkRecovered,
             UpdateCredentials, CloseBegin, CloseDrained, Destroy, StopSendQueue
        <5> QED
          BY <2>3, <5>1 DEF Fated, Stays, Sits, FiledAt
      <4> QED
        BY <4>1, <4>2, <4>3 DEF Next
    <3> QED
      BY <2>3, <3>1 DEF Fated, Stays
  <2> QED
    BY <2>1, <2>2, <2>3
<1>2. CASE Open /\ doomed' = WaitingRetained /\ phase' # "open"
           /\ UNCHANGED <<tasks, retained, result>>
  <2>1. SUFFICES ASSUME NEW b \in Batches, b \in WaitingRetained
                 PROVE  result[b] = "none" /\ FiledAt(tasks, b) /\ b \in retained
    <3>1. WaitingRetained \subseteq Batches
      BY DEF WaitingRetained, Inv, SlotInv, QueueInv, TypeInv, TypeOK
    <3> QED
      BY <1>2, <2>1, <3>1 DEF DoomInv, Sits, FiledAt, Open
  <2>2. b \in retained /\ \E k \in Keys : Occurs(tasks[k], b)
    BY <2>1 DEF WaitingRetained, Occurs
  <2>3. FiledAt(tasks, b)
    BY <2>2 DEF PlaceInv, OwnQueues, Filed, FiledAt
  <2>4. Pending(b)
    BY <2>3 DEF PlaceInv, OnePlace, Sits, PlaceNames
  <2> QED
    BY <2>2, <2>3, <2>4 DEF Pending
<1>3. CASE CloseBegin \/ Destroy
  BY <1>1, <1>2, <1>3 DEF CloseBegin, Destroy, Open
<1>4. CASE Work \/ UNCHANGED vars
  BY <1>1, <1>4 DEF vars, Open, Work, WorkerStep, WorkerPass, Reserve, Push, PushFails, Rollback,
     WorkerDone, WorkerExit
<1>5. ASSUME NEW s \in Senders, Sender(s) PROVE DoomInv'
  <2>1. UNCHANGED <<phase, doomed>>
    BY <1>5 DEF Sender, Answer, ScanReady, ScanNothing, Take, TakeNothing, Inbound,
       RelockLeaving, Again, Leave, PassGate, Defer, PutBack, EnterBreaker, EndsTooOld, Request,
       Retry, Delivered, Rejected, Refused, End, TransientFailure, AuthWaitEnds, Finish
  <2> QED
    BY <1>1, <2>1 DEF Open
<1>6. CASE Environment /\ ~(CloseBegin \/ Destroy)
  BY <1>1, <1>6 DEF Environment, Add, AddFills, RetryDue, Expire, NetworkRecovered,
     UpdateCredentials, CloseDrained, StopSendQueue, Open
<1> QED
  BY <1>3, <1>4, <1>5, <1>6 DEF Next

LEMMA DoomAlways == Spec => [](Inv /\ PlaceInv /\ DoomInv)
<1>1. Init => Inv /\ PlaceInv /\ DoomInv
  BY InvInit, PlaceInit DEF Init, DoomInv
<1>2. (Inv /\ PlaceInv /\ DoomInv) /\ [Next]_vars => (Inv /\ PlaceInv /\ DoomInv)'
  BY InvStep, PlaceStep, DoomStep
<1> QED
  BY <1>1, <1>2, PTL DEF Spec

-------------------------------------------------------------------------------
(* Batches in order *)

IsOrder(S, q) ==
    /\ q \in Seq(S) /\ \A b \in S : Occurs(q, b)
    /\ \A i, j \in DOMAIN q : i < j => q[i][2] < q[j][2]

LEMMA NumberOfBatch == ASSUME NEW b \in Batches PROVE b[2] \in Nat /\ b = <<KeyOf(b), b[2]>>
  BY SendAssumption DEF Batches, KeyOf

(* The batches before the i-th are the first i - 1.                           *)
LEMMA OrderRank ==
    ASSUME NEW S \in SUBSET Batches, NEW q, IsOrder(S, q), NEW i \in DOMAIN q
    PROVE  Cardinality({c \in S : c[2] < q[i][2]}) = i - 1
<1> DEFINE T == {c \in S : c[2] < q[i][2]}
<1>1. /\ q \in Seq(S) /\ Len(q) \in Nat /\ DOMAIN q = 1 .. Len(q)
      /\ \A j \in 1 .. Len(q) : q[j] \in S /\ q[j][2] \in Nat
  BY LenProperties, ElementOfSeq, NumberOfBatch DEF IsOrder
<1>2. i \in Nat /\ i - 1 \in Nat /\ 1 .. i - 1 \subseteq 1 .. Len(q) /\ i \in 1 .. Len(q)
  BY <1>1
<1>3. \A j \in 1 .. Len(q) : \A k \in 1 .. Len(q) : j < k => q[j][2] < q[k][2]
  BY <1>1 DEF IsOrder
<1>4. \A j \in 1 .. i - 1 : q[j] \in T
  <2>1. \A j \in 1 .. i - 1 : j < i
    BY <1>2
  <2> QED
    BY <1>1, <1>2, <1>3, <2>1
<1>5. \A c \in T : \E j \in 1 .. i - 1 : q[j] = c
  <2>1. SUFFICES ASSUME NEW c \in S, c[2] < q[i][2] PROVE \E j \in 1 .. i - 1 : q[j] = c
    OBVIOUS
  <2>2. PICK j \in 1 .. Len(q) : q[j] = c
    BY <1>1 DEF IsOrder, Occurs
  <2>3. ~(i <= j)
    <3>1. ASSUME i < j PROVE FALSE
      BY <1>1, <1>2, <1>3, <2>1, <2>2, <3>1
    <3>2. i # j
      BY <1>1, <1>2, <2>1, <2>2
    <3> QED
      BY <1>1, <1>2, <3>1, <3>2
  <2> QED
    BY <1>1, <1>2, <2>2, <2>3
<1>6. \A j \in 1 .. i - 1 : \A k \in 1 .. i - 1 : q[j] = q[k] => j = k
  <2>1. SUFFICES ASSUME NEW j \in 1 .. i - 1, NEW k \in 1 .. i - 1, q[j] = q[k], j # k
                 PROVE  FALSE
    OBVIOUS
  <2>2. j < k \/ k < j
    BY <1>2, <2>1
  <2> QED
    BY <1>1, <1>2, <1>3, <2>1, <2>2
<1> DEFINE f == [j \in 1 .. i - 1 |-> q[j]]
<1>7. f \in Bijection(1 .. i - 1, T)
  <2> HIDE DEF T
  <2>1. f \in [1 .. i - 1 -> T]
    BY <1>4
  <2>2. f \in Surjection(1 .. i - 1, T)
    BY <1>5, <2>1 DEF Surjection
  <2>3. f \in Injection(1 .. i - 1, T)
    BY <1>6, <2>1 DEF Injection, IsInjective
  <2> QED
    BY <2>2, <2>3 DEF Bijection
<1>8. ExistsBijection(1 .. i - 1, T)
  BY <1>7 DEF ExistsBijection
<1> QED
  BY <1>2, <1>8, FS_CountingElements

LEMMA OrderSize ==
    ASSUME NEW S \in SUBSET Batches, NEW q, IsOrder(S, q)
    PROVE  Cardinality(S) = Len(q) /\ IsFiniteSet(S)
<1>1. /\ q \in Seq(S) /\ Len(q) \in Nat /\ DOMAIN q = 1 .. Len(q)
      /\ \A j \in 1 .. Len(q) : q[j] \in S /\ q[j][2] \in Nat
  BY LenProperties, ElementOfSeq, NumberOfBatch DEF IsOrder
<1>2. \A j \in 1 .. Len(q) : \A k \in 1 .. Len(q) : q[j] = q[k] => j = k
  <2>1. SUFFICES ASSUME NEW j \in 1 .. Len(q), NEW k \in 1 .. Len(q), q[j] = q[k], j # k
                 PROVE  FALSE
    OBVIOUS
  <2>2. j < k \/ k < j
    BY <1>1, <2>1
  <2> QED
    BY <1>1, <2>1, <2>2 DEF IsOrder
<1>3. q \in [1 .. Len(q) -> S] /\ \A c \in S : \E j \in 1 .. Len(q) : q[j] = c
  BY <1>1, LenProperties DEF IsOrder, Occurs
<1>4. q \in Bijection(1 .. Len(q), S)
  BY <1>2, <1>3 DEF Bijection, Injection, IsInjective, Surjection
<1>5. ExistsBijection(1 .. Len(q), S)
  BY <1>4 DEF ExistsBijection
<1>6. Cardinality(S) = Len(q)
  BY <1>1, <1>5, FS_CountingElements
<1>7. IsFiniteSet(1 .. Len(q))
  BY <1>1, FS_Interval
<1> QED
  BY <1>5, <1>6, <1>7, FS_Bijection

(* There is one order of a set: that of InOrder.                             *)
LEMMA OrderIs ==
    ASSUME NEW S \in SUBSET Batches, NEW q, IsOrder(S, q)
    PROVE  InOrder(S) = q
<1>1. /\ q \in Seq(S) /\ Len(q) \in Nat /\ DOMAIN q = 1 .. Len(q)
      /\ \A j \in 1 .. Len(q) : q[j] \in S
  BY LenProperties, ElementOfSeq DEF IsOrder
<1>2. q = [i \in 1 .. Len(q) |-> q[i]]
  BY <1>1, LenProperties
<1>3. ASSUME NEW i \in 1 .. Len(q)
      PROVE  (CHOOSE b \in S : Cardinality({c \in S : c[2] < b[2]}) = i - 1) = q[i]
  <2> DEFINE Ranked(b) == Cardinality({c \in S : c[2] < b[2]}) = i - 1
  <2>1. q[i] \in S /\ Ranked(q[i])
    BY <1>1, <1>3, OrderRank
  <2>2. ASSUME NEW b \in S, Ranked(b) PROVE b = q[i]
    <3>1. PICK j \in 1 .. Len(q) : q[j] = b
      BY <1>1 DEF IsOrder, Occurs
    <3>2. Cardinality({c \in S : c[2] < q[j][2]}) = j - 1
      BY <1>1, OrderRank
    <3>3. j - 1 = i - 1
      BY <2>2, <3>1, <3>2
    <3> QED
      BY <1>1, <3>1, <3>3
  <2> HIDE DEF Ranked
  <2>3. (CHOOSE b \in S : Ranked(b)) = q[i]
    BY <2>1, <2>2
  <2> QED
    BY <2>3 DEF Ranked
<1> QED
  BY <1>2, <1>3, OrderSize DEF InOrder

LEMMA OrderAppend ==
    ASSUME NEW S \in SUBSET Batches, NEW q, IsOrder(S, q), NEW b \in Batches,
           \A c \in S : c[2] < b[2]
    PROVE  IsOrder(S \cup {b}, Append(q, b))
<1>1. /\ q \in Seq(S) /\ Len(q) \in Nat /\ DOMAIN q = 1 .. Len(q)
      /\ \A j \in 1 .. Len(q) : q[j] \in S
  BY LenProperties, ElementOfSeq DEF IsOrder
<1>2. q \in Seq(S \cup {b})
  BY <1>1, LenProperties, SeqDef
<1> DEFINE r == Append(q, b)
<1>3. /\ r \in Seq(S \cup {b}) /\ Len(r) = Len(q) + 1 /\ r[Len(q) + 1] = b
      /\ \A i \in 1 .. Len(q) : r[i] = q[i]
  BY <1>2, AppendProperties
<1>4. DOMAIN r = 1 .. Len(q) + 1
  BY <1>3, LenProperties
<1> HIDE DEF r
<1>5. \A i \in 1 .. Len(q) + 1 : i \in 1 .. Len(q) \/ i = Len(q) + 1
  BY <1>1
<1>6. \A c \in S \cup {b} : Occurs(r, c)
  <2>1. Len(q) + 1 \in 1 .. Len(q) + 1 /\ 1 .. Len(q) \subseteq 1 .. Len(q) + 1
    BY <1>1
  <2>2. \A c \in S : \E i \in 1 .. Len(q) : q[i] = c
    BY <1>1 DEF IsOrder, Occurs
  <2> QED
    BY <1>3, <1>4, <2>1, <2>2 DEF Occurs
<1>7. ASSUME NEW i \in 1 .. Len(q) + 1, NEW j \in 1 .. Len(q) + 1, i < j
      PROVE  r[i][2] < r[j][2]
  <2>1. i \in 1 .. Len(q)
    BY <1>1, <1>7
  <2>2. CASE j \in 1 .. Len(q)
    BY <1>1, <1>3, <1>7, <2>1, <2>2 DEF IsOrder
  <2>3. CASE j = Len(q) + 1
    BY <1>1, <1>3, <2>1, <2>3
  <2> QED
    BY <1>5, <2>2, <2>3
<1> QED
  BY <1>3, <1>4, <1>6, <1>7 DEF IsOrder, r

LEMMA OrderRemove ==
    ASSUME NEW S \in SUBSET Batches, NEW q, IsOrder(S, q), NEW i \in DOMAIN q
    PROVE  IsOrder(S \ {q[i]}, SubSeq(q, 1, i - 1) \o SubSeq(q, i + 1, Len(q)))
<1>1. /\ q \in Seq(S) /\ Len(q) \in Nat /\ DOMAIN q = 1 .. Len(q)
      /\ \A j \in 1 .. Len(q) : q[j] \in S /\ q[j][2] \in Nat
  BY LenProperties, ElementOfSeq, NumberOfBatch DEF IsOrder
<1> DEFINE n == Len(q)
<1> DEFINE u == SubSeq(q, 1, i - 1)
<1> DEFINE v == SubSeq(q, i + 1, n)
<1> DEFINE r == u \o v
<1>2. i \in 1 .. n /\ i \in Nat /\ n \in Nat
  BY <1>1
<1>3. u \in Seq(S) /\ Len(u) = i - 1 /\ \A j \in 1 .. i - 1 : u[j] = q[j]
  <2>1. /\ u \in Seq(S) /\ Len(u) = IF 1 <= i - 1 THEN (i - 1) - 1 + 1 ELSE 0
        /\ \A j \in 1 .. (i - 1) - 1 + 1 : u[j] = q[1 + j - 1]
    BY <1>1, <1>2, SubSeqProperties
  <2>2. \A j \in 1 .. i - 1 : 1 + j - 1 = j
    BY <1>2
  <2> HIDE DEF u
  <2> QED
    BY <1>2, <2>1, <2>2
<1>4. v \in Seq(S) /\ Len(v) = n - i /\ \A j \in 1 .. n - i : v[j] = q[i + j]
  <2>1. /\ v \in Seq(S) /\ Len(v) = IF i + 1 <= n THEN n - (i + 1) + 1 ELSE 0
        /\ \A j \in 1 .. n - (i + 1) + 1 : v[j] = q[(i + 1) + j - 1]
    BY <1>1, <1>2, SubSeqProperties
  <2>2. \A j \in 1 .. n - i : (i + 1) + j - 1 = i + j
    BY <1>2
  <2>3. n - (i + 1) + 1 = n - i
    BY <1>2
  <2> HIDE DEF v
  <2> QED
    BY <1>2, <2>1, <2>2, <2>3
<1>5. /\ r \in Seq(S) /\ Len(r) = n - 1
      /\ \A j \in 1 .. n - 1 : r[j] = IF j < i THEN q[j] ELSE q[j + 1]
  <2> HIDE DEF u, v
  <2>1. /\ r \in Seq(S) /\ Len(r) = Len(u) + Len(v)
        /\ \A j \in 1 .. Len(u) + Len(v) : r[j] = IF j <= Len(u) THEN u[j] ELSE v[j - Len(u)]
    BY <1>3, <1>4, ConcatProperties
  <2> HIDE DEF r
  <2>2. Len(u) + Len(v) = n - 1
    BY <1>2, <1>3, <1>4
  <2>3. ASSUME NEW j \in 1 .. n - 1 PROVE r[j] = IF j < i THEN q[j] ELSE q[j + 1]
    <3>1. CASE j < i
      <4>1. j <= Len(u) /\ j \in 1 .. i - 1
        BY <1>2, <1>3, <3>1
      <4> QED
        BY <1>3, <2>1, <2>2, <3>1, <4>1
    <3>2. CASE ~(j < i)
      <4>1. ~(j <= Len(u)) /\ j - (i - 1) \in 1 .. n - i /\ i + (j - (i - 1)) = j + 1
        BY <1>2, <1>3, <3>2
      <4>2. r[j] = v[j - (i - 1)]
        BY <1>3, <2>1, <2>2, <4>1
      <4>3. v[j - (i - 1)] = q[i + (j - (i - 1))]
        BY <1>4, <4>1
      <4> QED
        BY <3>2, <4>1, <4>2, <4>3
    <3> QED
      BY <3>1, <3>2
  <2> QED
    BY <2>1, <2>2, <2>3
<1> HIDE DEF u, v, r
<1>6. DOMAIN r = 1 .. n - 1
  BY <1>5, LenProperties
<1> DEFINE at(j) == IF j < i THEN j ELSE j + 1
<1>7. \A j \in 1 .. n - 1 : at(j) \in 1 .. n /\ at(j) # i /\ r[j] = q[at(j)]
  BY <1>2, <1>5
<1>8. \A j \in 1 .. n - 1 : \A k \in 1 .. n - 1 : j < k => at(j) < at(k)
  BY <1>2
<1>9. \A k \in 1 .. n : k # i => \E j \in 1 .. n - 1 : at(j) = k
  <2>1. SUFFICES ASSUME NEW k \in 1 .. n, k # i PROVE \E j \in 1 .. n - 1 : at(j) = k
    OBVIOUS
  <2>2. CASE k < i
    <3>1. k \in 1 .. n - 1 /\ at(k) = k
      BY <1>2, <2>2
    <3> QED
      BY <3>1
  <2>3. CASE ~(k < i)
    <3>1. k - 1 \in 1 .. n - 1 /\ at(k - 1) = k
      BY <1>2, <2>1, <2>3
    <3> QED
      BY <3>1
  <2> QED
    BY <2>2, <2>3
<1> HIDE DEF at
<1>10. \A j \in 1 .. n : \A k \in 1 .. n : q[j] = q[k] => j = k
  <2>1. SUFFICES ASSUME NEW j \in 1 .. n, NEW k \in 1 .. n, q[j] = q[k], j # k
                 PROVE  FALSE
    OBVIOUS
  <2>2. j < k \/ k < j
    BY <1>1, <2>1
  <2> QED
    BY <1>1, <2>1, <2>2 DEF IsOrder
<1>11. r \in Seq(S \ {q[i]})
  <2>1. \A j \in 1 .. n - 1 : r[j] \in S \ {q[i]}
    BY <1>1, <1>2, <1>7, <1>10
  <2> QED
    BY <1>2, <1>5, <1>6, <2>1, LenProperties, IsASeq
<1>12. \A b \in S \ {q[i]} : Occurs(r, b)
  <2>1. SUFFICES ASSUME NEW b \in S, b # q[i] PROVE \E j \in 1 .. n - 1 : r[j] = b
    BY <1>6 DEF Occurs
  <2>2. PICK k \in 1 .. n : q[k] = b
    BY <1>1 DEF IsOrder, Occurs
  <2> QED
    BY <1>7, <1>9, <2>1, <2>2
<1>13. \A j \in 1 .. n - 1 : \A k \in 1 .. n - 1 : j < k => r[j][2] < r[k][2]
  BY <1>1, <1>7, <1>8 DEF IsOrder
<1> QED
  BY <1>6, <1>11, <1>12, <1>13 DEF IsOrder, r, u, v

LEMMA OrderTail ==
    ASSUME NEW S \in SUBSET Batches, NEW q, IsOrder(S, q), q # <<>>
    PROVE  IsOrder(S \ {Head(q)}, Tail(q)) /\ Head(q) \in S
<1>1. q \in Seq(S) /\ Len(q) \in Nat \ {0} /\ DOMAIN q = 1 .. Len(q) /\ Head(q) = q[1]
  BY LenProperties, EmptySeq DEF IsOrder
<1>2. 1 \in DOMAIN q /\ q[1] \in S
  BY <1>1, ElementOfSeq
<1>3. IsOrder(S \ {q[1]}, SubSeq(q, 1, 1 - 1) \o SubSeq(q, 1 + 1, Len(q)))
  BY <1>2, OrderRemove
<1>4. SubSeq(q, 1, 1 - 1) \o SubSeq(q, 1 + 1, Len(q)) = Tail(q)
  <2>1. SubSeq(q, 1, 1 - 1) = <<>>
    BY <1>1, SubSeqEmpty
  <2>2. SubSeq(q, 1 + 1, Len(q)) = Tail(q)
    BY <1>1, TailIsSubSeq
  <2>3. Tail(q) \in Seq(S)
    BY <1>1, HeadTailProperties
  <2> QED
    BY <2>1, <2>2, <2>3, ConcatEmptySeq
<1> QED
  BY <1>1, <1>2, <1>3, <1>4

LEMMA OrderHead ==
    ASSUME NEW S \in SUBSET Batches, NEW q, IsOrder(S, q), NEW b \in S,
           \A c \in S : c # b => b[2] < c[2]
    PROVE  q # <<>> /\ Head(q) = b
<1>1. /\ q \in Seq(S) /\ Len(q) \in Nat /\ DOMAIN q = 1 .. Len(q)
      /\ \A j \in 1 .. Len(q) : q[j] \in S /\ q[j][2] \in Nat
  BY LenProperties, ElementOfSeq, NumberOfBatch DEF IsOrder
<1>2. PICK i \in 1 .. Len(q) : q[i] = b
  BY <1>1 DEF IsOrder, Occurs
<1>3. 1 \in 1 .. Len(q) /\ i \in Nat
  BY <1>1
<1>4. i = 1
  <2>1. SUFFICES ASSUME i # 1 PROVE FALSE
    OBVIOUS
  <2>2. q[1][2] < q[i][2]
    BY <1>1, <1>3, <2>1 DEF IsOrder
  <2> QED
    BY <1>1, <1>2, <1>3, <2>2
<1> QED
  BY <1>1, <1>2, <1>3, <1>4, EmptySeq

-------------------------------------------------------------------------------
(* Where the batches of a key are in line *)

(* Numbers rise along a queue, key by key.                                   *)
Climbs(q) ==
    \A i, j \in DOMAIN q : i < j /\ KeyOf(q[i]) = KeyOf(q[j]) => q[i][2] < q[j][2]

LEMMA ClimbsTail ==
    ASSUME NEW q \in Seq(Batches), q # <<>>, Climbs(q), NEW b, b = Head(q)
    PROVE  /\ Climbs(Tail(q))
           /\ \A c \in Batches : Occurs(q, c) /\ c # b /\ KeyOf(c) = KeyOf(b) => b[2] < c[2]
<1>1. Len(q) \in Nat \ {0} /\ DOMAIN q = 1 .. Len(q) /\ Head(q) = q[1]
  BY EmptySeq, LenProperties
<1>2. /\ Tail(q) \in Seq(Batches) /\ Len(Tail(q)) = Len(q) - 1
      /\ \A i \in 1 .. Len(Tail(q)) : Tail(q)[i] = q[i + 1]
  BY HeadTailProperties
<1>3. DOMAIN Tail(q) = 1 .. Len(q) - 1
  BY <1>2, LenProperties
<1>4. Climbs(Tail(q))
  <2>1. /\ \A i \in 1 .. Len(q) - 1 : Tail(q)[i] = q[i + 1] /\ i + 1 \in 1 .. Len(q)
        /\ \A i, j \in 1 .. Len(q) - 1 : i < j => i + 1 < j + 1
    BY <1>1, <1>2
  <2> QED
    BY <1>1, <1>3, <2>1 DEF Climbs
<1>5. ASSUME NEW c \in Batches, Occurs(q, c), c # b, KeyOf(c) = KeyOf(b) PROVE b[2] < c[2]
  <2>1. PICK i \in 1 .. Len(q) : q[i] = c
    BY <1>1, <1>5 DEF Occurs
  <2>2. 1 \in 1 .. Len(q) /\ 1 < i
    BY <1>1, <1>5, <2>1
  <2> QED
    BY <1>1, <1>5, <2>1, <2>2 DEF Climbs
<1> QED
  BY <1>4, <1>5

LEMMA ClimbsLast ==
    ASSUME NEW q \in Seq(Batches), Climbs(q), NEW b \in Batches,
           \A c \in Batches : Occurs(q, c) /\ KeyOf(c) = KeyOf(b) => c[2] < b[2]
    PROVE  Climbs(Append(q, b))
<1>1. /\ Len(q) \in Nat /\ DOMAIN q = 1 .. Len(q)
      /\ \A i \in 1 .. Len(q) : q[i] \in Batches /\ Occurs(q, q[i])
  BY LenProperties, ElementOfSeq DEF Occurs
<1> DEFINE r == Append(q, b)
<1>2. /\ r \in Seq(Batches) /\ Len(r) = Len(q) + 1 /\ r[Len(q) + 1] = b
      /\ \A i \in 1 .. Len(q) : r[i] = q[i]
  BY AppendProperties
<1>3. DOMAIN r = 1 .. Len(q) + 1
  BY <1>2, LenProperties
<1> HIDE DEF r
<1>4. ASSUME NEW i \in 1 .. Len(q) + 1, NEW j \in 1 .. Len(q) + 1, i < j,
             KeyOf(r[i]) = KeyOf(r[j])
      PROVE  r[i][2] < r[j][2]
  <2>1. i \in 1 .. Len(q) /\ (j \in 1 .. Len(q) \/ j = Len(q) + 1)
    BY <1>1, <1>4
  <2>2. CASE j \in 1 .. Len(q)
    BY <1>1, <1>2, <1>4, <2>1, <2>2 DEF Climbs
  <2>3. CASE j = Len(q) + 1
    BY <1>1, <1>2, <1>4, <2>1, <2>3
  <2> QED
    BY <2>1, <2>2, <2>3
<1> QED
  BY <1>3, <1>4 DEF Climbs, r

LEMMA ClimbsFirst ==
    ASSUME NEW q \in Seq(Batches), Climbs(q), NEW b \in Batches,
           \A c \in Batches : Occurs(q, c) /\ KeyOf(c) = KeyOf(b) => b[2] < c[2]
    PROVE  Climbs(<<b>> \o q)
<1>1. /\ Len(q) \in Nat /\ DOMAIN q = 1 .. Len(q)
      /\ \A i \in 1 .. Len(q) : q[i] \in Batches /\ Occurs(q, q[i])
  BY LenProperties, ElementOfSeq DEF Occurs
<1> DEFINE r == <<b>> \o q
<1>2. <<b>> \in Seq(Batches) /\ Len(<<b>>) = 1 /\ <<b>>[1] = b
  OBVIOUS
<1>3. /\ r \in Seq(Batches) /\ Len(r) = Len(q) + 1
      /\ \A i \in 1 .. Len(q) + 1 : r[i] = IF i = 1 THEN b ELSE q[i - 1]
  <2>1. /\ r \in Seq(Batches) /\ Len(r) = 1 + Len(q)
        /\ \A i \in 1 .. 1 + Len(q) : r[i] = IF i <= 1 THEN <<b>>[i] ELSE q[i - 1]
    BY <1>2, ConcatProperties
  <2> HIDE DEF r
  <2>2. \A i \in 1 .. 1 + Len(q) : i <= 1 <=> i = 1
    BY <1>1
  <2> QED
    BY <1>1, <1>2, <2>1, <2>2
<1>4. DOMAIN r = 1 .. Len(q) + 1
  BY <1>3, LenProperties
<1> HIDE DEF r
<1>5. ASSUME NEW i \in 1 .. Len(q) + 1, NEW j \in 1 .. Len(q) + 1, i < j,
             KeyOf(r[i]) = KeyOf(r[j])
      PROVE  r[i][2] < r[j][2]
  <2>1. j # 1 /\ j - 1 \in 1 .. Len(q) /\ (i = 1 \/ (i # 1 /\ i - 1 \in 1 .. Len(q)))
    BY <1>1, <1>5
  <2>2. CASE i = 1
    BY <1>1, <1>3, <1>5, <2>1, <2>2
  <2>3. CASE i # 1 /\ i - 1 \in 1 .. Len(q)
    <3>1. i - 1 < j - 1
      BY <1>5
    <3> QED
      BY <1>1, <1>3, <1>5, <2>1, <2>3, <3>1 DEF Climbs
  <2> QED
    BY <2>1, <2>2, <2>3
<1> QED
  BY <1>4, <1>5 DEF Climbs, r

LEMMA ClimbsNothing == Climbs(<<>>)
  BY DEF Climbs

(* How far a place is from the service.  What a sender is about to file comes *)
(* behind the key queue, what it is about to send before it.                 *)
Stage(p) ==
    CASE p = "builder" -> 6
      [] p = "sealed" -> 5
      [] p = "work" -> 4
      [] p = "sendQ" -> 3
      [] p = "tasks" -> 1
      [] p = "sender" -> IF \E s \in Senders : pc[s] = "inbound" THEN 2 ELSE 0

InLine ==
    \A b, c \in Batches : \A p, q \in PlaceNames :
        KeyOf(b) = KeyOf(c) /\ Sits(p, b) /\ Sits(q, c) /\ Stage(p) < Stage(q) => b[2] < c[2]

Rows == Climbs(sendQ) /\ \A k \in Keys : Climbs(sealed[k]) /\ Climbs(work[k]) /\ Climbs(tasks[k])

LineInv == InLine /\ Rows

OneSender == \A s, t \in Senders : s = t

LEMMA Stages ==
    /\ Stage("builder") = 6 /\ Stage("sealed") = 5 /\ Stage("work") = 4 /\ Stage("sendQ") = 3
    /\ Stage("tasks") = 1 /\ Stage("sender") \in {0, 2}
    /\ \A p \in PlaceNames : Stage(p) \in 0 .. 6
    /\ \A p, q \in PlaceNames : Stage(p) = Stage(q) => p = q
    /\ \A p \in PlaceNames \ {"sender"} : Stage(p)' = Stage(p)
    /\ Stage("sender")' \in {0, 2}
<1> USE DEF Stage
<1>1. /\ Stage("builder") = 6 /\ Stage("sealed") = 5 /\ Stage("work") = 4 /\ Stage("sendQ") = 3
      /\ Stage("tasks") = 1 /\ Stage("sender") \in {0, 2} /\ Stage("sender")' \in {0, 2}
  OBVIOUS
<1>2. /\ Stage("builder")' = 6 /\ Stage("sealed")' = 5 /\ Stage("work")' = 4
      /\ Stage("sendQ")' = 3 /\ Stage("tasks")' = 1
  OBVIOUS
<1> HIDE DEF Stage
<1>3. \A p \in PlaceNames : Stage(p) \in 0 .. 6
  BY <1>1 DEF PlaceNames
<1>4. \A p, q \in PlaceNames : Stage(p) = Stage(q) => p = q
  BY <1>1 DEF PlaceNames
<1>5. \A p \in PlaceNames \ {"sender"} : Stage(p)' = Stage(p)
  BY <1>1, <1>2 DEF PlaceNames
<1> QED
  BY <1>1, <1>3, <1>4, <1>5

LEMMA SenderStage ==
    ASSUME OneSender, NEW s \in Senders
    PROVE  /\ Stage("sender") = IF pc[s] = "inbound" THEN 2 ELSE 0
           /\ Stage("sender")' = IF pc'[s] = "inbound" THEN 2 ELSE 0
  BY DEF OneSender, Stage

(* A step that brings no batch anywhere keeps the line.                      *)
LEMMA LineKept ==
    ASSUME InLine,
           \A p \in PlaceNames : \A c \in Batches : Sits(p, c)' => Sits(p, c),
           \A c \in Batches : Sits("sender", c)' => Stage("sender")' = Stage("sender")
    PROVE  InLine'
<1>1. \A p \in PlaceNames : \A c \in Batches : Sits(p, c)' => Stage(p)' = Stage(p)
  BY Stages
<1> QED
  BY <1>1 DEF InLine

LEMMA LineShifts ==
    ASSUME InLine, NEW b \in Batches, NEW from, NEW to \in PlaceNames, Shift(b, from, to),
           \A p \in PlaceNames : Sits(p, b)' => p = to,
           \A c \in Batches \ {b} : Sits("sender", c) => Stage("sender")' = Stage("sender"),
           \A p \in PlaceNames : \A c \in Batches \ {b} :
               KeyOf(c) = KeyOf(b) /\ Sits(p, c) =>
                   /\ Stage(p) < Stage(to)' => c[2] < b[2]
                   /\ Stage(to)' < Stage(p) => b[2] < c[2]
    PROVE  InLine'
<1>1. \A p \in PlaceNames : \A c \in Batches \ {b} :
          /\ Sits(p, c)' <=> Sits(p, c)
          /\ Sits(p, c) => Stage(p)' = Stage(p)
  BY Stages DEF Shift
<1>2. SUFFICES ASSUME NEW c \in Batches, NEW d \in Batches, NEW p \in PlaceNames,
                      NEW q \in PlaceNames, KeyOf(c) = KeyOf(d), Sits(p, c)', Sits(q, d)',
                      Stage(p)' < Stage(q)'
               PROVE  c[2] < d[2]
  BY DEF InLine
<1>3. CASE c # b /\ d # b
  BY <1>1, <1>2, <1>3 DEF InLine
<1>4. CASE c = b /\ d # b
  BY <1>1, <1>2, <1>4
<1>5. CASE c # b /\ d = b
  BY <1>1, <1>2, <1>5
<1>6. CASE c = b /\ d = b
  <2>1. p = to /\ q = to
    BY <1>2, <1>6
  <2>2. Stage(to)' \in Nat
    BY Stages DEF PlaceNames
  <2> QED
    BY <1>2, <2>1, <2>2
<1> QED
  BY <1>3, <1>4, <1>5, <1>6

(* The first of its key in one place goes one place on.                      *)
LEMMA LineOnward ==
    ASSUME InLine, OnePlace, NEW b \in Batches, NEW from \in PlaceNames, NEW to \in PlaceNames,
           Moves(b, from, to), from # to, Stage(to)' = Stage(from) - 1,
           \A c \in Batches \ {b} : Sits("sender", c) => Stage("sender")' = Stage("sender"),
           \A c \in Batches \ {b} : KeyOf(c) = KeyOf(b) /\ Sits(from, c) => b[2] < c[2]
    PROVE  InLine'
<1>1. \A p \in PlaceNames : Stage(p) \in 0 .. 6
  BY Stages
<1>2. ASSUME NEW p \in PlaceNames, NEW c \in Batches \ {b}, KeyOf(c) = KeyOf(b), Sits(p, c)
      PROVE  /\ Stage(p) < Stage(to)' => c[2] < b[2]
             /\ Stage(to)' < Stage(p) => b[2] < c[2]
  <2>1. Stage(p) < Stage(from) => c[2] < b[2]
    BY <1>2 DEF InLine, Moves
  <2>2. Stage(from) < Stage(p) => b[2] < c[2]
    BY <1>2 DEF InLine, Moves
  <2>3. Stage(from) = Stage(p) => b[2] < c[2]
    BY <1>2, Stages
  <2> QED
    BY <1>1, <2>1, <2>2, <2>3
<1>3. \A p \in PlaceNames : Sits(p, b)' => p = to
  BY DEF Moves, Shift, OnePlace
<1> QED
  BY <1>2, <1>3, LineShifts DEF Moves

(* The only one of its place goes one place back.                            *)
LEMMA LineBack ==
    ASSUME InLine, OnePlace, NEW b \in Batches, NEW from \in PlaceNames, NEW to \in PlaceNames,
           Moves(b, from, to), from # to, Stage(to)' = Stage(from) + 1,
           \A c \in Batches \ {b} : ~Sits(from, c),
           \A c \in Batches \ {b} : ~Sits("sender", c)
    PROVE  InLine'
<1>1. \A p \in PlaceNames : Stage(p) \in 0 .. 6
  BY Stages
<1>2. ASSUME NEW p \in PlaceNames, NEW c \in Batches \ {b}, KeyOf(c) = KeyOf(b), Sits(p, c)
      PROVE  /\ Stage(p) < Stage(to)' => c[2] < b[2]
             /\ Stage(to)' < Stage(p) => b[2] < c[2]
  <2>1. Stage(p) < Stage(from) => c[2] < b[2]
    BY <1>2 DEF InLine, Moves
  <2>2. Stage(from) < Stage(p) => b[2] < c[2]
    BY <1>2 DEF InLine, Moves
  <2>3. Stage(from) # Stage(p)
    BY <1>2, Stages
  <2> QED
    BY <1>1, <2>1, <2>2, <2>3
<1>3. \A p \in PlaceNames : Sits(p, b)' => p = to
  BY DEF Moves, Shift, OnePlace
<1> QED
  BY <1>2, <1>3, LineShifts DEF Moves

(* The only sender has at most one batch in its hand.                        *)
LEMMA OnlyHand ==
    ASSUME OneSender, NEW s \in Senders, NEW c \in Batches, Sits("sender", c)
    PROVE  task[s] = c
  BY DEF OneSender, Sits, InHand

LEMMA LineQuiet ==
    ASSUME LineInv, Still, UNCHANGED <<sealed, work, sendQ, tasks>>,
           \A c \in Batches : Sits("sender", c)' => Stage("sender")' = Stage("sender")
    PROVE  LineInv'
<1>1. InLine'
  BY LineKept DEF LineInv, Still
<1> QED
  BY <1>1 DEF LineInv, Rows

LEMMA LineAdd ==
    ASSUME Inv, PlaceInv, LineInv, NEW k \in Keys, Add(k) PROVE LineInv'
<1>1. PICK b \in Batches : /\ b = <<k, added[k] + 1>> /\ Accepted' = Accepted \cup {b}
                           /\ b \notin Accepted /\ Shift(b, "outside", "builder")
  BY PlaceAdd
<1>2. KeyOf(b) = k /\ b[2] = added[k] + 1 /\ added[k] \in Nat /\ "builder" \in PlaceNames
  BY <1>1, SendAssumption DEF KeyOf, PlaceNames, Inv, SlotInv, QueueInv, TypeInv, TypeOK
<1>3. \A p \in PlaceNames : ~Sits(p, b)
  BY <1>1 DEF PlaceInv, OnePlace, Pending
<1>4. \A p \in PlaceNames : Sits(p, b)' => p = "builder"
  BY <1>1, <1>3 DEF Shift
<1>5. Stage("sender")' = Stage("sender")
  BY DEF Add, Stage
<1>6. Stage("builder")' = 6 /\ \A p \in PlaceNames : Stage(p) \in 0 .. 6
  BY Stages DEF PlaceNames
<1>7. ASSUME NEW p \in PlaceNames, NEW c \in Batches \ {b}, KeyOf(c) = KeyOf(b), Sits(p, c)
      PROVE  /\ Stage(p) < Stage("builder")' => c[2] < b[2]
             /\ Stage("builder")' < Stage(p) => b[2] < c[2]
  <2>1. c[2] <= added[k] /\ c[2] \in Nat
    BY <1>2, <1>7, NumberOfBatch DEF PlaceInv, OnePlace, Pending, Accepted
  <2>2. c[2] < b[2]
    BY <1>2, <2>1
  <2> QED
    BY <1>6, <2>2
<1>8. InLine'
  BY <1>1, <1>2, <1>4, <1>5, <1>7, LineShifts DEF LineInv
<1> QED
  BY <1>8 DEF LineInv, Rows, Add

LEMMA LineAddFills ==
    ASSUME Inv, PlaceInv, LineInv, NEW k \in Keys, AddFills(k) PROVE LineInv'
<1>1. PICK b \in Batches : b = builder[k] /\ Moves(b, "builder", "sealed")
  BY PlaceAddFills
<1>2. TypeInv /\ {"builder", "sealed"} \subseteq PlaceNames
  BY DEF PlaceNames, Inv, SlotInv, QueueInv
<1>3. KeyOf(b) = k
  BY <1>1, NoBatch DEF PlaceInv, OwnQueues
<1>4. \A c \in Batches : KeyOf(c) = k /\ Sits("builder", c) => c = b
  BY <1>1 DEF Sits
<1>5. Stage("sender")' = Stage("sender") /\ Stage("sealed")' = Stage("builder") - 1
      /\ Stage("sealed") < Stage("builder")
  BY Stages DEF AddFills, Stage, PlaceNames
<1>6. InLine'
  BY <1>1, <1>2, <1>3, <1>4, <1>5, LineOnward DEF LineInv, PlaceInv
<1>7. /\ sealed[k] \in Seq(Batches) /\ sealed'[k] = Append(sealed[k], b)
      /\ \A j \in Keys \ {k} : sealed'[j] = sealed[j]
  BY <1>1, <1>2 DEF AddFills, TypeInv, TypeOK
<1>8. \A c \in Batches : Occurs(sealed[k], c) /\ KeyOf(c) = KeyOf(b) => c[2] < b[2]
  <2>1. \A c \in Batches : Occurs(sealed[k], c) => KeyOf(c) = k /\ Sits("sealed", c)
    BY DEF PlaceInv, OwnQueues, Filed, Sits, FiledAt
  <2> QED
    BY <1>1, <1>2, <1>5, <2>1 DEF LineInv, InLine, Moves
<1>9. Climbs(sealed'[k])
  BY <1>7, <1>8, ClimbsLast DEF LineInv, Rows
<1> QED
  BY <1>6, <1>7, <1>9 DEF LineInv, Rows, AddFills

(* What the worker takes is in line: sealed first, then the builder.         *)
LEMMA LineWorkerPass ==
    ASSUME Inv, PlaceInv, LineInv, NEW K \in SUBSET Keys, WorkerPass(K) PROVE LineInv'
<1>1. TypeInv /\ PlaceNames \subseteq {"builder", "sealed", "work", "sendQ", "tasks", "sender"}
      /\ {"builder", "sealed", "work"} \subseteq PlaceNames
  BY DEF PlaceNames, Inv, SlotInv, QueueInv
<1>2. ASSUME NEW k \in Keys
      PROVE  /\ Climbs(work'[k]) /\ sealed'[k] = <<>>
             /\ \A c \in Batches : Occurs(work'[k], c)
                    <=> Occurs(sealed[k], c) \/ (k \in K /\ c = builder[k])
             /\ builder'[k] = IF k \in K THEN None ELSE builder[k]
  <2>1. sealed[k] \in Seq(Batches) /\ Distinct(sealed[k]) /\ Climbs(sealed[k])
    BY <1>1 DEF TypeInv, TypeOK, PlaceInv, OwnQueues, Filed, LineInv, Rows
  <2>2. CASE k \in K
    <3>1. PICK b \in Batches : b = builder[k] /\ b # None
      BY <1>1, <2>2 DEF WorkerPass, TypeInv, TypeOK
    <3>2. KeyOf(b) = k /\ Sits("builder", b) /\ ~Sits("sealed", b)
      BY <1>1, <3>1 DEF PlaceInv, OwnQueues, OnePlace, Sits
    <3>3. work'[k] = Append(sealed[k], b)
      BY <2>2, <3>1 DEF WorkerPass
    <3>4. ~Occurs(sealed[k], b)
      BY <3>2 DEF Sits, FiledAt
    <3>5. \A c \in Batches : Occurs(sealed[k], c) /\ KeyOf(c) = KeyOf(b) => c[2] < b[2]
      <4>1. \A c \in Batches : Occurs(sealed[k], c) => KeyOf(c) = k /\ Sits("sealed", c)
        BY DEF PlaceInv, OwnQueues, Filed, Sits, FiledAt
      <4>2. Stage("sealed") < Stage("builder")
        BY Stages
      <4> QED
        BY <1>1, <3>2, <4>1, <4>2 DEF LineInv, InLine
    <3>6. Climbs(work'[k])
      BY <2>1, <3>3, <3>5, ClimbsLast
    <3>7. \A c : Occurs(work'[k], c) <=> Occurs(sealed[k], c) \/ c = b
      BY <2>1, <3>3, <3>4, Joined
    <3> QED
      BY <2>2, <3>1, <3>6, <3>7 DEF WorkerPass
  <2>3. CASE k \notin K
    BY <2>1, <2>3 DEF WorkerPass
  <2> QED
    BY <2>2, <2>3
<1>3. ASSUME NEW c \in Batches
      PROVE  /\ Sits("work", c)' => Sits("sealed", c) \/ (KeyOf(c) \in K /\ Sits("builder", c))
             /\ Sits("builder", c)' => Sits("builder", c) /\ KeyOf(c) \notin K
             /\ ~Sits("sealed", c)'
             /\ \A p \in {"sendQ", "tasks", "sender"} : Sits(p, c)' => Sits(p, c)
  <2>1. KeyOf(c) \in Keys /\ c # None
    BY KeyOfBatch, NoBatch
  <2>2. UNCHANGED <<sendQ, tasks, task>>
    BY DEF WorkerPass
  <2>3. Sits("work", c)' => Sits("sealed", c) \/ (KeyOf(c) \in K /\ Sits("builder", c))
    BY <1>2, <2>1 DEF Sits, FiledAt
  <2>4. Sits("builder", c)' => Sits("builder", c) /\ KeyOf(c) \notin K
    BY <1>2, <2>1 DEF Sits
  <2>5. ~Sits("sealed", c)'
    BY <1>2, <2>1, NothingOccurs DEF Sits, FiledAt
  <2> QED
    BY <2>2, <2>3, <2>4, <2>5 DEF Sits, FiledAt, InHand, Occurs
<1>4. /\ \A p \in {"sendQ", "tasks", "sender"} :
            /\ Stage(p)' = Stage(p) /\ Stage(p) < 4 /\ p \in PlaceNames
      /\ Stage("work")' = 4 /\ Stage("builder")' = 6 /\ Stage("sealed") = 5
      /\ Stage("builder") = 6
  <2>1. Stage("sender")' = Stage("sender")
    BY DEF WorkerPass, Stage
  <2> QED
    BY <2>1, Stages DEF PlaceNames
<1>5. InLine'
  <2>1. SUFFICES ASSUME NEW c \in Batches, NEW d \in Batches, NEW p \in PlaceNames,
                        NEW q \in PlaceNames, KeyOf(c) = KeyOf(d), Sits(p, c)', Sits(q, d)',
                        Stage(p)' < Stage(q)'
                 PROVE  c[2] < d[2]
    BY DEF InLine
  <2>2. p # "sealed" /\ q # "sealed"
    BY <1>3, <2>1
  <2>3. CASE p \in {"sendQ", "tasks", "sender"} /\ q \in {"sendQ", "tasks", "sender"}
    BY <1>3, <1>4, <2>1, <2>3 DEF LineInv, InLine
  <2>4. CASE p \in {"sendQ", "tasks", "sender"} /\ q \in {"work", "builder"}
    <3>1. Sits(p, c) /\ (Sits("sealed", d) \/ Sits("builder", d))
      BY <1>3, <2>1, <2>4
    <3>2. Stage(p) < Stage("sealed") /\ Stage(p) < Stage("builder")
      BY <1>4, <2>4, Stages
    <3> QED
      BY <1>1, <2>1, <3>1, <3>2 DEF LineInv, InLine
  <2>5. CASE p = "work" /\ q = "builder"
    <3>1. Sits("sealed", c) /\ Sits("builder", d)
      BY <1>3, <2>1, <2>5
    <3> QED
      BY <1>1, <1>4, <2>1, <3>1 DEF LineInv, InLine
  <2>6. CASE q \in {"sendQ", "tasks", "sender"} /\ p \in {"work", "builder"}
    <3>1. Stage(q)' < 4 /\ Stage(p)' \in {4, 6} /\ Stage(q)' \in Nat
      BY <1>4, <2>6, Stages
    <3> QED
      BY <2>1, <3>1
  <2>7. CASE p \in {"work", "builder"} /\ q \in {"work", "builder"} /\ ~(p = "work" /\ q = "builder")
    BY <1>4, <2>1, <2>7
  <2> QED
    BY <1>1, <2>2, <2>3, <2>4, <2>5, <2>6, <2>7
<1>6. Rows'
  BY <1>2, ClimbsNothing DEF LineInv, Rows, WorkerPass
<1> QED
  BY <1>5, <1>6 DEF LineInv

(* The head of a key's queue is the oldest in it.                            *)
LEMMA HeadOfKey ==
    ASSUME Inv, PlaceInv, LineInv, NEW f, NEW k \in Keys, f[k] \in Seq(Batches), f[k] # <<>>,
           Filed(f), \A j \in Keys : Climbs(f[j]), NEW g, g[k] = Tail(f[k]),
           \A j \in Keys \ {k} : g[j] = f[j], NEW b \in Batches, b = Head(f[k])
    PROVE  /\ \A j \in Keys : Climbs(g[j])
           /\ KeyOf(b) = k
           /\ \A c \in Batches \ {b} : KeyOf(c) = k /\ FiledAt(f, c) => b[2] < c[2]
<1>1. KeyOf(b) = k
  BY FiledTail
<1>2. Climbs(Tail(f[k])) /\ \A c \in Batches : Occurs(f[k], c) /\ c # b /\ KeyOf(c) = KeyOf(b)
                                                  => b[2] < c[2]
  BY ClimbsTail
<1> QED
  BY <1>1, <1>2 DEF FiledAt

LEMMA LinePush == ASSUME Inv, PlaceInv, LineInv, Push PROVE LineInv'
<1>1. PICK b \in Batches : b = Head(work[slot]) /\ Moves(b, "work", "sendQ")
  BY PlacePush
<1>2. TypeInv /\ {"work", "sendQ"} \subseteq PlaceNames
  BY DEF PlaceNames, Inv, SlotInv, QueueInv
<1>3. /\ slot \in Keys /\ work[slot] # <<>> /\ work[slot] \in Seq(Batches)
      /\ work'[slot] = Tail(work[slot]) /\ \A j \in Keys \ {slot} : work'[j] = work[j]
  BY <1>2 DEF Push, TypeInv, TypeOK, SlotOK
<1>4. Filed(work) /\ \A j \in Keys : Climbs(work[j])
  BY DEF PlaceInv, OwnQueues, LineInv, Rows
<1>5. /\ \A j \in Keys : Climbs(work'[j])
      /\ \A c \in Batches \ {b} : KeyOf(c) = KeyOf(b) /\ FiledAt(work, c) => b[2] < c[2]
  BY <1>1, <1>3, <1>4, HeadOfKey
<1>6. Stage("sender")' = Stage("sender") /\ Stage("sendQ")' = Stage("work") - 1
      /\ Stage("sendQ") < Stage("work")
  BY Stages DEF Push, Stage, PlaceNames
<1>7. InLine'
  BY <1>1, <1>2, <1>5, <1>6, LineOnward DEF LineInv, PlaceInv, Sits
<1>8. \A c \in Batches : Occurs(sendQ, c) /\ KeyOf(c) = KeyOf(b) => c[2] < b[2]
  BY <1>1, <1>2, <1>6 DEF LineInv, InLine, Moves, Sits
<1>9. sendQ \in Seq(Batches) /\ sendQ' = Append(sendQ, b) /\ Climbs(sendQ)
  BY <1>1, <1>2 DEF Push, TypeInv, TypeOK, LineInv, Rows
<1>10. Climbs(sendQ')
  BY <1>8, <1>9, ClimbsLast
<1> QED
  BY <1>5, <1>7, <1>10 DEF LineInv, Rows, Push

(* The head of what the worker has ends.                                     *)
LEMMA LineWorkEnds ==
    ASSUME Inv, PlaceInv, LineInv, NEW k \in Keys, work[k] # <<>>,
           work'[k] = Tail(work[k]), \A j \in Keys \ {k} : work'[j] = work[j],
           NEW b \in Batches, b = Head(work[k]), Ends(b, "work", "failed"),
           UNCHANGED <<sealed, sendQ, tasks, pc>>
    PROVE  LineInv'
<1>1. work[k] \in Seq(Batches) /\ Filed(work) /\ \A j \in Keys : Climbs(work[j])
  BY DEF Inv, SlotInv, QueueInv, TypeInv, TypeOK, PlaceInv, OwnQueues, LineInv, Rows
<1>2. \A j \in Keys : Climbs(work'[j])
  BY <1>1, HeadOfKey
<1>3. Stage("sender")' = Stage("sender")
  BY DEF Stage
<1>4. \A p \in PlaceNames : \A c \in Batches : Sits(p, c)' => Sits(p, c)
  BY DEF Ends, Shift, PlaceNames
<1>5. InLine'
  BY <1>3, <1>4, LineKept DEF LineInv
<1> QED
  BY <1>2, <1>5 DEF LineInv, Rows

LEMMA LineReserve == ASSUME Inv, PlaceInv, LineInv, NEW k \in Keys, Reserve(k) PROVE LineInv'
<1>1. CASE Still /\ UNCHANGED <<work, result>>
  <2>1. Stage("sender")' = Stage("sender")
    BY DEF Reserve, Stage
  <2> QED
    BY <1>1, <2>1, LineQuiet DEF Reserve
<1>2. ASSUME NEW b \in Batches, b = Head(work[k]), Ends(b, "work", "failed")
      PROVE  LineInv'
  <2>1. CASE UNCHANGED result
    <3>1. result'[b] = "failed" /\ result[b] = "none"
      BY <1>2 DEF Ends, Settle, Inv, SlotInv, QueueInv, TypeInv, TypeOK, PlaceInv, OnePlace,
         Pending, PlaceNames
    <3> QED
      BY <2>1, <3>1
  <2>2. CASE ~HasSlot(k)
    <3>1. work'[k] = Tail(work[k]) /\ \A j \in Keys \ {k} : work'[j] = work[j]
      BY <2>2 DEF Reserve, Inv, SlotInv, QueueInv, TypeInv, TypeOK
    <3>2. work[k] # <<>> /\ UNCHANGED <<sealed, sendQ, tasks, pc>>
      BY DEF Reserve
    <3> QED
      BY <1>2, <3>1, <3>2, LineWorkEnds
  <2> QED
    BY <2>1, <2>2 DEF Reserve
<1> QED
  BY <1>1, <1>2, PlaceReserve

LEMMA LinePushFails == ASSUME Inv, PlaceInv, LineInv, PushFails PROVE LineInv'
<1>1. PICK b \in Batches : b = Head(work[slot]) /\ Ends(b, "work", "failed")
  BY PlacePushFails
<1>2. slot \in Keys /\ work[slot] # <<>>
  BY DEF PushFails, Inv, SlotInv, QueueInv, TypeInv, SlotOK
<1>3. work'[slot] = Tail(work[slot]) /\ \A j \in Keys \ {slot} : work'[j] = work[j]
  BY <1>2 DEF PushFails, Inv, SlotInv, QueueInv, TypeInv, TypeOK
<1>4. UNCHANGED <<sealed, sendQ, tasks, pc>>
  BY DEF PushFails
<1> QED
  BY <1>1, <1>2, <1>3, <1>4, LineWorkEnds

LEMMA LineWorkerRests ==
    ASSUME Inv, PlaceInv, LineInv, Rollback \/ WorkerDone \/ WorkerExit PROVE LineInv'
<1>1. Still
  BY PlaceRollback, PlaceWorkerRests
<1>2. UNCHANGED tasks
  <2>1. CASE Rollback
    <3>1. TypeInv /\ slot \in Keys
      BY <2>1 DEF Rollback, Inv, SlotInv, QueueInv, TypeInv, SlotOK
    <3> QED
      BY <2>1, <3>1, FreesNothing DEF Rollback, UnusedQueue
  <2> QED
    BY <2>1 DEF WorkerDone, WorkerExit
<1>3. Stage("sender")' = Stage("sender") /\ UNCHANGED <<sealed, work, sendQ>>
  BY DEF Rollback, WorkerDone, WorkerExit, Stage
<1> QED
  BY <1>1, <1>2, <1>3, LineQuiet

LEMMA EndsChanges ==
    ASSUME Inv, PlaceInv, NEW b \in Batches, NEW p \in PlaceNames, NEW r, r # "none",
           Ends(b, p, r)
    PROVE  Pending(b) /\ result' # result
<1>1. result'[b] = r
  BY DEF Ends, Settle, Inv, SlotInv, QueueInv, TypeInv, TypeOK
<1>2. Pending(b)
  BY DEF Ends, PlaceInv, OnePlace
<1> QED
  BY <1>1, <1>2 DEF Pending

(* The batch in the sender's hand ends.                                      *)
LEMMA LineHandEnds ==
    ASSUME OneSender, LineInv, NEW s \in Senders, NEW b \in Batches, b = task[s],
           NEW r, Ends(b, "sender", r), UNCHANGED <<sealed, work, sendQ, tasks>>
    PROVE  LineInv'
<1>1. \A p \in PlaceNames : \A c \in Batches : Sits(p, c)' => Sits(p, c)
  BY DEF Ends, Shift, PlaceNames
<1>2. \A c \in Batches : ~Sits("sender", c)'
  BY OnlyHand DEF Ends, Shift, PlaceNames
<1>3. InLine'
  BY <1>1, <1>2, LineKept DEF LineInv
<1> QED
  BY <1>3 DEF LineInv, Rows

LEMMA LineEnd ==
    ASSUME OneSender, Inv, PlaceInv, LineInv, NEW s \in Senders, pc[s] \in HasTask,
           NEW r \in Results \ {"none"}, End(s, r),
           UNCHANGED <<added, builder, sealed, work, sendQ, tasks, key, worker>>
    PROVE  LineInv'
<1>1. PICK b \in Batches : b = task[s] /\ Ends(b, "sender", r)
  BY EndPlaces
<1> QED
  BY <1>1, LineHandEnds

(* What goes back to its key queue is older than what waits there.           *)
LEMMA LinePutBack ==
    ASSUME OneSender, Inv, PlaceInv, LineInv, NEW s \in Senders, pc[s] \in HasTask,
           pc[s] \in Holding, PutBack(s),
           UNCHANGED <<added, builder, sealed, work, sendQ, worker, result>>
    PROVE  LineInv'
<1>1. PICK b \in Batches : b = task[s] /\ KeyOf(b) = key[s] /\ Moves(b, "sender", "tasks")
  BY PutBackPlaces
<1>2. TypeInv /\ {"sender", "tasks"} \subseteq PlaceNames
  BY DEF PlaceNames, Inv, SlotInv, QueueInv
<1>3. PICK k \in Keys : k = key[s] /\ KeyOf(b) = k
  BY <1>1, KeyOfBatch
<1>4. pc[s] # "inbound"
  BY DEF Holding
<1>5. Stage("sender") = 0 /\ Stage("tasks") = 1 /\ Stage("tasks")' = Stage("sender") + 1
  BY <1>4, SenderStage, Stages DEF PlaceNames
<1>6. \A c \in Batches \ {b} : ~Sits("sender", c)
  BY <1>1, OnlyHand
<1>7. InLine'
  BY <1>1, <1>2, <1>5, <1>6, LineBack DEF LineInv, PlaceInv
<1>8. tasks[k] \in Seq(Batches) /\ tasks'[k] = <<b>> \o tasks[k]
      /\ \A j \in Keys \ {k} : tasks'[j] = tasks[j]
  BY <1>1, <1>2, <1>3 DEF PutBack, InFront, TypeInv, TypeOK
<1>9. \A c \in Batches : Occurs(tasks[k], c) /\ KeyOf(c) = KeyOf(b) => b[2] < c[2]
  <2>1. \A c \in Batches : Occurs(tasks[k], c) => KeyOf(c) = k /\ Sits("tasks", c)
    BY DEF PlaceInv, OwnQueues, Filed, Sits, FiledAt
  <2> QED
    BY <1>1, <1>2, <1>5, <2>1 DEF LineInv, InLine, Moves
<1>10. Climbs(tasks'[k])
  BY <1>8, <1>9, ClimbsFirst DEF LineInv, Rows
<1> QED
  BY <1>7, <1>8, <1>10 DEF LineInv, Rows

LEMMA LineScanReady ==
    ASSUME OneSender, Inv, PlaceInv, LineInv, NEW s \in Senders, NEW k \in Keys, ScanReady(s, k)
    PROVE  LineInv'
<1>1. PICK b \in Batches : /\ b = Head(tasks[k])
                           /\ \/ Moves(b, "tasks", "sender")
                              \/ \E r \in {"kept", "closed", "failed"} : Ends(b, "tasks", r)
  BY PlaceScanReady
<1>2. TypeInv /\ ListedFull /\ {"sender", "tasks"} \subseteq PlaceNames
  BY QueueInvScheduled DEF PlaceNames, Inv, SlotInv, QueueInv
<1>3. tasks[k] \in Seq(Batches) /\ tasks[k] # <<>>
  BY <1>2 DEF ScanReady, ReadyAfterPromotion, ListedFull, TypeInv, TypeOK
<1>4. tasks'[k] = Tail(tasks[k]) /\ \A j \in Keys \ {k} : tasks'[j] = tasks[j]
  BY <1>2 DEF ScanReady, TypeInv, TypeOK
<1>5. Filed(tasks) /\ \A j \in Keys : Climbs(tasks[j])
  BY DEF PlaceInv, OwnQueues, LineInv, Rows
<1>6. /\ \A j \in Keys : Climbs(tasks'[j])
      /\ \A c \in Batches \ {b} : KeyOf(c) = KeyOf(b) /\ FiledAt(tasks, c) => b[2] < c[2]
  BY <1>1, <1>3, <1>4, <1>5, HeadOfKey
<1>7. task[s] = None
  BY DEF ScanReady, PlaceInv, OneHand, HasTask
<1>8. \A c \in Batches : ~Sits("sender", c)
  BY <1>7, OnlyHand, NoBatch
<1>9. CASE Moves(b, "tasks", "sender")
  <2>1. pc'[s] # "inbound"
    BY <1>2 DEF ScanReady, TypeInv, TypeOK
  <2>2. Stage("sender")' = Stage("tasks") - 1
    BY <2>1, SenderStage, Stages
  <2> QED
    BY <1>2, <1>6, <1>8, <1>9, <2>2, LineOnward DEF LineInv, PlaceInv, Sits, ScanReady, Rows
<1>10. ASSUME NEW r, Ends(b, "tasks", r) PROVE LineInv'
  <2>1. \A p \in PlaceNames : \A c \in Batches : Sits(p, c)' => Sits(p, c)
    BY <1>10 DEF Ends, Shift, PlaceNames
  <2>2. \A c \in Batches : ~Sits("sender", c)'
    BY <1>2, <1>8, <2>1
  <2>3. InLine'
    BY <2>1, <2>2, LineKept DEF LineInv
  <2> QED
    BY <1>6, <2>3 DEF LineInv, Rows, ScanReady
<1> QED
  BY <1>1, <1>9, <1>10

LEMMA LineTake ==
    ASSUME OneSender, Inv, PlaceInv, LineInv, NEW s \in Senders, Take(s) PROVE LineInv'
<1>1. PICK b \in Batches : b = Head(sendQ) /\ Moves(b, "sendQ", "sender")
  BY PlaceTake
<1>2. TypeInv /\ {"sender", "sendQ"} \subseteq PlaceNames
  BY DEF PlaceNames, Inv, SlotInv, QueueInv
<1>3. sendQ \in Seq(Batches) /\ sendQ # <<>> /\ sendQ' = Tail(sendQ) /\ pc'[s] = "inbound"
  BY <1>2 DEF Take, TypeInv, TypeOK
<1>4. /\ Climbs(sendQ')
      /\ \A c \in Batches : Occurs(sendQ, c) /\ c # b /\ KeyOf(c) = KeyOf(b) => b[2] < c[2]
  BY <1>1, <1>3, ClimbsTail DEF LineInv, Rows
<1>5. task[s] = None
  BY DEF Take, PlaceInv, OneHand, HasTask
<1>6. \A c \in Batches : ~Sits("sender", c)
  BY <1>5, OnlyHand, NoBatch
<1>7. Stage("sender")' = Stage("sendQ") - 1
  BY <1>3, SenderStage, Stages
<1>8. InLine'
  BY <1>1, <1>2, <1>4, <1>6, <1>7, LineOnward DEF LineInv, PlaceInv, Sits
<1> QED
  BY <1>4, <1>8 DEF LineInv, Rows, Take

LEMMA LineInbound ==
    ASSUME OneSender, Inv, PlaceInv, LineInv, NEW s \in Senders, Inbound(s) PROVE LineInv'
<1>1. PICK b \in Batches : /\ b = task[s]
                           /\ Moves(b, "sender", "tasks") \/ Ends(b, "sender", "failed")
  BY PlaceInbound
<1>2. TypeInv /\ {"sender", "tasks"} \subseteq PlaceNames
  BY DEF PlaceNames, Inv, SlotInv, QueueInv
<1>3. PICK k \in Keys : k = KeyOf(b)
  BY KeyOfBatch
<1>4. CASE HasSlot(k)
  <2>1. UNCHANGED result /\ tasks'[k] = Append(tasks[k], b)
        /\ \A j \in Keys \ {k} : tasks'[j] = tasks[j]
    BY <1>1, <1>2, <1>3, <1>4 DEF Inbound, TypeInv, TypeOK
  <2>2. Moves(b, "sender", "tasks")
    BY <1>1, <1>2, <2>1, EndsChanges
  <2>3. Stage("sender") = 2 /\ Stage("tasks") = 1 /\ Stage("tasks")' = Stage("sender") - 1
    BY SenderStage, Stages DEF Inbound, PlaceNames
  <2>4. \A c \in Batches \ {b} : ~Sits("sender", c)
    BY <1>1, OnlyHand
  <2>5. InLine'
    BY <1>2, <2>2, <2>3, <2>4, LineOnward DEF LineInv, PlaceInv
  <2>6. \A c \in Batches : Occurs(tasks[k], c) /\ KeyOf(c) = KeyOf(b) => c[2] < b[2]
    <3>1. \A c \in Batches : Occurs(tasks[k], c) => KeyOf(c) = k /\ Sits("tasks", c)
      BY DEF PlaceInv, OwnQueues, Filed, Sits, FiledAt
    <3> QED
      BY <1>2, <1>3, <2>2, <2>3, <3>1 DEF LineInv, InLine, Moves
  <2>7. tasks[k] \in Seq(Batches)
    BY <1>2 DEF TypeInv, TypeOK
  <2>8. Climbs(tasks'[k])
    BY <2>1, <2>6, <2>7, ClimbsLast DEF LineInv, Rows
  <2> QED
    BY <2>1, <2>5, <2>8 DEF LineInv, Rows, Inbound
<1>5. CASE ~HasSlot(k)
  <2>1. Settle(b, "failed") /\ UNCHANGED <<sealed, work, sendQ, tasks>>
    BY <1>1, <1>3, <1>5 DEF Inbound
  <2>2. Ends(b, "sender", "failed")
    <3>1. result'[b] = "failed"
      BY <1>2, <2>1 DEF Settle, TypeInv, TypeOK
    <3>2. Moves(b, "sender", "tasks") => result'[b] = "none"
      BY <1>2 DEF Moves, PlaceInv, OnePlace, Pending
    <3> QED
      BY <1>1, <3>1, <3>2
  <2> QED
    BY <1>1, <2>1, <2>2, LineHandEnds
<1> QED
  BY <1>4, <1>5

LEMMA LineSender ==
    ASSUME OneSender, Inv, PlaceInv, LineInv, NEW s \in Senders, Sender(s) PROVE LineInv'
<1>1. TypeInv /\ {"failed", "kept", "closed", "ok"} \subseteq Results \ {"none"}
  BY DEF Inv, SlotInv, QueueInv, Results
<1>2. ASSUME Still, UNCHANGED <<sealed, work, sendQ, tasks>>, pc[s] # "inbound",
             pc'[s] # "inbound"
      PROVE  LineInv'
  <2>1. Stage("sender")' = Stage("sender")
    BY <1>2, SenderStage
  <2> QED
    BY <1>2, <2>1, LineQuiet
<1>3. CASE \E k \in Keys : ScanReady(s, k)
  BY <1>3, LineScanReady
<1>4. CASE ScanNothing(s) \/ TakeNothing(s) \/ RelockLeaving(s) \/ Leave(s)
  <2>1. /\ UNCHANGED <<added, builder, sealed, work, sendQ, tasks, task, result, worker, key>>
        /\ pc[s] \notin HasTask /\ \A t \in Senders \ {s} : pc'[t] = pc[t]
        /\ pc[s] # "inbound" /\ pc'[s] # "inbound"
    BY <1>1, <1>4 DEF ScanNothing, TakeNothing, RelockLeaving, Leave, HasTask, TypeInv, TypeOK
  <2>2. Still
    BY <2>1, SenderMoves
  <2> QED
    BY <1>2, <2>1, <2>2
<1>5. CASE Take(s) \/ Inbound(s)
  BY <1>5, LineTake, LineInbound
<1>6. ASSUME NEW K \in SUBSET Keys, Again(s, K) PROVE LineInv'
  <2>1. UNCHANGED <<tasks, builder>>
    BY <1>1, <1>6, FreesNothing DEF Again, Cleanable
  <2>2. Still
    BY <1>6, PlaceAgain
  <2>3. UNCHANGED <<sealed, work, sendQ>> /\ pc[s] # "inbound" /\ pc'[s] # "inbound"
    BY <1>1, <1>6 DEF Again, TypeInv, TypeOK
  <2> QED
    BY <1>2, <2>1, <2>2, <2>3
<1>7. CASE PassGate(s) \/ EnterBreaker(s) \/ Request(s) \/ Retry(s) \/ Refused(s)
  <2>1. /\ UNCHANGED <<added, builder, sealed, work, sendQ, tasks, task, result, worker, key>>
        /\ pc'[s] \in HasTask /\ \A t \in Senders \ {s} : pc'[t] = pc[t]
        /\ pc[s] # "inbound" /\ pc'[s] # "inbound"
    BY <1>1, <1>7 DEF PassGate, EnterBreaker, Request, Retry, Refused, HasTask,
       TypeInv, TypeOK
  <2>2. Still
    BY <2>1, SenderMoves
  <2> QED
    BY <1>2, <2>1, <2>2
<1>8. CASE Defer(s)
  <2>1. /\ pc[s] \in HasTask /\ pc[s] \in Holding /\ PutBack(s)
        /\ UNCHANGED <<added, builder, sealed, work, sendQ, worker, result>>
    BY <1>8 DEF Defer, HasTask, Holding
  <2> QED
    BY <2>1, LinePutBack
<1>9. CASE EndsTooOld(s) \/ Delivered(s) \/ Rejected(s)
  <2>1. PICK r \in Results \ {"none"} : End(s, r)
    BY <1>1, <1>9 DEF EndsTooOld, Delivered, Rejected
  <2>2. /\ pc[s] \in HasTask
        /\ UNCHANGED <<added, builder, sealed, work, sendQ, tasks, key, worker>>
    BY <1>9 DEF EndsTooOld, Delivered, Rejected, HasTask
  <2> QED
    BY <2>1, <2>2, LineEnd
<1>10. CASE TransientFailure(s)
  <2>1. pc[s] \in HasTask /\ pc[s] \in Holding
        /\ UNCHANGED <<added, builder, sealed, work, sendQ, worker>>
    BY <1>10 DEF TransientFailure, HasTask, Holding
  <2>2. CASE PutBack(s) /\ LearnsNothing(task[s])
    BY <2>1, <2>2, LinePutBack DEF LearnsNothing
  <2>3. ASSUME NEW r \in Results \ {"none"}, End(s, r),
               UNCHANGED <<tasks, inflight, ready, delayed, due, idle, key>>
        PROVE  LineInv'
    BY <2>1, <2>3, LineEnd
  <2> QED
    BY <1>1, <1>10, <2>2, <2>3 DEF TransientFailure
<1>11. CASE AuthWaitEnds(s)
  <2>1. UNCHANGED <<added, builder, sealed, work, sendQ, tasks, key, worker>>
    BY <1>11 DEF AuthWaitEnds
  <2>2. CASE Open
    <3>1. /\ pc'[s] \in HasTask /\ \A t \in Senders \ {s} : pc'[t] = pc[t]
          /\ pc[s] # "inbound" /\ pc'[s] # "inbound" /\ UNCHANGED <<task, result>>
      BY <1>1, <1>11, <2>2 DEF AuthWaitEnds, HasTask, TypeInv, TypeOK
    <3>2. Still
      BY <2>1, <3>1, SenderMoves
    <3> QED
      BY <1>2, <2>1, <3>1, <3>2
  <2>3. CASE ~Open
    <3>1. End(s, "kept") /\ pc[s] \in HasTask
      BY <1>11, <2>3 DEF AuthWaitEnds, HasTask
    <3> QED
      BY <1>1, <2>1, <3>1, LineEnd
  <2> QED
    BY <2>2, <2>3
<1>12. CASE Finish(s)
  <2>1. key[s] \in Keys
    BY <1>1, <1>12 DEF Finish, TypeInv, TypeOK, HandsOK, Holding
  <2>2. UNCHANGED <<tasks, builder>>
    BY <1>1, <1>12, <2>1, FreesNothing DEF Finish, HasBuilder
  <2>3. Still
    BY <1>12, PlaceFinish
  <2>4. UNCHANGED <<sealed, work, sendQ>> /\ pc[s] # "inbound" /\ pc'[s] # "inbound"
    BY <1>1, <1>12 DEF Finish, TypeInv, TypeOK
  <2> QED
    BY <1>2, <2>2, <2>3, <2>4
<1> QED
  BY <1>3, <1>4, <1>5, <1>6, <1>7, <1>8, <1>9, <1>10, <1>11, <1>12 DEF Sender, Answer

LEMMA LineStep == ASSUME OneSender, Inv, PlaceInv, LineInv, [Next]_vars PROVE LineInv'
<1>1. CASE Work
  BY <1>1, LineWorkerPass, LineReserve, LinePush, LinePushFails, LineWorkerRests
  DEF Work, WorkerStep
<1>2. CASE \E s \in Senders : Sender(s)
  BY <1>2, LineSender
<1>3. CASE \E k \in Keys : Add(k) \/ AddFills(k)
  BY <1>3, LineAdd, LineAddFills
<1>4. CASE \/ \E k \in Keys : RetryDue(k)
           \/ \E b \in Batches : Expire(b)
           \/ NetworkRecovered \/ UpdateCredentials
           \/ CloseBegin \/ CloseDrained \/ Destroy \/ StopSendQueue \/ UNCHANGED vars
  <2>1. UNCHANGED <<added, builder, sealed, work, sendQ, tasks, task, result, worker, pc, key>>
    BY <1>4 DEF RetryDue, Expire, NetworkRecovered, UpdateCredentials, CloseBegin, CloseDrained,
       Destroy, StopSendQueue, vars
  <2>2. Still
    BY <2>1, QuietStep DEF PlaceInv, OneHand, PassDone
  <2>3. Stage("sender")' = Stage("sender")
    BY <2>1 DEF Stage
  <2> QED
    BY <2>1, <2>2, <2>3, LineQuiet
<1> QED
  BY <1>1, <1>2, <1>3, <1>4 DEF Next, Environment

LEMMA LineInit == ASSUME Init PROVE LineInv
<1>1. Rows
  BY ClimbsNothing DEF Init, Rows
<1>2. \A b \in Batches : \A p \in PlaceNames : ~Sits(p, b)
  BY NothingOccurs, KeyOfBatch, NoBatch DEF Init, Sits, FiledAt, InHand
<1> QED
  BY <1>1, <1>2 DEF LineInv, InLine

-------------------------------------------------------------------------------
(* The pipeline implements Delivery *)

(* What a step does to the batches that have not ended.                      *)
Foremost(b) == \A c \in Unended(KeyOf(b)) : c # b => b[2] < c[2]

Joins(k, b) ==
    /\ b = <<k, added[k] + 1>> /\ b \notin Accepted /\ Accepted' = Accepted \cup {b}
    /\ UNCHANGED result

Finishes(b, r) ==
    Pending(b) /\ UNCHANGED added /\ Settle(b, r) /\ (r = "ok" => Foremost(b))

Effect ==
    \/ UNCHANGED <<added, result>>
    \/ \E k \in Keys : \E b \in Batches : Joins(k, b)
    \/ \E b \in Batches : \E r \in Results \ {"none"} : Finishes(b, r)

LEMMA EndsFinishes ==
    ASSUME PlaceInv, NEW b \in Batches, NEW p \in PlaceNames,
           NEW r \in Results \ {"none"}, r # "ok", Ends(b, p, r)
    PROVE  Effect
<1>1. Finishes(b, r)
  BY DEF Ends, Finishes, PlaceInv, OnePlace
<1> QED
  BY <1>1 DEF Effect

(* What is delivered was in the hand of the only sender, and everything else  *)
(* of its key is behind it.                                                  *)
LEMMA DeliveredFinishes ==
    ASSUME OneSender, Inv, PlaceInv, LineInv, NEW s \in Senders, Delivered(s) PROVE Effect
<1>1. pc[s] = "sent" /\ End(s, "ok") /\ pc[s] \in HasTask
      /\ UNCHANGED <<added, builder, sealed, work, sendQ, tasks, key, worker>>
  BY DEF Delivered, HasTask
<1>2. "ok" \in Results \ {"none"} /\ "sender" \in PlaceNames
  BY DEF Results, PlaceNames
<1>3. PICK b \in Batches : b = task[s] /\ Ends(b, "sender", "ok")
  BY <1>1, <1>2, EndPlaces
<1>4. Foremost(b)
  <2>1. SUFFICES ASSUME NEW c \in Batches, KeyOf(c) = KeyOf(b), Pending(c), c # b
                 PROVE  b[2] < c[2]
    BY DEF Foremost, Unended, Accepted, Pending
  <2>2. PICK p \in PlaceNames : Sits(p, c)
    BY <2>1 DEF PlaceInv, OnePlace
  <2>3. p # "sender"
    BY <1>3, <2>1, <2>2, OnlyHand
  <2>4. Stage("sender") = 0 /\ Stage(p) \in 0 .. 6 /\ Stage(p) # Stage("sender")
    BY <1>1, <1>2, <2>3, SenderStage, Stages
  <2>5. Stage("sender") < Stage(p)
    BY <2>4
  <2> QED
    BY <1>2, <1>3, <2>1, <2>2, <2>5 DEF LineInv, InLine, Ends
<1>5. Finishes(b, "ok")
  BY <1>2, <1>3, <1>4 DEF Ends, Finishes, PlaceInv, OnePlace
<1> QED
  BY <1>2, <1>5 DEF Effect

LEMMA EffectStep == ASSUME OneSender, Inv, PlaceInv, LineInv, [Next]_vars PROVE Effect
<1>1. {"failed", "kept", "closed"} \subseteq Results \ {"none"}
      /\ {"sender", "tasks", "work"} \subseteq PlaceNames
  BY DEF Results, PlaceNames
<1>2. ASSUME UNCHANGED <<added, result>> PROVE Effect
  BY <1>2 DEF Effect
<1>3. CASE Work
  <2>1. ASSUME NEW k \in Keys, Reserve(k) PROVE Effect
    <3>1. CASE UNCHANGED result
      BY <1>2, <2>1, <3>1 DEF Reserve
    <3>2. CASE result' # result
      BY <1>1, <2>1, <3>2, PlaceReserve, EndsFinishes
    <3> QED
      BY <3>1, <3>2
  <2>2. CASE PushFails
    BY <1>1, <2>2, PlacePushFails, EndsFinishes
  <2>3. CASE (\E K \in SUBSET Keys : WorkerPass(K)) \/ Push \/ Rollback \/ WorkerDone \/ WorkerExit
    BY <1>2, <2>3 DEF WorkerPass, Push, Rollback, WorkerDone, WorkerExit
  <2> QED
    BY <1>3, <2>1, <2>2, <2>3 DEF Work, WorkerStep
<1>4. ASSUME NEW s \in Senders, Sender(s) PROVE Effect
  <2>1. ASSUME NEW r \in {"failed", "kept", "closed"}, pc[s] \in HasTask, End(s, r),
               UNCHANGED <<added, builder, sealed, work, sendQ, tasks, key, worker>>
        PROVE  Effect
    BY <1>1, <2>1, EndPlaces, EndsFinishes
  <2>2. ASSUME NEW k \in Keys, ScanReady(s, k) PROVE Effect
    <3>1. CASE UNCHANGED result
      BY <1>2, <2>2, <3>1 DEF ScanReady
    <3>2. CASE result' # result
      BY <1>1, <2>2, <3>2, PlaceScanReady, EndsFinishes DEF Moves
    <3> QED
      BY <3>1, <3>2
  <2>3. CASE Inbound(s)
    <3>1. CASE UNCHANGED result
      BY <1>2, <2>3, <3>1 DEF Inbound
    <3>2. CASE result' # result
      BY <1>1, <2>3, <3>2, PlaceInbound, EndsFinishes DEF Moves
    <3> QED
      BY <3>1, <3>2
  <2>4. CASE Delivered(s)
    BY <2>4, DeliveredFinishes
  <2>5. CASE EndsTooOld(s) \/ Rejected(s)
    <3>1. /\ pc[s] \in HasTask /\ End(s, "failed")
          /\ UNCHANGED <<added, builder, sealed, work, sendQ, tasks, key, worker>>
      BY <2>5 DEF EndsTooOld, Rejected, HasTask
    <3> QED
      BY <2>1, <3>1
  <2>6. CASE TransientFailure(s)
    <3>1. pc[s] \in HasTask /\ UNCHANGED <<added, builder, sealed, work, sendQ, worker>>
      BY <2>6 DEF TransientFailure, HasTask
    <3>2. CASE PutBack(s) /\ LearnsNothing(task[s])
      BY <1>2, <3>1, <3>2 DEF LearnsNothing
    <3>3. ASSUME NEW r \in {"failed", "kept", "closed"}, End(s, r),
                 UNCHANGED <<tasks, inflight, ready, delayed, due, idle, key>>
          PROVE  Effect
      BY <2>1, <3>1, <3>3
    <3> QED
      BY <2>6, <3>2, <3>3 DEF TransientFailure
  <2>7. CASE AuthWaitEnds(s)
    <3>1. pc[s] \in HasTask /\ UNCHANGED <<added, builder, sealed, work, sendQ, tasks, key, worker>>
      BY <2>7 DEF AuthWaitEnds, HasTask
    <3>2. (UNCHANGED result) \/ End(s, "kept")
      BY <2>7 DEF AuthWaitEnds
    <3> QED
      BY <1>2, <2>1, <3>1, <3>2
  <2>8. CASE \/ ScanNothing(s) \/ Take(s) \/ TakeNothing(s) \/ RelockLeaving(s)
             \/ (\E K \in SUBSET Keys : Again(s, K)) \/ Leave(s) \/ Defer(s) \/ Finish(s)
             \/ PassGate(s) \/ EnterBreaker(s) \/ Request(s) \/ Retry(s) \/ Refused(s)
    BY <1>2, <2>8 DEF ScanNothing, Take, TakeNothing, RelockLeaving, Again, Leave, Defer, Finish,
       PassGate, EnterBreaker, Request, Retry, Refused
  <2> QED
    BY <1>4, <2>2, <2>3, <2>4, <2>5, <2>6, <2>7, <2>8 DEF Sender, Answer
<1>5. CASE Environment
  <2>1. ASSUME NEW k \in Keys, Add(k) PROVE Effect
    <3>1. \E b \in Batches : Joins(k, b)
      BY <2>1, PlaceAdd DEF Joins, Add
    <3> QED
      BY <3>1 DEF Effect
  <2>2. CASE ~\E k \in Keys : Add(k)
    BY <1>2, <1>5, <2>2 DEF Environment, AddFills, RetryDue, Expire, NetworkRecovered,
       UpdateCredentials, CloseBegin, CloseDrained, Destroy, StopSendQueue
  <2> QED
    BY <2>1, <2>2
<1>6. CASE UNCHANGED vars
  BY <1>2, <1>6 DEF vars
<1> QED
  BY <1>3, <1>4, <1>5, <1>6 DEF Next

(* The line of each key has what has not ended, in order.                    *)
Ordered == \A k \in Keys : IsOrder(Unended(k), Line[k])

LEMMA LineAt == \A k \in Keys : Line[k] = InOrder(Unended(k)) /\ Line'[k] = InOrder(Unended(k)')
  BY DEF Line

LEMMA UnendedBatches == \A k \in Keys : Unended(k) \in SUBSET Batches
  BY DEF Unended, Accepted

LEMMA LineChanges ==
    ASSUME NEW k \in Keys, NEW S \in SUBSET Batches, Unended(k)' = S, NEW q, IsOrder(S, q),
           Ordered, \A j \in Keys \ {k} : Unended(j)' = Unended(j)
    PROVE  Line' = [Line EXCEPT ![k] = q] /\ Ordered'
<1>1. Line'[k] = q
  BY LineAt, OrderIs
<1>2. \A j \in Keys \ {k} : Line'[j] = Line[j]
  BY LineAt
<1>3. Line' = [j \in Keys |-> Line'[j]] /\ Line = [j \in Keys |-> Line[j]]
  BY DEF Line
<1>4. Line' = [Line EXCEPT ![k] = q]
  BY <1>1, <1>2, <1>3
<1>5. Ordered'
  BY <1>1, <1>2 DEF Ordered
<1> QED
  BY <1>4, <1>5

LEMMA RefinedStill ==
    ASSUME Ordered, UNCHANGED <<added, result>>
    PROVE  Ordered' /\ UNCHANGED <<Line, result>>
<1>1. \A k \in Keys : Unended(k)' = Unended(k)
  BY DEF Unended, Accepted
<1>2. Line' = Line
  BY <1>1 DEF Line
<1> QED
  BY <1>1, <1>2 DEF Ordered

LEMMA RefinedJoin ==
    ASSUME TypeInv, PlaceInv, Ordered, NEW k \in Keys, NEW b \in Batches, Joins(k, b)
    PROVE  Ordered' /\ D!Accept(k, b)
<1>1. KeyOf(b) = k /\ b[2] = added[k] + 1 /\ added[k] \in Nat /\ result[b] = "none"
  BY SendAssumption DEF Joins, KeyOf, TypeInv, TypeOK, PlaceInv, NotBefore
<1>2. Unended(k)' = Unended(k) \cup {b}
  BY <1>1 DEF Joins, Unended
<1>3. \A j \in Keys \ {k} : Unended(j)' = Unended(j)
  BY <1>1 DEF Joins, Unended
<1>4. \A c \in Unended(k) : c[2] < b[2]
  <2>1. \A c \in Unended(k) : c \in Batches /\ c[2] <= added[k]
    BY DEF Unended, Accepted
  <2> QED
    BY <1>1, <2>1, NumberOfBatch
<1>5. PICK S \in SUBSET Batches : S = Unended(k) /\ IsOrder(S, Line[k])
  BY UnendedBatches DEF Ordered
<1>6. IsOrder(S \cup {b}, Append(Line[k], b))
  BY <1>4, <1>5, OrderAppend
<1>7. Line' = [Line EXCEPT ![k] = Append(Line[k], b)] /\ Ordered'
  <2>1. S \cup {b} \in SUBSET Batches /\ Unended(k)' = S \cup {b}
    BY <1>2, <1>5
  <2> QED
    BY <1>3, <1>6, <2>1, LineChanges
<1>8. b \notin D!Waiting
  <2>1. ASSUME NEW j \in Keys, NEW i \in DOMAIN Line[j], Line[j][i] = b PROVE FALSE
    <3>1. Line[j] \in Seq(Unended(j))
      BY DEF Ordered, IsOrder
    <3>2. Line[j][i] \in Unended(j)
      BY <3>1, LenProperties, ElementOfSeq
    <3> QED
      BY <2>1, <3>2 DEF Joins, Unended
  <2> QED
    BY <2>1 DEF D!Waiting
<1> QED
  BY <1>1, <1>7, <1>8 DEF D!Accept, Joins

LEMMA RefinedFinish ==
    ASSUME TypeInv, Ordered, NEW b \in Batches, NEW r \in Results \ {"none"}, Finishes(b, r)
    PROVE  Ordered' /\ D!Next
<1>1. PICK k \in Keys : k = KeyOf(b)
  BY KeyOfBatch
<1>2. result' = [result EXCEPT ![b] = r] /\ result'[b] = r
      /\ \A c \in Batches \ {b} : result'[c] = result[c]
  BY DEF Finishes, Settle, TypeInv, TypeOK
<1>3. Accepted' = Accepted /\ b \in Accepted /\ result[b] = "none"
  BY DEF Finishes, Pending, Accepted
<1>4. Unended(k)' = Unended(k) \ {b} /\ b \in Unended(k)
  BY <1>1, <1>2, <1>3 DEF Unended, Accepted
<1>5. \A j \in Keys \ {k} : Unended(j)' = Unended(j)
  BY <1>1, <1>2, <1>3 DEF Unended, Accepted
<1>6. PICK S \in SUBSET Batches : S = Unended(k) /\ IsOrder(S, Line[k]) /\ b \in S
  BY <1>4, UnendedBatches DEF Ordered
<1>7. S \ {b} \in SUBSET Batches /\ Unended(k)' = S \ {b}
  BY <1>4, <1>6
<1>8. CASE r = "ok"
  <2>1. \A c \in S : c # b => b[2] < c[2]
    BY <1>1, <1>6, <1>8 DEF Finishes, Foremost
  <2>2. Line[k] # <<>> /\ Head(Line[k]) = b
    BY <1>6, <2>1, OrderHead
  <2>3. IsOrder(S \ {b}, Tail(Line[k]))
    BY <1>6, <2>2, OrderTail
  <2>4. Line' = [Line EXCEPT ![k] = Tail(Line[k])] /\ Ordered'
    BY <1>5, <1>7, <2>3, LineChanges
  <2>5. D!Deliver(k)
    BY <1>2, <1>8, <2>2, <2>4 DEF D!Deliver
  <2> QED
    BY <2>4, <2>5 DEF D!Next
<1>9. CASE r # "ok"
  <2>1. PICK i \in DOMAIN Line[k] : Line[k][i] = b
    BY <1>6 DEF IsOrder, Occurs
  <2> DEFINE q == SubSeq(Line[k], 1, i - 1) \o SubSeq(Line[k], i + 1, Len(Line[k]))
  <2>2. IsOrder(S \ {b}, q)
    BY <1>6, <2>1, OrderRemove
  <2>3. Line' = [Line EXCEPT ![k] = q] /\ Ordered'
    <3> HIDE DEF q
    <3> QED
      BY <1>5, <1>7, <2>2, LineChanges
  <2>4. r \in Results \ {"none", "ok"}
    BY <1>9
  <2>5. D!GiveUp(k, i)
    BY <1>2, <2>1, <2>3, <2>4 DEF D!GiveUp
  <2> QED
    BY <2>1, <2>3, <2>5 DEF D!Next
<1> QED
  BY <1>8, <1>9

LEMMA RefinedStep ==
    ASSUME OneSender, Inv, PlaceInv, LineInv, Ordered, [Next]_vars
    PROVE  Ordered' /\ [D!Next]_<<Line, result>>
<1>1. TypeInv
  BY DEF Inv, SlotInv, QueueInv
<1>2. CASE UNCHANGED <<added, result>>
  BY <1>2, RefinedStill
<1>3. ASSUME NEW k \in Keys, NEW b \in Batches, Joins(k, b)
      PROVE  Ordered' /\ D!Next
  <2>1. Ordered' /\ D!Accept(k, b)
    BY <1>1, <1>3, RefinedJoin
  <2> QED
    BY <2>1 DEF D!Next
<1>4. ASSUME NEW b \in Batches, NEW r \in Results \ {"none"}, Finishes(b, r)
      PROVE  Ordered' /\ D!Next
  BY <1>1, <1>4, RefinedFinish
<1> QED
  BY <1>2, <1>3, <1>4, EffectStep DEF Effect

LEMMA RefinedInit == ASSUME Init PROVE Ordered /\ D!Init
<1>1. Accepted = {}
  <2>1. ASSUME NEW b \in Batches PROVE ~(b[2] <= added[KeyOf(b)])
    <3>1. b[2] \in 1 .. MaxBatches /\ added[KeyOf(b)] = 0
      BY KeyOfBatch DEF Batches, Init
    <3> QED
      BY <3>1, SendAssumption
  <2> QED
    BY <2>1 DEF Accepted
<1>2. \A k \in Keys : Unended(k) = {}
  BY <1>1 DEF Unended
<1>3. IsOrder({}, <<>>)
  <2>1. <<>> \in Seq({}) /\ DOMAIN <<>> = {}
    BY EmptySeq
  <2> QED
    BY <2>1 DEF IsOrder
<1>4. \A k \in Keys : Line[k] = <<>>
  BY <1>2, <1>3, LineAt, OrderIs
<1>5. Line = [k \in Keys |-> <<>>]
  BY <1>4 DEF Line
<1> QED
  BY <1>2, <1>3, <1>4, <1>5 DEF Ordered, D!Init, Init

-------------------------------------------------------------------------------
(* Theorems *)

(* However many keys, senders and batches there are, an accepted batch is in  *)
(* exactly one of builder, sealed list, worker, send queue, key queue and     *)
(* sender until it ends, and then in none: no hand-over loses or repeats one, *)
(* and no queue is freed with one in it (ve_tls_worker_main_builder,          *)
(* ve_tls_sender_main, ve_tls_key_queue_remove_and_free).                    *)
THEOREM ConservedAlways == Spec => []Conserved
<1>1. Inv /\ PlaceInv => Conserved
  BY PlacesCounted
<1> QED
  BY <1>1, PlacesAlways, PTL

(* A batch ends once: whoever reports a result holds the batch, and it was    *)
(* still in the pipeline (ve_tls_sender_release_task).                       *)
THEOREM EndsOnceAlways == Spec => EndsOnce
<1>1. (Inv /\ PlaceInv) /\ [Next]_vars
        => [\A b \in Batches : result[b] # "none" => result'[b] = result[b]]_vars
  BY PlaceStep DEF EndsKept
<1> QED
  BY <1>1, PlacesAlways, PTL DEF Spec, EndsOnce

(* When close has returned with success every accepted batch has ended, also  *)
(* one that a sender had in its hand when the producer was found drained      *)
(* (ve_tls_producer_is_drained_locked, ve_tls_producer_close).               *)
THEOREM ClosedMeansDoneAlways == Spec => []ClosedMeansDone
<1>1. DoneInv => ClosedMeansDone
  BY NowhereLeft
<1> QED
  BY <1>1, DoneAlways, PTL

(* No retained batch that waits in a key queue when closing begins is sent    *)
(* once more, and its result is that of a closed or a persistent producer     *)
(* (ve_tls_sender_main, docs/ios-delivery-policy-contract.md:44).            *)
THEOREM NoFinalRequestAlways == Spec => []NoFinalRequest
<1>1. Inv /\ PlaceInv /\ DoomInv => NoFinalRequest
  BY DoomedNotSent
<1> QED
  BY <1>1, DoomAlways, PTL

(* With one sender the batches of a key are delivered in the order in which   *)
(* they were accepted, whatever is retried, deferred, refused or given up in  *)
(* between: the pipeline implements Delivery (ve_tls_key_queue_push_front,    *)
(* ve_tls_sender_main).                                                      *)
THEOREM DeliveryImplemented ==
    ASSUME OneSender
    PROVE  Spec => ImplementsDelivery
<1>1. Init => Inv /\ PlaceInv /\ LineInv /\ Ordered /\ D!Init
  BY InvInit, PlaceInit, LineInit, RefinedInit
<1>2. Inv /\ PlaceInv /\ LineInv /\ Ordered /\ [Next]_vars
        => (Inv /\ PlaceInv /\ LineInv /\ Ordered)' /\ [D!Next]_<<Line, result>>
  BY InvStep, PlaceStep, LineStep, RefinedStep
<1> QED
  BY <1>1, <1>2, PTL DEF Spec, ImplementsDelivery, D!Spec

===============================================================================
