---------------------------- MODULE BatchingProofs ----------------------------
(***************************************************************************)
(* Theorems about Batching for every number of ids and keys and every      *)
(* package size: a batch claims its own ids only, the frontier is exact,   *)
(* and the list of ranges implements the frontier on sets.                 *)
(***************************************************************************)
EXTENDS Batching, SequenceTheorems, FiniteSetTheorems, TLAPS

(* The list is sorted and has a gap before each of its nodes, the first one  *)
(* included: this is what lets the walk stop at the first node it misses.   *)
Sorted == \A i, j \in 1 .. Len(ranges) : i < j => ranges[i].hi + 1 < ranges[j].lo
Beyond == \A i \in 1 .. Len(ranges) : /\ acked + 1 < ranges[i].lo
                                      /\ ranges[i].lo <= ranges[i].hi
Listed == /\ ranges \in Seq(Node) /\ acked \in 0 .. MaxId
          /\ Sorted /\ Beyond

-------------------------------------------------------------------------------
(* The walk along the list *)

(* What is counted from a on without a gap is an interval.                   *)
LEMMA Prefix ==
    ASSUME NEW a \in Nat, NEW b \in Nat, a <= b, NEW S \in SUBSET (a + 1 .. b),
           \A x \in S : \A y \in a + 1 .. x : y \in S
    PROVE  /\ Cardinality(S) \in 0 .. b - a
           /\ S = a + 1 .. a + Cardinality(S)
<1> DEFINE c == Cardinality(S)
<1>1. IsFiniteSet(S) /\ c \in Nat /\ c <= b - a
  <2>1. IsFiniteSet(a + 1 .. b) /\ Cardinality(a + 1 .. b) = b - a
    <3>1. Cardinality(a + 1 .. b) = IF a + 1 > b THEN 0 ELSE b - (a + 1) + 1
      BY FS_Interval, a + 1 \in Int, b \in Int
    <3>2. IsFiniteSet(a + 1 .. b)
      BY FS_Interval, a + 1 \in Int, b \in Int
    <3> QED BY <3>1, <3>2
  <2>2. IsFiniteSet(S) /\ c <= b - a
    BY <2>1, FS_Subset
  <2> QED BY <2>2, FS_CardinalityType
<1>2. \A x \in S : x <= a + c
  <2> SUFFICES ASSUME NEW x \in S PROVE x <= a + c
    OBVIOUS
  <2>1. (a + 1 .. x) \subseteq S /\ x \in Int /\ a + 1 <= x
    OBVIOUS
  <2>2. Cardinality(a + 1 .. x) = IF a + 1 > x THEN 0 ELSE x - (a + 1) + 1
    BY <2>1, FS_Interval, a + 1 \in Int
  <2>3. Cardinality(a + 1 .. x) <= c
    BY <1>1, <2>1, FS_Subset
  <2> QED BY <1>1, <2>1, <2>2, <2>3
<1>3. S \subseteq a + 1 .. a + c
  <2> HIDE DEF c
  <2> SUFFICES ASSUME NEW x \in S PROVE x \in a + 1 .. a + c
    OBVIOUS
  <2>1. x \in a + 1 .. b /\ x <= a + c
    BY <1>2
  <2> QED BY <1>1, <2>1
<1>4. IsFiniteSet(a + 1 .. a + c) /\ Cardinality(a + 1 .. a + c) = c
  <2> HIDE DEF c
  <2>1. PICK p \in Int, q \in Int : p = a + 1 /\ q = a + c
    BY <1>1
  <2>2. IsFiniteSet(p .. q) /\ Cardinality(p .. q) = IF p > q THEN 0 ELSE q - p + 1
    BY FS_Interval
  <2>3. (IF p > q THEN 0 ELSE q - p + 1) = c
    BY <1>1, <2>1
  <2> QED BY <2>1, <2>2, <2>3
<1>5. S = a + 1 .. a + c
  BY <1>3, <1>4, FS_Subset
<1> QED BY <1>1, <1>5

LEMMA Nodes ==
    ASSUME Listed
    PROVE  /\ Len(ranges) \in Nat
           /\ \A i \in 1 .. Len(ranges) : /\ ranges[i] \in Node
                                         /\ ranges[i].lo \in Int /\ ranges[i].hi \in Int
                                         /\ ranges[i].lo <= ranges[i].hi
<1>1. Len(ranges) \in Nat /\ \A i \in 1 .. Len(ranges) : ranges[i] \in Node
  BY ElementOfSeq DEF Listed
<1>2. \A r \in Node : r.lo \in Int /\ r.hi \in Int
  BY DEF Node, Ids
<1> QED BY <1>1, <1>2 DEF Listed, Beyond

(* Before is the number of leading nodes that do not touch lo; of the others *)
(* each reaches lo or lies behind it.                                       *)
LEMMA BeforeIs ==
    ASSUME Listed, NEW lo \in Ids
    PROVE  /\ Before(lo) \in 0 .. Len(ranges)
           /\ \A i \in 1 .. Before(lo) : ranges[i].hi < lo - 1
           /\ \A i \in Before(lo) + 1 .. Len(ranges) : ranges[i].hi >= lo - 1
<1> DEFINE S == {i \in 1 .. Len(ranges) : \A j \in 1 .. i : ranges[j].hi < lo - 1}
<1>1. Len(ranges) \in Nat /\ lo \in Int
  BY DEF Listed, Ids
<1>2. /\ Cardinality(S) \in 0 .. Len(ranges)
      /\ S = 1 .. Cardinality(S)
  <2>1. S \in SUBSET (0 + 1 .. Len(ranges)) /\ 0 <= Len(ranges)
    BY <1>1
  <2>2. \A x \in S : \A y \in 0 + 1 .. x : y \in S
    BY <1>1
  <2>3. /\ Cardinality(S) \in 0 .. Len(ranges) - 0
        /\ S = 0 + 1 .. 0 + Cardinality(S)
    <3> HIDE DEF S
    <3> QED BY <1>1, <2>1, <2>2, Prefix, 0 \in Nat
  <2> HIDE DEF S
  <2> QED BY <1>1, <2>3
<1>3. Before(lo) = Cardinality(S)
  BY DEF Before
<1>4. \A i \in 1 .. Cardinality(S) : ranges[i].hi < lo - 1
  BY <1>1, <1>2
<1>5. ASSUME NEW i \in Cardinality(S) + 1 .. Len(ranges) PROVE ranges[i].hi >= lo - 1
  <2>1. i \in 1 .. Len(ranges) /\ i \notin S /\ Cardinality(S) \in Nat
    <3> HIDE DEF S
    <3> QED BY <1>1, <1>2
  <2>2. PICK j \in 1 .. i : ~(ranges[j].hi < lo - 1)
    BY <2>1
  <2>3. j \in 1 .. Len(ranges) /\ (j < i \/ j = i)
    BY <1>1, <2>1
  <2>4. j < i => ranges[j].hi + 1 < ranges[i].lo
    BY <2>1, <2>3 DEF Listed, Sorted
  <2> QED BY <1>1, <2>1, <2>2, <2>3, <2>4, Nodes
<1> QED
  <2> HIDE DEF S
  <2> QED BY <1>2, <1>3, <1>4, <1>5

LEMMA MinIs == ASSUME NEW S \in SUBSET Int, NEW m \in S, \A x \in S : m <= x PROVE Min(S) = m
<1>1. ASSUME NEW x \in S, \A y \in S : x =< y PROVE x = m
  BY <1>1
<1>2. m \in S /\ \A y \in S : m =< y
  OBVIOUS
<1> QED BY <1>1, <1>2, Zenon DEF Min
LEMMA MaxIs == ASSUME NEW S \in SUBSET Int, NEW m \in S, \A x \in S : x <= m PROVE Max(S) = m
<1>1. ASSUME NEW x \in S, \A y \in S : x >= y PROVE x = m
  BY <1>1
<1>2. m \in S /\ \A y \in S : m >= y
  OBVIOUS
<1> QED BY <1>1, <1>2, Zenon DEF Max

(* The nodes a walk absorbs: those up to n, which touch the range itself.    *)
Walked(from, n, hi) ==
    /\ n \in from .. Len(ranges)
    /\ \A i \in from + 1 .. n : ranges[i].lo <= hi + 1
    /\ \A i \in n + 1 .. Len(ranges) : hi + 1 < ranges[i].lo
WalkLo(from, n, lo) == IF n > from /\ ranges[from + 1].lo < lo THEN ranges[from + 1].lo ELSE lo
WalkHi(from, n, hi) == IF n > from /\ ranges[n].hi > hi THEN ranges[n].hi ELSE hi

LEMMA AbsorbIs ==
    ASSUME Listed, NEW from \in 0 .. Len(ranges), NEW lo \in Ids, NEW hi \in Ids
    PROVE  \E n \in from .. Len(ranges) :
              /\ Walked(from, n, hi)
              /\ Absorb(from, lo, hi) =
                    [lo |-> WalkLo(from, n, lo), hi |-> WalkHi(from, n, hi), n |-> n]
<1> DEFINE L == Len(ranges)
           run == {i \in from + 1 .. L : \A j \in from + 1 .. i : Reaches(from, hi, j)}
           n == from + Cardinality(run)
<1>1. L \in Nat /\ from \in Nat /\ from <= L /\ lo \in Int /\ hi \in Int
  BY DEF Listed, Ids
<1>2. \A i \in 1 .. L : /\ ranges[i].lo \in Int /\ ranges[i].hi \in Int
                        /\ ranges[i].lo <= ranges[i].hi
  BY Nodes
<1>3. \A i, j \in 1 .. L : i < j => ranges[i].hi + 1 < ranges[j].lo
  BY DEF Listed, Sorted
<1>4. ASSUME NEW i \in from + 1 .. L PROVE Reaches(from, hi, i) <=> ranges[i].lo <= hi + 1
  <2>1. i \in 1 .. L /\ \A j \in from + 1 .. i - 1 : j \in 1 .. L /\ j < i
    BY <1>1
  <2>2. \A j \in from + 1 .. i - 1 : ~(ranges[i].lo <= ranges[j].hi + 1)
    BY <1>2, <1>3, <2>1
  <2> QED BY <2>2 DEF Reaches
<1>5. /\ Cardinality(run) \in 0 .. L - from
      /\ run = from + 1 .. from + Cardinality(run)
  <2>1. run \in SUBSET (from + 1 .. L)
    OBVIOUS
  <2>2. \A x \in run : \A y \in from + 1 .. x : y \in run
    BY <1>1
  <2> HIDE DEF run
  <2> QED BY <1>1, <2>1, <2>2, Prefix
<1>6. n \in from .. L /\ run = from + 1 .. n
  <2> HIDE DEF run
  <2> QED BY <1>1, <1>5
<1>7. \A i \in from + 1 .. n : ranges[i].lo <= hi + 1
  <2> SUFFICES ASSUME NEW i \in from + 1 .. n PROVE ranges[i].lo <= hi + 1
    OBVIOUS
  <2>1. i \in run
    BY <1>6
  <2>2. i \in from + 1 .. L /\ Reaches(from, hi, i)
    BY <1>1, <2>1
  <2> QED BY <1>4, <2>2
<1>8. \A i \in n + 1 .. L : hi + 1 < ranges[i].lo
  <2> SUFFICES ASSUME NEW i \in n + 1 .. L PROVE hi + 1 < ranges[i].lo
    OBVIOUS
  <2> HIDE DEF n
  <2>1. i \in from + 1 .. L /\ i \notin run /\ i \in 1 .. L
    <3> HIDE DEF run
    <3> QED BY <1>1, <1>6
  <2>2. PICK j \in from + 1 .. i : ~Reaches(from, hi, j)
    BY <2>1
  <2>3. j \in from + 1 .. L /\ j \in 1 .. L /\ j <= i
    BY <1>1, <2>1
  <2>4. ~(ranges[j].lo <= hi + 1)
    BY <1>4, <2>2, <2>3
  <2>5. ranges[j].lo <= ranges[i].lo
    <3>1. j = i \/ j < i
      BY <2>1, <2>3
    <3>2. j < i => ranges[j].hi + 1 < ranges[i].lo
      BY <1>3, <2>1, <2>3
    <3> QED BY <1>2, <2>1, <2>3, <3>1, <3>2
  <2> QED BY <1>1, <1>2, <2>1, <2>3, <2>4, <2>5
<1>9. Walked(from, n, hi)
  <2> HIDE DEF n
  <2> QED BY <1>6, <1>7, <1>8 DEF Walked
<1>10. Min({lo} \cup {ranges[i].lo : i \in run}) = WalkLo(from, n, lo)
  <2> DEFINE S == {lo} \cup {ranges[i].lo : i \in from + 1 .. n}
  <2> HIDE DEF n, run
  <2>1. S \in SUBSET Int
    BY <1>1, <1>2, <1>6
  <2>2. WalkLo(from, n, lo) \in S
    BY <1>1, <1>6 DEF WalkLo
  <2>3. ASSUME NEW i \in from + 1 .. n PROVE WalkLo(from, n, lo) <= ranges[i].lo
    <3>1. n > from /\ from + 1 \in 1 .. L /\ i \in 1 .. L /\ from + 1 <= i
      BY <1>1, <1>6
    <3>2. ranges[from + 1].lo <= ranges[i].lo
      BY <1>2, <1>3, <3>1
    <3> QED BY <1>1, <1>2, <3>1, <3>2 DEF WalkLo
  <2>4. \A x \in S : WalkLo(from, n, lo) <= x
    <3>1. WalkLo(from, n, lo) <= lo
      BY <1>1, <1>2, <1>6 DEF WalkLo
    <3> QED BY <2>3, <3>1
  <2>5. Min(S) = WalkLo(from, n, lo)
    <3> HIDE DEF S
    <3> QED BY <2>1, <2>2, <2>4, MinIs
  <2> QED BY <1>6, <2>5
<1>11. Max({hi} \cup {ranges[i].hi : i \in run}) = WalkHi(from, n, hi)
  <2> DEFINE S == {hi} \cup {ranges[i].hi : i \in from + 1 .. n}
  <2> HIDE DEF n, run
  <2>1. S \in SUBSET Int
    BY <1>1, <1>2, <1>6
  <2>2. WalkHi(from, n, hi) \in S
    BY <1>1, <1>6 DEF WalkHi
  <2>3. ASSUME NEW i \in from + 1 .. n PROVE ranges[i].hi <= WalkHi(from, n, hi)
    <3>1. n > from /\ n \in 1 .. L /\ i \in 1 .. L /\ i <= n
      BY <1>1, <1>6
    <3>2. ranges[i].hi <= ranges[n].hi
      BY <1>2, <1>3, <3>1
    <3> QED BY <1>1, <1>2, <3>1, <3>2 DEF WalkHi
  <2>4. \A x \in S : x <= WalkHi(from, n, hi)
    <3>1. hi <= WalkHi(from, n, hi)
      BY <1>1, <1>2, <1>6 DEF WalkHi
    <3> QED BY <2>3, <3>1
  <2>5. Max(S) = WalkHi(from, n, hi)
    <3> HIDE DEF S
    <3> QED BY <2>1, <2>2, <2>4, MaxIs
  <2> QED BY <1>6, <2>5
<1>12. Absorb(from, lo, hi) = [lo |-> WalkLo(from, n, lo), hi |-> WalkHi(from, n, hi), n |-> n]
  <2>1. Absorb(from, lo, hi) = [lo |-> Min({lo} \cup {ranges[i].lo : i \in run}),
                                hi |-> Max({hi} \cup {ranges[i].hi : i \in run}),
                                n |-> n]
    BY DEF Absorb
  <2> HIDE DEF n, run
  <2> QED BY <1>10, <1>11, <2>1
<1> HIDE DEF n, run
<1> QED BY <1>6, <1>9, <1>12

(* Together a range and the nodes it absorbs are an interval.                *)
Covers(from, n, lo, hi, wl, wh) ==
    /\ wl \in Ids /\ wh \in Ids /\ wl <= lo /\ hi <= wh
    /\ \A i \in n + 1 .. Len(ranges) : wh + 1 < ranges[i].lo
    /\ \A x \in wl .. wh :
          x \in lo .. hi \/ \E i \in from + 1 .. n : x \in ranges[i].lo .. ranges[i].hi
    /\ \A i \in from + 1 .. n : ranges[i].lo .. ranges[i].hi \subseteq wl .. wh

LEMMA WalkCovers ==
    ASSUME Listed, NEW from \in 0 .. Len(ranges), NEW n \in from .. Len(ranges),
           NEW lo \in Ids, NEW hi \in Ids, lo <= hi, Walked(from, n, hi),
           \A i \in from + 1 .. Len(ranges) : ranges[i].hi >= lo - 1
    PROVE  Covers(from, n, lo, hi, WalkLo(from, n, lo), WalkHi(from, n, hi))
<1> DEFINE L == Len(ranges)
           wl == WalkLo(from, n, lo)
           wh == WalkHi(from, n, hi)
<1>1. /\ L \in Nat /\ from \in Nat /\ n \in Nat /\ from <= n /\ n <= L
      /\ lo \in Int /\ hi \in Int
  BY Nodes DEF Ids
<1>2. \A i \in 1 .. L : /\ ranges[i].lo \in Int /\ ranges[i].hi \in Int
                        /\ ranges[i].lo <= ranges[i].hi
  BY Nodes
<1>3. \A i, j \in 1 .. L : i < j => ranges[i].hi + 1 < ranges[j].lo
  BY DEF Listed, Sorted
<1>4. /\ \A i \in from + 1 .. n : ranges[i].lo <= hi + 1
      /\ \A i \in n + 1 .. L : hi + 1 < ranges[i].lo
  BY DEF Walked
<1>5. /\ n > from => from + 1 \in 1 .. L /\ n \in 1 .. L
      /\ \A i \in from + 1 .. n : i \in 1 .. L /\ n > from
  BY <1>1
<1>6. wl \in Int /\ wh \in Int /\ wl <= lo /\ hi <= wh
  BY <1>1, <1>2, <1>5 DEF WalkLo, WalkHi
<1>7. wl \in Ids /\ wh \in Ids
  <2>1. n > from => ranges[from + 1] \in Node /\ ranges[n] \in Node
    BY <1>5, Nodes
  <2> QED BY <2>1 DEF WalkLo, WalkHi, Node
<1>8. ASSUME NEW i \in n + 1 .. L PROVE wh + 1 < ranges[i].lo
  <2>1. i \in 1 .. L /\ n < i
    BY <1>1
  <2>2. n > from => ranges[n].hi + 1 < ranges[i].lo
    BY <1>3, <1>5, <2>1
  <2>3. hi + 1 < ranges[i].lo
    BY <1>4
  <2> QED BY <2>2, <2>3 DEF WalkHi
<1>9. ASSUME NEW x \in wl .. wh, x \notin lo .. hi
      PROVE  \E i \in from + 1 .. n : x \in ranges[i].lo .. ranges[i].hi
  <2>1. x \in Int /\ wl <= x /\ x <= wh /\ (x < lo \/ hi < x)
    <3> HIDE DEF wl, wh
    <3> QED BY <1>1, <1>6, <1>9
  <2>2. CASE x < lo
    <3>1. n > from /\ wl = ranges[from + 1].lo
      BY <1>1, <2>1, <2>2 DEF WalkLo
    <3>2. ranges[from + 1].hi >= lo - 1
      BY <1>1, <3>1
    <3>3. x \in ranges[from + 1].lo .. ranges[from + 1].hi
      BY <1>1, <1>2, <1>5, <2>1, <2>2, <3>1, <3>2
    <3> QED BY <1>1, <3>1, <3>3
  <2>3. CASE hi < x
    <3>1. n > from /\ wh = ranges[n].hi
      BY <1>1, <2>1, <2>3 DEF WalkHi
    <3>2. ranges[n].lo <= hi + 1 /\ n \in from + 1 .. n
      BY <1>1, <1>4, <3>1
    <3>3. x \in ranges[n].lo .. ranges[n].hi
      BY <1>1, <1>2, <1>5, <2>1, <2>3, <3>1, <3>2
    <3> QED BY <3>2, <3>3
  <2> QED BY <2>1, <2>2, <2>3
<1>10. ASSUME NEW i \in from + 1 .. n PROVE wl <= ranges[i].lo /\ ranges[i].hi <= wh
  <2>1. /\ n > from /\ i \in 1 .. L /\ from + 1 \in 1 .. L /\ n \in 1 .. L
        /\ from + 1 <= i /\ i <= n
    BY <1>1, <1>5
  <2>2. ranges[from + 1].lo <= ranges[i].lo /\ ranges[i].hi <= ranges[n].hi
    <3>1. i = from + 1 \/ from + 1 < i
      BY <1>1, <2>1
    <3>2. i = n \/ i < n
      BY <1>1, <2>1
    <3>3. from + 1 < i => ranges[from + 1].hi + 1 < ranges[i].lo
      BY <1>3, <2>1
    <3>4. i < n => ranges[i].hi + 1 < ranges[n].lo
      BY <1>3, <2>1
    <3>5. ranges[from + 1].lo <= ranges[i].lo
      BY <1>2, <2>1, <3>1, <3>3
    <3>6. ranges[i].hi <= ranges[n].hi
      BY <1>2, <2>1, <3>2, <3>4
    <3> QED BY <3>5, <3>6
  <2>3. wl <= ranges[from + 1].lo /\ ranges[n].hi <= wh
    BY <1>1, <1>2, <2>1 DEF WalkLo, WalkHi
  <2> HIDE DEF wl, wh
  <2> QED BY <1>2, <1>6, <2>1, <2>2, <2>3
<1>11. ASSUME NEW i \in from + 1 .. n PROVE ranges[i].lo .. ranges[i].hi \subseteq wl .. wh
  <2> HIDE DEF wl, wh
  <2>1. ranges[i].lo \in Int /\ ranges[i].hi \in Int
    BY <1>2, <1>5
  <2> QED BY <1>6, <1>10, <2>1
<1> HIDE DEF wl, wh
<1>12. Covers(from, n, lo, hi, wl, wh)
  BY <1>6, <1>7, <1>8, <1>9, <1>11 DEF Covers
<1> QED BY <1>12 DEF wl, wh

(* A list glued together from a, a node and c.                               *)
Glued(a, x, c) == a \o <<x>> \o c
IsGlued(R, a, x, c) ==
    /\ R \in Seq(Node) /\ Len(R) = Len(a) + 1 + Len(c)
    /\ \A i \in 1 .. Len(a) : R[i] = a[i]
    /\ R[Len(a) + 1] = x
    /\ \A i \in 1 .. Len(c) : R[Len(a) + 1 + i] = c[i]

LEMMA Glue ==
    ASSUME NEW a \in Seq(Node), NEW c \in Seq(Node), NEW x \in Node
    PROVE  IsGlued(Glued(a, x, c), a, x, c)
<1>f. PICK f \in Nat, g \in Nat : f = Len(a) /\ g = Len(c)
  OBVIOUS
<1>1. <<x>> \in Seq(Node) /\ Len(<<x>>) = 1 /\ <<x>>[1] = x
  OBVIOUS
<1>2. PICK u \in Seq(Node) : u = <<x>> /\ Len(u) = 1 /\ u[1] = x
  BY <1>1
<1>3. PICK b : b = a \o u
  OBVIOUS
<1>4. /\ b \in Seq(Node) /\ Len(b) = f + 1
      /\ \A i \in 1 .. f + 1 : b[i] = IF i <= f THEN a[i] ELSE u[i - f]
  BY <1>f, <1>2, <1>3, ConcatProperties
<1>5. b[f + 1] = x /\ \A i \in 1 .. f : b[i] = a[i]
  <2>1. f + 1 \in 1 .. f + 1 /\ ~(f + 1 <= f) /\ f + 1 - f = 1
    OBVIOUS
  <2>2. \A i \in 1 .. f : i \in 1 .. f + 1 /\ i <= f
    OBVIOUS
  <2> QED BY <1>2, <1>4, <2>1, <2>2
<1>6. PICK R : R = b \o c
  OBVIOUS
<1>7. /\ R \in Seq(Node) /\ Len(R) = f + 1 + g
      /\ \A i \in 1 .. f + 1 + g : R[i] = IF i <= f + 1 THEN b[i] ELSE c[i - (f + 1)]
  <2>1. /\ R \in Seq(Node) /\ Len(R) = Len(b) + Len(c)
        /\ \A i \in 1 .. Len(b) + Len(c) : R[i] = IF i <= Len(b) THEN b[i] ELSE c[i - Len(b)]
    BY <1>4, <1>6, ConcatProperties
  <2>2. PICK m \in Nat : m = f + 1 /\ Len(b) = m
    BY <1>4
  <2>3. /\ Len(R) = m + g
        /\ \A i \in 1 .. m + g : R[i] = IF i <= m THEN b[i] ELSE c[i - m]
    BY <1>f, <2>1, <2>2
  <2> QED BY <2>1, <2>2, <2>3
<1>8. /\ \A i \in 1 .. f + 1 : R[i] = b[i]
      /\ \A i \in 1 .. g : R[f + 1 + i] = c[i]
  <2>1. \A i \in 1 .. f + 1 : i \in 1 .. f + 1 + g /\ i <= f + 1
    OBVIOUS
  <2>2. ASSUME NEW i \in 1 .. g PROVE R[f + 1 + i] = c[i]
    <3>1. PICK k \in 1 .. f + 1 + g : k = f + 1 + i
      OBVIOUS
    <3>2. ~(k <= f + 1) /\ k - (f + 1) = i
      BY <3>1
    <3>3. R[k] = c[k - (f + 1)]
      BY <1>7, <3>2
    <3> QED BY <3>1, <3>2, <3>3
  <2> QED BY <1>7, <2>1, <2>2
<1>9. /\ R \in Seq(Node) /\ Len(R) = f + 1 + g
      /\ \A i \in 1 .. f : R[i] = a[i]
      /\ R[f + 1] = x
      /\ \A i \in 1 .. g : R[f + 1 + i] = c[i]
  <2>1. f + 1 \in 1 .. f + 1 /\ \A i \in 1 .. f : i \in 1 .. f + 1
    OBVIOUS
  <2> QED BY <1>5, <1>7, <1>8, <2>1
<1>10. R = Glued(a, x, c)
  BY <1>2, <1>3, <1>6 DEF Glued
<1>11. IsGlued(R, a, x, c)
  BY <1>f, <1>9 DEF IsGlued
<1> QED BY <1>10, <1>11

(* The nodes f + 1 .. n are replaced by one.                                 *)
Spliced(s, f, x, n) == SubSeq(s, 1, f) \o <<x>> \o SubSeq(s, n + 1, Len(s))

IsSpliced(R, s, f, x, n) ==
    /\ R \in Seq(Node) /\ Len(R) = f + 1 + (Len(s) - n)
    /\ \A i \in 1 .. f : R[i] = s[i]
    /\ R[f + 1] = x
    /\ \A i \in 1 .. Len(s) - n : R[f + 1 + i] = s[n + i]

LEMMA Splice ==
    ASSUME NEW s \in Seq(Node), NEW f \in 0 .. Len(s), NEW n \in f .. Len(s), NEW x \in Node
    PROVE  IsSpliced(Spliced(s, f, x, n), s, f, x, n)
<1>0. Len(s) \in Nat /\ f \in Nat /\ n \in Nat /\ f <= n /\ n <= Len(s)
  OBVIOUS
<1>1. PICK a : a = SubSeq(s, 1, f)
  OBVIOUS
<1>2. a \in Seq(Node) /\ Len(a) = f /\ \A i \in 1 .. f : a[i] = s[i]
  <2>1. \A i \in 1 .. f : s[i] \in Node
    BY <1>0, ElementOfSeq
  <2>2. /\ SubSeq(s, 1, f) \in Seq(Node)
        /\ Len(SubSeq(s, 1, f)) = IF 1 <= f THEN f - 1 + 1 ELSE 0
        /\ \A i \in 1 .. f - 1 + 1 : SubSeq(s, 1, f)[i] = s[1 + i - 1]
    BY <1>0, <2>1, SubSeqProperties, 1 \in Int, f \in Int
  <2> QED BY <1>0, <1>1, <2>2
<1>3. PICK c : c = SubSeq(s, n + 1, Len(s))
  OBVIOUS
<1>4. /\ c \in Seq(Node) /\ Len(c) = Len(s) - n
      /\ \A i \in 1 .. Len(s) - n : c[i] = s[n + i]
  <2>0. PICK p \in Int, q \in Int : p = n + 1 /\ q = Len(s)
    BY <1>0
  <2>1. \A i \in p .. q : s[i] \in Node
    BY <1>0, <2>0, ElementOfSeq
  <2>2. /\ SubSeq(s, p, q) \in Seq(Node)
        /\ Len(SubSeq(s, p, q)) = IF p <= q THEN q - p + 1 ELSE 0
        /\ \A i \in 1 .. q - p + 1 : SubSeq(s, p, q)[i] = s[p + i - 1]
    BY <2>1, SubSeqProperties
  <2>3. c = SubSeq(s, p, q)
    BY <1>3, <2>0
  <2>4. \A i \in 1 .. Len(s) - n : i \in 1 .. q - p + 1 /\ p + i - 1 = n + i
    BY <1>0, <2>0
  <2> QED BY <1>0, <2>0, <2>2, <2>3, <2>4
<1>5. PICK R : R = Glued(a, x, c) /\ R = Spliced(s, f, x, n)
  BY <1>1, <1>3 DEF Glued, Spliced
<1>6. PICK g \in Nat : g = Len(s) - n
  BY <1>0
<1>7. /\ R \in Seq(Node) /\ Len(R) = f + 1 + g
      /\ \A i \in 1 .. f : R[i] = a[i]
      /\ R[f + 1] = x
      /\ \A i \in 1 .. g : R[f + 1 + i] = c[i]
  <2>1. IsGlued(R, a, x, c)
    BY <1>2, <1>4, <1>5, Glue
  <2> QED BY <1>2, <1>4, <1>6, <2>1 DEF IsGlued
<1>8. /\ \A i \in 1 .. f : R[i] = s[i]
      /\ \A i \in 1 .. g : R[f + 1 + i] = s[n + i]
  BY <1>2, <1>4, <1>6, <1>7
<1>9. IsSpliced(R, s, f, x, n)
  BY <1>6, <1>7, <1>8 DEF IsSpliced
<1> QED BY <1>5, <1>9

(* A range behind a gap becomes a node; it is waiting, nothing else changes. *)
LEMMA RecordWaits ==
    ASSUME Listed, NEW start \in Ids, NEW end \in Ids, start <= end,
           start > acked + 1, RecordCompleted(start, end)
    PROVE  Listed' /\ acked' = acked /\ WaitingIds' = WaitingIds \cup (start .. end)
<1> DEFINE L == Len(ranges)
<1>1. /\ L \in Nat /\ start \in Int /\ end \in Int /\ acked \in Int
      /\ ranges \in Seq(Node) /\ acked \in 0 .. MaxId
  BY Nodes DEF Listed, Ids
<1>2. ~(end <= acked) /\ Larger(start, acked + 1) = start
  BY <1>1 DEF Larger
<1>3. PICK f \in 0 .. L : f = Before(start)
  BY BeforeIs
<1>4. /\ \A i \in 1 .. f : ranges[i].hi < start - 1
      /\ \A i \in f + 1 .. L : ranges[i].hi >= start - 1
  BY <1>3, BeforeIs
<1>5. PICK n \in f .. L :
         /\ Walked(f, n, end)
         /\ Absorb(f, start, end) =
                [lo |-> WalkLo(f, n, start), hi |-> WalkHi(f, n, end), n |-> n]
  BY AbsorbIs
<1>6. PICK wl, wh : wl = WalkLo(f, n, start) /\ wh = WalkHi(f, n, end)
  OBVIOUS
<1>7. /\ wl \in Ids /\ wh \in Ids /\ wl <= start /\ end <= wh
      /\ \A i \in n + 1 .. L : wh + 1 < ranges[i].lo
      /\ \A x \in wl .. wh :
            x \in start .. end \/ \E i \in f + 1 .. n : x \in ranges[i].lo .. ranges[i].hi
      /\ \A i \in f + 1 .. n : ranges[i].lo .. ranges[i].hi \subseteq wl .. wh
  <2>1. Covers(f, n, start, end, wl, wh)
    BY <1>4, <1>5, <1>6, WalkCovers
  <2> QED BY <2>1 DEF Covers
<1>8. PICK node \in Node : node = [lo |-> wl, hi |-> wh]
  BY <1>7 DEF Node
<1>9. PICK R : /\ R = ranges' /\ acked' = acked
               /\ R = Spliced(ranges, f, node, n)
  <2> DEFINE w == Absorb(Before(start), start, end)
  <2>1. /\ acked' = acked
        /\ ranges' = SubSeq(ranges, 1, Before(start)) \o <<[lo |-> w.lo, hi |-> w.hi]>>
                         \o SubSeq(ranges, w.n + 1, Len(ranges))
    <3> HIDE DEF w
    <3> QED BY <1>2 DEF RecordCompleted, w
  <2>2. w.n = n /\ [lo |-> w.lo, hi |-> w.hi] = node
    BY <1>3, <1>5, <1>6, <1>8
  <2> HIDE DEF w
  <2> QED BY <1>3, <2>1, <2>2 DEF Spliced
<1>10. /\ R \in Seq(Node) /\ Len(R) = f + 1 + (L - n)
       /\ \A i \in 1 .. f : R[i] = ranges[i]
       /\ R[f + 1] = node
       /\ \A i \in f + 2 .. Len(R) : R[i] = ranges[n + i - f - 1]
  <2>1. /\ R \in Seq(Node) /\ Len(R) = f + 1 + (L - n)
        /\ \A i \in 1 .. f : R[i] = ranges[i]
        /\ R[f + 1] = node
        /\ \A i \in 1 .. L - n : R[f + 1 + i] = ranges[n + i]
    <3>1. IsSpliced(R, ranges, f, node, n)
      BY <1>1, <1>9, Splice
    <3> QED BY <3>1 DEF IsSpliced
  <2>2. \A i \in f + 2 .. Len(R) : /\ i - f - 1 \in 1 .. L - n /\ f + 1 + (i - f - 1) = i
                                   /\ n + (i - f - 1) = n + i - f - 1
    <3>1. f \in Int /\ n \in Int /\ L \in Int
      BY <1>1
    <3> QED BY <2>1, <3>1
  <2> QED BY <2>1, <2>2
<1>11. /\ f \in Nat /\ n \in Nat /\ f <= n /\ n <= L /\ wl \in Int /\ wh \in Int /\ wl <= wh
       /\ node.lo = wl /\ node.hi = wh
  BY <1>1, <1>7, <1>8 DEF Ids
<1>12. \A i \in 1 .. L : /\ ranges[i].lo \in Int /\ ranges[i].hi \in Int
                         /\ ranges[i].lo <= ranges[i].hi /\ acked + 1 < ranges[i].lo
  BY Nodes DEF Listed, Beyond
<1>13. \A i, j \in 1 .. L : i < j => ranges[i].hi + 1 < ranges[j].lo
  BY DEF Listed, Sorted
<1>14. \A i \in 1 .. f : ranges[i].hi + 1 < wl
  <2> SUFFICES ASSUME NEW i \in 1 .. f PROVE ranges[i].hi + 1 < wl
    OBVIOUS
  <2>1. i \in 1 .. L /\ (n > f => f + 1 \in 1 .. L /\ i < f + 1)
    BY <1>1, <1>11
  <2>2. n > f => ranges[i].hi + 1 < ranges[f + 1].lo
    BY <1>13, <2>1
  <2>3. ranges[i].hi < start - 1
    BY <1>4
  <2> QED BY <1>1, <1>6, <1>12, <2>1, <2>2, <2>3 DEF WalkLo
<1>15. wl > acked + 1
  BY <1>1, <1>6, <1>11, <1>12 DEF WalkLo
(* Every place of the new list is an old one or the new node.                *)
<1>16. \A i \in 1 .. Len(R) :
          \/ i < f + 1 /\ i \in 1 .. f /\ i \in 1 .. L /\ R[i] = ranges[i]
          \/ i = f + 1 /\ R[i].lo = wl /\ R[i].hi = wh
          \/ /\ i > f + 1 /\ n + i - f - 1 \in n + 1 .. L /\ n + i - f - 1 \in 1 .. L
             /\ R[i] = ranges[n + i - f - 1]
  <2> SUFFICES ASSUME NEW i \in 1 .. Len(R)
               PROVE  \/ i < f + 1 /\ i \in 1 .. f /\ i \in 1 .. L /\ R[i] = ranges[i]
                      \/ i = f + 1 /\ R[i].lo = wl /\ R[i].hi = wh
                      \/ /\ i > f + 1 /\ n + i - f - 1 \in n + 1 .. L
                         /\ n + i - f - 1 \in 1 .. L
                         /\ R[i] = ranges[n + i - f - 1]
    OBVIOUS
  <2>1. CASE i < f + 1
    <3>1. i \in 1 .. f /\ i \in 1 .. L
      BY <1>1, <1>11, <2>1
    <3> QED BY <1>10, <2>1, <3>1
  <2>2. CASE i = f + 1
    BY <1>10, <1>11, <2>2
  <2>3. CASE i > f + 1
    <3>0. Len(R) = f + 1 + (L - n) /\ f \in Int /\ n \in Int /\ n >= 0 /\ L \in Int /\ i \in Int
      BY <1>1, <1>10, <1>11
    <3>1. i \in f + 2 .. Len(R) /\ n + i - f - 1 \in n + 1 .. L /\ n + i - f - 1 \in 1 .. L
      <4> HIDE DEF L
      <4> QED BY <2>3, <3>0
    <3> QED BY <1>10, <2>3, <3>1
  <2> QED BY <1>11, <2>1, <2>2, <2>3
<1>17. \A i \in 1 .. Len(R) : acked + 1 < R[i].lo /\ R[i].lo <= R[i].hi
  BY <1>11, <1>12, <1>15, <1>16
<1>18. ASSUME NEW i \in 1 .. Len(R), NEW j \in 1 .. Len(R), i < j PROVE R[i].hi + 1 < R[j].lo
  <2>1. CASE i < f + 1 /\ j < f + 1
    BY <1>13, <1>16, <1>18, <2>1
  <2>2. CASE i < f + 1 /\ j = f + 1
    BY <1>14, <1>16, <2>2
  <2>3. CASE i < f + 1 /\ j > f + 1
    <3>1. /\ i \in 1 .. L /\ R[i] = ranges[i] /\ n + j - f - 1 \in 1 .. L
          /\ R[j] = ranges[n + j - f - 1]
      BY <1>11, <1>16, <2>3
    <3>2. i < n + j - f - 1
      BY <1>11, <1>18, <2>3
    <3> QED BY <1>13, <3>1, <3>2
  <2>4. CASE i = f + 1 /\ j > f + 1
    <3>1. R[i].hi = wh
      BY <1>11, <1>16, <2>4
    <3>2. n + j - f - 1 \in n + 1 .. L /\ R[j] = ranges[n + j - f - 1]
      BY <1>11, <1>16, <2>4
    <3> QED BY <1>7, <3>1, <3>2
  <2>5. CASE i > f + 1
    <3>1. /\ n + i - f - 1 \in 1 .. L /\ R[i] = ranges[n + i - f - 1] /\ n + j - f - 1 \in 1 .. L
          /\ R[j] = ranges[n + j - f - 1]
      BY <1>11, <1>16, <1>18, <2>5
    <3>2. n + i - f - 1 < n + j - f - 1
      BY <1>11, <1>18
    <3> QED BY <1>13, <3>1, <3>2
  <2> QED BY <1>11, <1>18, <2>1, <2>2, <2>3, <2>4, <2>5
<1>19. Listed'
  <2>1. ranges' \in Seq(Node) /\ acked' \in 0 .. MaxId
    BY <1>1, <1>9, <1>10
  <2>2. Sorted'
    BY <1>9, <1>18 DEF Sorted
  <2>3. Beyond'
    BY <1>9, <1>17 DEF Beyond
  <2> QED BY <2>1, <2>2, <2>3 DEF Listed
<1>20. ASSUME NEW x \in WaitingIds' PROVE x \in WaitingIds \cup (start .. end)
  <2>1. PICK i \in 1 .. Len(R) : x \in R[i].lo .. R[i].hi
    BY <1>9 DEF WaitingIds
  <2>2. CASE i = f + 1
    <3>1. x \in wl .. wh
      BY <1>11, <1>16, <2>1, <2>2
    <3>2. \A k \in f + 1 .. n : k \in 1 .. L
      BY <1>1, <1>11
    <3> QED BY <1>7, <3>1, <3>2 DEF WaitingIds
  <2>3. CASE i # f + 1
    BY <1>16, <2>1, <2>3 DEF WaitingIds
  <2> QED BY <2>2, <2>3
<1>21. ASSUME NEW x \in WaitingIds \cup (start .. end) PROVE x \in WaitingIds'
  <2>1. f + 1 \in 1 .. Len(R) /\ R[f + 1].lo = wl /\ R[f + 1].hi = wh
    BY <1>1, <1>10, <1>11
  <2>2. x \in wl .. wh => x \in WaitingIds'
    BY <1>9, <2>1 DEF WaitingIds
  <2>3. CASE x \in start .. end
    BY <1>1, <1>7, <1>11, <2>2, <2>3
  <2>4. CASE x \in WaitingIds
    <3>1. PICK i \in 1 .. L : x \in ranges[i].lo .. ranges[i].hi
      BY <2>4 DEF WaitingIds
    <3>2. CASE i \in 1 .. f
      <4>1. i \in 1 .. Len(R) /\ R[i] = ranges[i]
        BY <1>1, <1>10, <1>11, <3>2
      <4> QED BY <1>9, <3>1, <4>1 DEF WaitingIds
    <3>3. CASE i \in f + 1 .. n
      BY <1>7, <2>2, <3>1, <3>3
    <3>4. CASE i \in n + 1 .. L
      <4>0. i - n + f + 1 \in f + 2 .. Len(R)
        BY <1>1, <1>10, <1>11, <3>4
      <4>1. PICK k \in f + 2 .. Len(R) : k = i - n + f + 1
        BY <4>0
      <4>2. k \in 1 .. Len(R) /\ n + k - f - 1 = i
        BY <1>1, <1>10, <1>11, <4>1
      <4>3. R[k] = ranges[i]
        BY <1>10, <4>1, <4>2
      <4> QED BY <1>9, <3>1, <4>2, <4>3 DEF WaitingIds
    <3> QED BY <1>1, <1>11, <3>2, <3>3, <3>4
  <2> QED BY <2>3, <2>4
<1> QED BY <1>9, <1>19, <1>20, <1>21

(* A range that touches the frontier moves it to the end of the gapless run, *)
(* and what the frontier passed no longer waits.                            *)
LEMMA RecordAdvances ==
    ASSUME Listed, NEW start \in Ids, NEW end \in Ids, start <= end,
           start <= acked + 1, end > acked, RecordCompleted(start, end)
    PROVE  /\ Listed'
           /\ acked' \in Ledger!Reach(WaitingIds, end)
           /\ WaitingIds' = WaitingIds \ (1 .. acked')
<1> DEFINE L == Len(ranges)
<1>1. /\ L \in Nat /\ start \in Int /\ end \in Int /\ acked \in Nat
      /\ ranges \in Seq(Node) /\ acked \in 0 .. MaxId /\ MaxId \in Nat
  BY Nodes, BatchingAssumption DEF Listed, Ids
<1>2. PICK lo \in Ids : lo = acked + 1 /\ lo <= end /\ Larger(start, acked + 1) = lo
  <2>1. acked + 1 \in Ids /\ Larger(start, acked + 1) = acked + 1
    BY <1>1 DEF Larger, Ids
  <2> QED BY <1>1, <2>1
<1>3. \A i \in 1 .. L : /\ ranges[i].lo \in Int /\ ranges[i].hi \in Int
                        /\ ranges[i].lo <= ranges[i].hi /\ acked + 1 < ranges[i].lo
  BY Nodes DEF Listed, Beyond
<1>4. \A i \in 0 + 1 .. L : ranges[i].hi >= lo - 1
  BY <1>1, <1>2, <1>3
<1>5. PICK n \in 0 .. L :
         /\ Walked(0, n, end)
         /\ Absorb(0, lo, end) =
                [lo |-> WalkLo(0, n, lo), hi |-> WalkHi(0, n, end), n |-> n]
  BY <1>1, AbsorbIs
<1>6. PICK wh : wh = WalkHi(0, n, end)
  OBVIOUS
<1>7. /\ WalkLo(0, n, lo) \in Ids /\ wh \in Ids /\ WalkLo(0, n, lo) <= lo /\ end <= wh
      /\ \A i \in n + 1 .. L : wh + 1 < ranges[i].lo
      /\ \A x \in WalkLo(0, n, lo) .. wh :
            x \in lo .. end \/ \E i \in 0 + 1 .. n : x \in ranges[i].lo .. ranges[i].hi
      /\ \A i \in 0 + 1 .. n : ranges[i].lo .. ranges[i].hi \subseteq WalkLo(0, n, lo) .. wh
  <2>1. 0 \in 0 .. Len(ranges) /\ n \in 0 .. Len(ranges)
    BY <1>1
  <2>2. Covers(0, n, lo, end, WalkLo(0, n, lo), wh)
    BY <1>2, <1>4, <1>5, <1>6, <2>1, WalkCovers
  <2> QED BY <2>2 DEF Covers
<1>8. PICK R : R = ranges' /\ R = SubSeq(ranges, n + 1, Len(ranges)) /\ acked' = wh
  <2> DEFINE w == Absorb(0, lo, end)
  <2>1. ~(end <= acked) /\ ~(lo > acked + 1)
    BY <1>1, <1>2
  <2>2. acked' = w.hi /\ ranges' = SubSeq(ranges, w.n + 1, Len(ranges))
    <3> HIDE DEF w
    <3> QED BY <1>2, <2>1 DEF RecordCompleted, w
  <2>3. w.hi = wh /\ w.n = n
    BY <1>5, <1>6
  <2> HIDE DEF w
  <2> QED BY <2>2, <2>3
<1>9. /\ R \in Seq(Node) /\ Len(R) = L - n
      /\ \A i \in 1 .. L - n : R[i] = ranges[n + i] /\ n + i \in n + 1 .. L /\ n + i \in 1 .. L
  <2>1. PICK p \in Int, q \in Int : p = n + 1 /\ q = Len(ranges)
    BY <1>1
  <2>2. \A i \in p .. q : ranges[i] \in Node
    BY <1>1, <2>1, Nodes
  <2>3. /\ SubSeq(ranges, p, q) \in Seq(Node)
        /\ Len(SubSeq(ranges, p, q)) = IF p <= q THEN q - p + 1 ELSE 0
        /\ \A i \in 1 .. q - p + 1 : SubSeq(ranges, p, q)[i] = ranges[p + i - 1]
    BY <2>2, SubSeqProperties
  <2>4. R = SubSeq(ranges, p, q)
    BY <1>8, <2>1
  <2>5. \A i \in 1 .. L - n : i \in 1 .. q - p + 1 /\ p + i - 1 = n + i
    BY <1>1, <2>1
  <2>6. \A i \in 1 .. L - n : n + i \in n + 1 .. L /\ n + i \in 1 .. L
    BY <1>1
  <2>7. R \in Seq(Node) /\ Len(R) = L - n
    BY <1>1, <2>1, <2>3, <2>4
  <2>8. \A i \in 1 .. L - n : R[i] = ranges[n + i]
    BY <2>3, <2>4, <2>5
  <2> QED BY <2>6, <2>7, <2>8
<1>10. wh \in Int /\ n \in Nat /\ n <= L /\ WalkLo(0, n, lo) \in Int
  BY <1>1, <1>7 DEF Ids
<1>11. Listed'
  <2>1. ranges' \in Seq(Node) /\ acked' \in 0 .. MaxId
    BY <1>1, <1>7, <1>8, <1>9 DEF Ids
  <2>2. \A i, j \in 1 .. Len(R) : i < j => R[i].hi + 1 < R[j].lo
    <3>1. \A i, j \in 1 .. L - n : i < j => n + i < n + j
      BY <1>1, <1>10
    <3>2. \A i, j \in 1 .. L : i < j => ranges[i].hi + 1 < ranges[j].lo
      BY DEF Listed, Sorted
    <3> QED BY <1>9, <3>1, <3>2
  <2>3. \A i \in 1 .. Len(R) : wh + 1 < R[i].lo /\ R[i].lo <= R[i].hi
    BY <1>3, <1>7, <1>9
  <2> QED BY <1>8, <2>1, <2>2, <2>3 DEF Listed, Sorted, Beyond
(* A waiting id lies in an absorbed node or in one that stays.               *)
<1>12. ASSUME NEW x \in WaitingIds
       PROVE  /\ x \in Int /\ x > acked + 1
              /\ \/ WalkLo(0, n, lo) <= x /\ x <= wh
                 \/ x > wh + 1 /\ \E i \in 1 .. Len(R) : x \in R[i].lo .. R[i].hi
  <2>1. PICK i \in 1 .. L : x \in ranges[i].lo .. ranges[i].hi
    BY DEF WaitingIds
  <2>2. x \in Int /\ x > acked + 1
    BY <1>1, <1>3, <2>1
  <2>3. CASE i <= n
    <3>1. i \in 0 + 1 .. n
      BY <1>1, <1>10, <2>3
    <3>2. x \in WalkLo(0, n, lo) .. wh
      BY <1>7, <2>1, <3>1
    <3> QED BY <1>10, <2>2, <3>2
  <2>4. CASE i > n
    <3>1. i \in n + 1 .. L /\ i - n \in 1 .. L - n /\ n + (i - n) = i
      BY <1>1, <1>10, <2>4
    <3>2. i - n \in 1 .. Len(R) /\ R[i - n] = ranges[i]
      BY <1>9, <3>1
    <3>3. x > wh + 1
      BY <1>3, <1>7, <1>10, <2>1, <2>2, <3>1
    <3> QED BY <2>1, <2>2, <3>2, <3>3
  <2> QED BY <1>1, <1>10, <2>3, <2>4
<1>13. ASSUME NEW x \in WalkLo(0, n, lo) .. wh, x > end PROVE x \in WaitingIds
  <2>1. x \notin lo .. end
    BY <1>1, <1>10, <1>13
  <2>2. PICK i \in 0 + 1 .. n : x \in ranges[i].lo .. ranges[i].hi
    BY <1>7, <2>1
  <2>3. i \in 1 .. L
    BY <1>1, <1>10
  <2> QED BY <2>2, <2>3 DEF WaitingIds
<1>14. wh \in Ledger!Reach(WaitingIds, end)
  <2>1. wh >= end /\ (wh = end \/ wh > end)
    BY <1>1, <1>7, <1>10
  <2>2. wh > end => wh \in WaitingIds
    BY <1>1, <1>2, <1>7, <1>10, <1>13
  <2>3. (end + 1) .. wh \subseteq WaitingIds
    <3> SUFFICES ASSUME NEW x \in (end + 1) .. wh PROVE x \in WaitingIds
      OBVIOUS
    <3>1. x > end /\ x \in WalkLo(0, n, lo) .. wh
      <4>1. lo \in Int
        BY <1>1, <1>2
      <4> QED BY <1>1, <1>2, <1>7, <1>10, <4>1
    <3> QED BY <1>13, <3>1
  <2>4. wh + 1 \notin WaitingIds
    BY <1>10, <1>12
  <2> QED BY <2>1, <2>2, <2>3, <2>4 DEF Ledger!Reach
<1>15. ASSUME NEW x \in WaitingIds' PROVE x \in WaitingIds /\ x \notin 1 .. wh
  <2>1. PICK i \in 1 .. L - n : x \in R[i].lo .. R[i].hi
    BY <1>8, <1>9 DEF WaitingIds
  <2>2. /\ n + i \in n + 1 .. L /\ n + i \in 1 .. L /\ R[i] = ranges[n + i]
    BY <1>9
  <2>3. wh + 1 < ranges[n + i].lo /\ ranges[n + i].lo \in Int
    BY <1>3, <1>7, <2>2
  <2>4. x \notin 1 .. wh
    BY <1>10, <2>1, <2>2, <2>3
  <2> QED BY <2>1, <2>2, <2>4 DEF WaitingIds
<1>16. ASSUME NEW x \in WaitingIds, x \notin 1 .. wh PROVE x \in WaitingIds'
  <2>1. x \in Int /\ x > wh
    BY <1>1, <1>10, <1>12, <1>16
  <2>2. \E i \in 1 .. Len(R) : x \in R[i].lo .. R[i].hi
    BY <1>10, <1>12, <2>1
  <2> QED BY <1>8, <2>2 DEF WaitingIds
<1> QED BY <1>8, <1>11, <1>14, <1>15, <1>16

(* A range the frontier has passed already changes nothing.                  *)
LEMMA RecordPassed ==
    ASSUME NEW start, NEW end, end <= acked, RecordCompleted(start, end)
    PROVE  UNCHANGED <<acked, ranges>>
  BY DEF RecordCompleted

-------------------------------------------------------------------------------
(* Batches *)

(* A batch whose range claims exactly its ids.                               *)
OwnBatch == {b \in Batch : b.lo <= b.hi /\ b.ids = b.lo .. b.hi}
Batches == /\ builder \in [Keys -> OwnBatch \cup {EmptyBuilder}]
           /\ queue \in [Keys -> Seq(OwnBatch)]
Typed == /\ nextId \in 1 .. (MaxId + 1)
         /\ appending \subseteq [id : Ids, key : Keys]
         /\ delivered \subseteq Ids /\ failed \subseteq Ids

LEMMA OwnFields ==
    ASSUME NEW b \in OwnBatch
    PROVE  /\ b.lo \in Ids /\ b.hi \in Ids /\ b.lo \in Int /\ b.hi \in Int /\ b.lo <= b.hi
           /\ b.ids = b.lo .. b.hi /\ b.ids \subseteq Ids /\ b.ids # {} /\ b # EmptyBuilder
<1>1. /\ b.lo \in Ids /\ b.hi \in Ids /\ b.lo \in Int /\ b.hi \in Int /\ b.lo <= b.hi
      /\ b.ids = b.lo .. b.hi /\ b.ids \subseteq Ids
  BY DEF OwnBatch, Batch, Ids
<1>2. b.lo \in b.ids
  BY <1>1
<1>3. EmptyBuilder.ids = {}
  BY DEF EmptyBuilder
<1> QED BY <1>1, <1>2, <1>3

LEMMA IsOwn ==
    ASSUME NEW lo \in Ids, NEW hi \in Ids, lo <= hi
    PROVE  [lo |-> lo, hi |-> hi, ids |-> lo .. hi] \in OwnBatch
<1>1. lo .. hi \subseteq Ids
  BY BatchingAssumption DEF Ids
<1>2. PICK ids \in SUBSET Ids : ids = lo .. hi
  BY <1>1
<1>3. PICK r : r = [lo |-> lo, hi |-> hi, ids |-> ids]
  OBVIOUS
<1>4. r \in Batch /\ r.lo = lo /\ r.hi = hi /\ r.ids = ids
  BY <1>3 DEF Batch
<1>5. r \in OwnBatch
  BY <1>2, <1>4 DEF OwnBatch
<1> QED BY <1>2, <1>3, <1>5

(* The id that follows its builder keeps the range exact; a builder it does  *)
(* not follow is not empty.                                                 *)
LEMMA GrowOwn ==
    ASSUME NEW b \in OwnBatch \cup {EmptyBuilder}, NEW id \in Ids, Follows(b, id)
    PROVE  Grow(b, id) \in OwnBatch
<1>1. id \in Int /\ id >= 1
  BY DEF Ids
<1>2. CASE b = EmptyBuilder
  <2>1. Grow(b, id) = [lo |-> id, hi |-> id, ids |-> {id}]
    BY <1>1, <1>2 DEF Grow, EmptyBuilder
  <2>2. id .. id = {id}
    BY <1>1
  <2>3. [lo |-> id, hi |-> id, ids |-> id .. id] \in OwnBatch
    <3>1. PICK j \in Ids : j = id /\ id <= j
      BY <1>1
    <3>2. [lo |-> id, hi |-> j, ids |-> id .. j] \in OwnBatch
      BY <3>1, IsOwn
    <3> QED BY <3>1, <3>2
  <2> QED BY <2>1, <2>2, <2>3
<1>3. CASE b \in OwnBatch
  <2>1. /\ b.lo \in Ids /\ b.hi \in Ids /\ b.lo \in Int /\ b.hi \in Int /\ b.lo <= b.hi
        /\ b.ids = b.lo .. b.hi /\ b.ids \subseteq Ids /\ b.ids # {}
    BY <1>3, OwnFields
  <2>2. id = b.hi + 1 /\ b.lo >= 1
    BY <2>1 DEF Follows, Ids
  <2>3. Grow(b, id) = [lo |-> b.lo, hi |-> id, ids |-> b.ids \cup {id}]
    <3>1. (IF b.lo = 0 \/ id < b.lo THEN id ELSE b.lo) = b.lo
      BY <1>1, <2>1, <2>2
    <3>2. (IF id > b.hi THEN id ELSE b.hi) = id
      BY <1>1, <2>1, <2>2
    <3> QED BY <3>1, <3>2, Zenon DEF Grow
  <2>4. b.lo .. id = b.ids \cup {id}
    BY <1>1, <2>1, <2>2
  <2>5. b.lo <= id
    BY <1>1, <2>1, <2>2
  <2>6. [lo |-> b.lo, hi |-> id, ids |-> b.lo .. id] \in OwnBatch
    BY <2>1, <2>5, IsOwn
  <2> QED BY <2>3, <2>4, <2>6
<1> QED BY <1>2, <1>3

LEMMA EmptyFollows == ASSUME NEW id PROVE Follows(EmptyBuilder, id)
  BY DEF Follows, EmptyBuilder

LEMMA BatchesMerge ==
    ASSUME Batches, NEW a \in [id : Ids, key : Keys], NEW flush, Merge(a, flush)
    PROVE  Batches'
<1> DEFINE k == a.key
           old == builder[k]
           q == IF Follows(old, a.id) THEN queue[k] ELSE Append(queue[k], old)
           b == Grow(IF Follows(old, a.id) THEN old ELSE EmptyBuilder, a.id)
<1>1. k \in Keys /\ a.id \in Ids /\ old \in OwnBatch \cup {EmptyBuilder} /\ queue[k] \in Seq(OwnBatch)
  BY DEF Batches
<1>2. b \in OwnBatch
  <2>1. PICK o : o = IF Follows(old, a.id) THEN old ELSE EmptyBuilder
    OBVIOUS
  <2>2. o \in OwnBatch \cup {EmptyBuilder} /\ Follows(o, a.id)
    BY <1>1, <2>1, EmptyFollows
  <2> QED BY <1>1, <2>1, <2>2, GrowOwn
<1>3. q \in Seq(OwnBatch)
  <2>1. ~Follows(old, a.id) => old \in OwnBatch
    BY <1>1, EmptyFollows
  <2> QED BY <1>1, <2>1, AppendProperties
<1>4. \/ /\ queue' = [queue EXCEPT ![k] = Append(q, b)]
         /\ builder' = [builder EXCEPT ![k] = EmptyBuilder]
      \/ /\ queue' = [queue EXCEPT ![k] = q]
         /\ builder' = [builder EXCEPT ![k] = b]
  BY DEF Merge
<1>5. Append(q, b) \in Seq(OwnBatch)
  <2> HIDE DEF q, b
  <2> QED BY <1>2, <1>3, AppendProperties
<1> HIDE DEF q, b, k
<1> QED BY <1>1, <1>2, <1>3, <1>4, <1>5 DEF Batches

LEMMA BatchesSeal == ASSUME Batches, NEW k \in Keys, Seal(k) PROVE Batches'
<1>1. builder[k] \in OwnBatch
  BY DEF Batches, Seal, EmptyBuilder
<1>2. queue[k] \in Seq(OwnBatch)
  BY DEF Batches
<1>3. Append(queue[k], builder[k]) \in Seq(OwnBatch)
  BY <1>1, <1>2, AppendProperties
<1> QED BY <1>3 DEF Batches, Seal

LEMMA BatchesDeliver == ASSUME Batches, NEW k \in Keys, Deliver(k) PROVE Batches'
<1>1. queue[k] \in Seq(OwnBatch) /\ queue[k] # <<>>
  BY DEF Batches, Deliver
<1>2. Tail(queue[k]) \in Seq(OwnBatch)
  BY <1>1, HeadTailProperties
<1>3. queue' = [queue EXCEPT ![k] = Tail(queue[k])] /\ builder' = builder
  BY DEF Deliver
<1> QED BY <1>2, <1>3 DEF Batches

LEMMA BatchesGiveUp ==
    ASSUME Batches, NEW k \in Keys, NEW i \in 1 .. Len(queue[k]), GiveUp(k, i)
    PROVE  Batches'
<1>1. queue[k] \in Seq(OwnBatch) /\ Len(queue[k]) \in Nat
  BY DEF Batches
<1>2. \A j \in 1 .. Len(queue[k]) : queue[k][j] \in OwnBatch
  BY <1>1, ElementOfSeq
<1>3. PICK p \in Int, r \in Int, n \in Int : p = i - 1 /\ r = i + 1 /\ n = Len(queue[k])
  BY <1>1
<1>4. SubSeq(queue[k], 1, p) \in Seq(OwnBatch)
  <2>1. \A j \in 1 .. p : queue[k][j] \in OwnBatch
    BY <1>1, <1>2, <1>3
  <2> QED BY <2>1, SubSeqProperties, 1 \in Int
<1>5. SubSeq(queue[k], r, n) \in Seq(OwnBatch)
  <2>1. \A j \in r .. n : queue[k][j] \in OwnBatch
    BY <1>1, <1>2, <1>3
  <2> QED BY <2>1, SubSeqProperties
<1>6. SubSeq(queue[k], 1, p) \o SubSeq(queue[k], r, n) \in Seq(OwnBatch)
  BY <1>4, <1>5, ConcatProperties
<1>7. /\ queue' = [queue EXCEPT ![k] = SubSeq(queue[k], 1, p) \o SubSeq(queue[k], r, n)]
      /\ builder' = builder
  BY <1>3 DEF GiveUp
<1> QED BY <1>6, <1>7 DEF Batches

-------------------------------------------------------------------------------
(* The ledger *)

(* A delivery either changes nothing or settles the range of its batch.      *)
LEMMA LedgerDeliver ==
    ASSUME Listed, DeliveredKept, Batches, NEW k \in Keys, Deliver(k)
    PROVE  /\ Listed' /\ DeliveredKept'
           /\ Ledger!Next \/ UNCHANGED <<acked, WaitingIds>>
<1>1. PICK b \in OwnBatch : /\ RecordCompleted(b.lo, b.hi)
                            /\ delivered' = delivered \cup b.ids
  <2>1. Head(queue[k]) \in OwnBatch
    BY HeadTailProperties DEF Batches, Deliver
  <2> QED BY <2>1 DEF Deliver
<1>2. PICK lo \in Ids, hi \in Ids :
         /\ lo <= hi /\ RecordCompleted(lo, hi) /\ delivered' = delivered \cup (lo .. hi)
  BY <1>1, OwnFields
<1>3. lo \in Int /\ hi \in Int /\ acked \in Nat /\ lo >= 1
  BY DEF Ids, Listed
<1>4. CASE hi <= acked
  <2>1. acked' = acked /\ ranges' = ranges
    BY <1>2, <1>4, RecordPassed
  <2>2. WaitingIds' = WaitingIds
    BY <2>1 DEF WaitingIds
  <2>3. Listed'
    BY <2>1 DEF Listed, Sorted, Beyond
  <2>4. lo .. hi \subseteq 1 .. acked
    BY <1>3, <1>4
  <2>5. DeliveredKept'
    BY <1>2, <2>1, <2>2, <2>4 DEF DeliveredKept
  <2> QED BY <2>1, <2>2, <2>3, <2>5
<1>5. CASE hi > acked /\ lo > acked + 1
  <2>1. Listed' /\ acked' = acked /\ WaitingIds' = WaitingIds \cup (lo .. hi)
    BY <1>2, <1>5, RecordWaits
  <2>2. DeliveredKept'
    BY <1>2, <2>1 DEF DeliveredKept
  <2>3. Ledger!Settle(lo, hi)
    BY <1>5, <2>1 DEF Ledger!Settle, Ledger!Waits
  <2> QED BY <1>2, <2>1, <2>2, <2>3 DEF Ledger!Next
<1>6. CASE hi > acked /\ ~(lo > acked + 1)
  <2>1. /\ Listed' /\ acked' \in Ledger!Reach(WaitingIds, hi)
        /\ WaitingIds' = WaitingIds \ (1 .. acked')
    <3>1. lo <= acked + 1
      BY <1>3, <1>6
    <3> QED BY <1>2, <1>6, <3>1, RecordAdvances
  <2>2. acked' \in Int /\ acked' >= hi /\ (hi + 1) .. acked' \subseteq WaitingIds
    BY <2>1 DEF Ledger!Reach, Listed
  <2>3. Ledger!Settle(lo, hi)
    BY <1>6, <2>1 DEF Ledger!Settle, Ledger!Waits
  <2>4. ASSUME NEW x PROVE x \in delivered' <=> x \in (1 .. acked') \cup WaitingIds'
    <3>1. x \in delivered' <=> x \in 1 .. acked \/ x \in WaitingIds \/ x \in lo .. hi
      BY <1>2 DEF DeliveredKept
    <3>2. x \in 1 .. acked' => x \in 1 .. acked \/ x \in lo .. hi \/ x \in (hi + 1) .. acked'
      BY <1>3, <1>6, <2>2
    <3>3. x \in 1 .. acked \/ x \in lo .. hi => x \in 1 .. acked'
      BY <1>3, <1>6, <2>2
    <3> QED BY <2>1, <2>2, <3>1, <3>2, <3>3
  <2>5. DeliveredKept'
    BY <2>4 DEF DeliveredKept
  <2> QED BY <1>2, <2>1, <2>3, <2>5 DEF Ledger!Next
<1> QED BY <1>3, <1>4, <1>5, <1>6

-------------------------------------------------------------------------------
(* The invariant *)

BatchingInv == Typed /\ Batches /\ Listed /\ DeliveredKept

LEMMA BatchingInit == Init => BatchingInv /\ Ledger!Init
<1> SUFFICES ASSUME Init PROVE BatchingInv /\ Ledger!Init
  OBVIOUS
<1> USE DEF Init
<1>1. Typed /\ Batches
  BY BatchingAssumption DEF Typed, Batches
<1>2. Listed /\ WaitingIds = {}
  BY BatchingAssumption DEF Listed, Sorted, Beyond, WaitingIds
<1>3. DeliveredKept /\ Ledger!Init
  BY <1>2 DEF DeliveredKept, Ledger!Init
<1> QED BY <1>1, <1>2, <1>3 DEF BatchingInv

(* Outside a delivery the ledger is left alone.                              *)
Aside == UNCHANGED <<acked, ranges, delivered>>
LEMMA LedgerAside ==
    ASSUME Listed, DeliveredKept, Aside
    PROVE  Listed' /\ DeliveredKept' /\ UNCHANGED <<acked, WaitingIds>>
<1>1. WaitingIds' = WaitingIds
  BY DEF Aside, WaitingIds
<1> QED BY <1>1 DEF Aside, Listed, Sorted, Beyond, DeliveredKept

Kept == BatchingInv' /\ (Ledger!Next \/ UNCHANGED <<acked, WaitingIds>>)

LEMMA BatchingNext == ASSUME BatchingInv, [Next]_vars PROVE Kept
<1> USE DEF BatchingInv, Kept
<1>1. ASSUME NEW k \in Keys, Begin(k) PROVE Kept
  <2>1. Typed'
    <3>1. nextId \in Ids /\ nextId + 1 \in 1 .. (MaxId + 1)
      BY <1>1, BatchingAssumption DEF Begin, Typed, Ids
    <3> QED BY <1>1, <3>1 DEF Begin, Typed
  <2> QED BY <1>1, <2>1, LedgerAside DEF Begin, Aside, Batches
<1>2. ASSUME NEW k \in Keys, Seal(k) PROVE Kept
  <2>1. Typed'
    BY <1>2 DEF Seal, Typed
  <2> QED BY <1>2, <2>1, BatchesSeal, LedgerAside DEF Seal, Aside
<1>3. ASSUME NEW k \in Keys, Deliver(k) PROVE Kept
  <2>1. Head(queue[k]).ids \subseteq Ids
    <3>1. Head(queue[k]) \in OwnBatch
      BY <1>3, HeadTailProperties DEF Batches, Deliver
    <3> QED BY <3>1, OwnFields
  <2>2. Typed'
    BY <1>3, <2>1 DEF Deliver, Typed
  <2> QED BY <1>3, <2>2, BatchesDeliver, LedgerDeliver
<1>4. ASSUME NEW k \in Keys, NEW i \in 1 .. Len(queue[k]), GiveUp(k, i) PROVE Kept
  <2>1. queue[k][i].ids \subseteq Ids
    <3>1. queue[k][i] \in OwnBatch
      BY ElementOfSeq DEF Batches
    <3> QED BY <3>1, OwnFields
  <2>2. Typed'
    BY <1>4, <2>1 DEF GiveUp, Typed
  <2> QED BY <1>4, <2>2, BatchesGiveUp, LedgerAside DEF GiveUp, Aside
<1>5. ASSUME NEW a \in appending, NEW flush \in BOOLEAN, Merge(a, flush) PROVE Kept
  <2>1. a \in [id : Ids, key : Keys]
    BY DEF Typed
  <2>2. Typed'
    BY <1>5 DEF Merge, Typed
  <2>3. Aside
    BY <1>5 DEF Merge, Aside
  <2> QED BY <1>5, <2>1, <2>2, <2>3, BatchesMerge, LedgerAside
<1>6. ASSUME NEW a \in appending, AddFails(a) PROVE Kept
  <2>1. a.id \in Ids
    BY DEF Typed
  <2>2. Typed'
    BY <1>6, <2>1 DEF AddFails, Typed
  <2> QED BY <1>6, <2>2, LedgerAside DEF AddFails, Aside, Batches
<1>7. CASE UNCHANGED vars
  <2>1. Typed' /\ Batches' /\ Aside
    BY <1>7 DEF vars, Typed, Batches, Aside
  <2> QED BY <2>1, LedgerAside
<1> QED BY <1>1, <1>2, <1>3, <1>4, <1>5, <1>6, <1>7 DEF Next, Arrive

LEMMA BatchingAlways == Spec => []BatchingInv
<1>1. BatchingInv /\ [Next]_vars => BatchingInv'
  BY BatchingNext DEF Kept
<1> QED BY <1>1, BatchingInit, PTL DEF Spec

(* Every component of the model has its type.                                *)
THEOREM TypeCorrect == Spec => []TypeOK
<1>1. BatchingInv => TypeOK
  <2> SUFFICES ASSUME BatchingInv PROVE TypeOK
    OBVIOUS
  <2>1. OwnBatch \subseteq Batch
    BY DEF OwnBatch
  <2>2. Seq(OwnBatch) \subseteq Seq(Batch)
    BY <2>1, SeqMonotonic
  <2>3. builder \in [Keys -> Batch \cup {EmptyBuilder}] /\ queue \in [Keys -> Seq(Batch)]
    BY <2>1, <2>2 DEF BatchingInv, Batches
  <2> QED BY <2>3 DEF BatchingInv, Typed, Listed, TypeOK
<1> QED BY <1>1, BatchingAlways, PTL

(* A batch claims the ids it holds and no other, however the adds of all     *)
(* keys interleave on their way to the builders.                            *)
THEOREM RangeIsOwnAlways == Spec => []RangeIsOwn
<1>1. BatchingInv => RangeIsOwn
  <2> SUFFICES ASSUME BatchingInv, NEW k \in Keys, NEW i \in 1 .. Len(queue[k])
               PROVE  queue[k][i].ids = queue[k][i].lo .. queue[k][i].hi
    BY DEF RangeIsOwn
  <2>1. queue[k][i] \in OwnBatch
    BY ElementOfSeq DEF BatchingInv, Batches
  <2> QED BY <2>1, OwnFields
<1> QED BY <1>1, BatchingAlways, PTL

(* The ids delivered are those below the frontier and those in the list.     *)
THEOREM DeliveredKeptAlways == Spec => []DeliveredKept
<1>1. BatchingInv => DeliveredKept
  BY DEF BatchingInv
<1> QED BY <1>1, BatchingAlways, PTL

(* The checkpoint number covers delivered ids only.                          *)
THEOREM AckedDeliveredAlways == Spec => []AckedDelivered
<1>1. BatchingInv => AckedDelivered
  BY DEF BatchingInv, DeliveredKept, AckedDelivered
<1> QED BY <1>1, BatchingAlways, PTL

(* The sorted list with its merges implements the frontier on sets of        *)
(* AckFrontier: what it does is what the set specification allows.           *)
THEOREM FrontierImplemented == Spec => ImplementsFrontier
<1>1. BatchingInv /\ [Next]_vars => [Ledger!Next]_<<acked, WaitingIds>>
  BY BatchingNext DEF Kept
<1>2. Init => Ledger!Init
  BY BatchingInit
<1>3. Spec => Ledger!Init /\ [][Ledger!Next]_<<acked, WaitingIds>>
  BY <1>1, <1>2, BatchingAlways, PTL DEF Spec
<1> QED BY <1>3 DEF ImplementsFrontier, Ledger!Spec, Ledger!absVars

===============================================================================
