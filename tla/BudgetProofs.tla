----------------------------- MODULE BudgetProofs -----------------------------
(***************************************************************************)
(* Theorems about Budget for any number of threads, calls and packages and *)
(* any limits: types (TypeCorrect), the exactness of the byte counters     *)
(* (PoolsExactAlways), the bounds (WithinBudgetAlways) and the fate of      *)
(* every accepted log (ResultsCompleteAlways).                             *)
(*                                                                         *)
(* The counters of the code are sums over threads and queues.  The first    *)
(* half is about such sums; the steps then state what the moving thread      *)
(* changes in its own terms (AdderBalance, WorkerBalance, SenderBalance),    *)
(* and AdderBooks, WorkerBooks and SenderBooks carry that to the sums.      *)
(***************************************************************************)
EXTENDS Budget, Integers, SequenceTheorems, FiniteSetTheorems, FunctionTheorems,
        WellFoundedInduction, TLAPS

-------------------------------------------------------------------------------
(* Sums *)

Column(f, x) == {x} \X (1 .. f[x])
Part(f, A) == [x \in A |-> f[x]]
Via(g, r, S) == [x \in S |-> g[r[x]]]

LEMMA ColumnSize ==
    ASSUME NEW x, NEW n \in Nat
    PROVE  IsFiniteSet({x} \X (1 .. n)) /\ Cardinality({x} \X (1 .. n)) = n
<1>1. IsFiniteSet(1 .. n) /\ Cardinality(1 .. n) = n
  BY FS_Interval
<1>2. IsFiniteSet({x}) /\ Cardinality({x}) = 1
  BY FS_Singleton
<1>3. IsFiniteSet({x} \X (1 .. n)) /\ Cardinality({x} \X (1 .. n)) = 1 * n
  BY <1>1, <1>2, FS_Product
<1> QED
  BY <1>3

LEMMA UnitsFinite ==
    ASSUME NEW S, IsFiniteSet(S), NEW f \in [S -> Nat]
    PROVE  IsFiniteSet(Units(f))
<1> DEFINE T == {Column(f, x) : x \in S}
           g == [x \in S |-> Column(f, x)]
<1>1. g \in Surjection(S, T)
  <2> HIDE DEF T
  <2>1. g \in [S -> T] /\ \A C \in T : \E x \in S : g[x] = C
    BY DEF T
  <2> QED BY <2>1 DEF Surjection
<1>2. IsFiniteSet(T)
  <2>1. ASSUME NEW U, NEW h \in Surjection(S, U) PROVE IsFiniteSet(U)
    BY <2>1, FS_Surjection
  <2> HIDE DEF T, g
  <2> QED BY <1>1, <2>1
<1>3. ASSUME NEW x \in S PROVE IsFiniteSet(Column(f, x))
  <2>1. f[x] \in Nat
    OBVIOUS
  <2> QED BY <2>1, ColumnSize DEF Column
<1>4. Units(f) = UNION T
  BY DEF Units, Column
<1> QED
  BY <1>2, <1>3, <1>4, FS_UNION

LEMMA SumNat ==
    ASSUME NEW S, IsFiniteSet(S), NEW f \in [S -> Nat]
    PROVE  Sum(f) \in Nat
BY UnitsFinite, FS_CardinalityType DEF Sum

LEMMA DisjointUnion ==
    ASSUME NEW A, IsFiniteSet(A), NEW B, IsFiniteSet(B), A \cap B = {}
    PROVE  Cardinality(A \cup B) = Cardinality(A) + Cardinality(B)
<1>1. Cardinality(A) \in Nat /\ Cardinality(B) \in Nat
  BY FS_CardinalityType
<1>2. Cardinality(A \cap B) = 0
  BY FS_EmptySet
<1>3. Cardinality(A \cup B) = Cardinality(A) + Cardinality(B) - Cardinality(A \cap B)
  BY FS_Union
<1> QED
  BY <1>1, <1>2, <1>3

(* Two functions that differ at x at most.                                   *)
LEMMA SumUpdate ==
    ASSUME NEW S, IsFiniteSet(S), NEW f \in [S -> Nat], NEW g \in [S -> Nat],
           NEW x \in S, \A y \in S : y # x => g[y] = f[y]
    PROVE  Sum(g) + f[x] = Sum(f) + g[x]
<1> DEFINE Rest == UNION {Column(f, y) : y \in S \ {x}}
<1>1. f[x] \in Nat /\ g[x] \in Nat
  OBVIOUS
<1>2. Units(f) = Rest \cup Column(f, x) /\ Rest \cap Column(f, x) = {}
  BY DEF Units, Column
<1>3. Units(g) = Rest \cup Column(g, x) /\ Rest \cap Column(g, x) = {}
  BY DEF Units, Column
<1>4. IsFiniteSet(Rest)
  <2>1. Rest \subseteq Units(f)
    BY <1>2
  <2> QED BY <2>1, UnitsFinite, FS_Subset
<1>5. IsFiniteSet(Column(f, x)) /\ Cardinality(Column(f, x)) = f[x]
  BY <1>1, ColumnSize DEF Column
<1>6. IsFiniteSet(Column(g, x)) /\ Cardinality(Column(g, x)) = g[x]
  BY <1>1, ColumnSize DEF Column
<1> HIDE DEF Rest
<1>7. Cardinality(Rest) \in Nat
  BY <1>4, FS_CardinalityType
<1>8. Sum(f) = Cardinality(Rest) + f[x]
  BY <1>2, <1>4, <1>5, DisjointUnion DEF Sum
<1>9. Sum(g) = Cardinality(Rest) + g[x]
  BY <1>3, <1>4, <1>6, DisjointUnion DEF Sum
<1> QED
  BY <1>1, <1>7, <1>8, <1>9

LEMMA SumZero ==
    ASSUME NEW S, NEW f \in [S -> Nat], \A x \in S : f[x] = 0
    PROVE  Sum(f) = 0
<1>1. \A x \in S : 1 .. f[x] = {}
  OBVIOUS
<1>2. Units(f) = {}
  BY <1>1 DEF Units
<1> QED
  BY <1>2, FS_EmptySet DEF Sum

LEMMA SumPointwise ==
    ASSUME NEW S, IsFiniteSet(S), NEW f \in [S -> Nat], NEW g \in [S -> Nat],
           \A x \in S : f[x] <= g[x]
    PROVE  Sum(f) <= Sum(g)
<1>1. \A x \in S : f[x] \in Nat /\ g[x] \in Nat /\ 1 .. f[x] \subseteq 1 .. g[x]
  OBVIOUS
<1>2. Units(f) \subseteq Units(g)
  BY <1>1 DEF Units
<1> QED
  BY <1>2, UnitsFinite, FS_Subset DEF Sum

LEMMA SumAtLeast ==
    ASSUME NEW S, IsFiniteSet(S), NEW f \in [S -> Nat], NEW x \in S
    PROVE  f[x] <= Sum(f)
<1>1. f[x] \in Nat
  OBVIOUS
<1>2. Column(f, x) \subseteq Units(f)
  BY DEF Units, Column
<1>3. Cardinality(Column(f, x)) = f[x]
  BY <1>1, ColumnSize DEF Column
<1>4. Cardinality(Column(f, x)) <= Cardinality(Units(f))
  BY <1>2, UnitsFinite, FS_Subset
<1> QED
  BY <1>3, <1>4 DEF Sum

(* The sum of two functions, and of a function split in two.                 *)
LEMMA SumSplit ==
    ASSUME NEW A, IsFiniteSet(A), NEW B, IsFiniteSet(B), A \cap B = {},
           NEW f \in [A \cup B -> Nat]
    PROVE  Sum(f) = Sum(Part(f, A)) + Sum(Part(f, B))
<1>0. PICK g, h : g = [x \in A |-> f[x]] /\ h = [x \in B |-> f[x]]
  OBVIOUS
<1>1. Units(f) = Units(g) \cup Units(h) /\ Units(g) \cap Units(h) = {}
  BY <1>0 DEF Units
<1>2. g \in [A -> Nat] /\ h \in [B -> Nat]
  BY <1>0
<1>3. IsFiniteSet(Units(g)) /\ IsFiniteSet(Units(h))
  BY <1>2, UnitsFinite
<1>4. Sum(f) = Sum(g) + Sum(h)
  BY <1>1, <1>3, DisjointUnion DEF Sum
<1> QED
  BY <1>0, <1>4 DEF Part

(* Renaming the places with a bijection r.                                   *)
LEMMA SumRenamed ==
    ASSUME NEW S, IsFiniteSet(S), NEW T, NEW r \in [S -> T],
           \A x, y \in S : r[x] = r[y] => x = y, \A z \in T : \E x \in S : r[x] = z,
           NEW g \in [T -> Nat]
    PROVE  Sum(g) = Sum(Via(g, r, S))
<1>0. PICK f \in [S -> Nat] : f = [x \in S |-> g[r[x]]]
  OBVIOUS
<1> DEFINE R == [u \in Units(f) |-> <<r[u[1]], u[2]>>]
<1>1. \A u \in Units(f) : \E x \in S : \E n \in 1 .. f[x] : u = <<x, n>>
  BY DEF Units
<1>2. \A x \in S : \A n \in 1 .. f[x] : <<x, n>> \in Units(f) /\ R[<<x, n>>] = <<r[x], n>>
  BY DEF Units
<1>3. \A u \in Units(g) : \E x \in S : \E n \in 1 .. f[x] : u = <<r[x], n>>
  BY <1>0 DEF Units
<1>4. \A x \in S : \A n \in 1 .. f[x] : <<r[x], n>> \in Units(g)
  BY <1>0 DEF Units
<1>5. R \in [Units(f) -> Units(g)]
  <2>1. ASSUME NEW u \in Units(f) PROVE <<r[u[1]], u[2]>> \in Units(g)
    BY <1>1, <1>4
  <2> QED BY <2>1
<1> HIDE DEF R
<1>6. ASSUME NEW u \in Units(f), NEW v \in Units(f), R[u] = R[v] PROVE u = v
  <2>1. PICK x \in S : \E n \in 1 .. f[x] : u = <<x, n>>
    BY <1>1
  <2>a. PICK n \in 1 .. f[x] : u = <<x, n>>
    BY <2>1
  <2>2. PICK y \in S : \E m \in 1 .. f[y] : v = <<y, m>>
    BY <1>1
  <2>b. PICK m \in 1 .. f[y] : v = <<y, m>>
    BY <2>2
  <2>3. <<r[x], n>> = <<r[y], m>>
    BY <1>2, <1>6, <2>a, <2>b
  <2>4. x = y /\ n = m
    BY <2>3
  <2> QED BY <2>a, <2>b, <2>4
<1>7. ASSUME NEW z \in Units(g) PROVE \E u \in Units(f) : R[u] = z
  <2>1. PICK x \in S : \E n \in 1 .. f[x] : z = <<r[x], n>>
    BY <1>3
  <2>2. PICK n \in 1 .. f[x] : z = <<r[x], n>>
    BY <2>1
  <2>3. <<x, n>> \in Units(f) /\ R[<<x, n>>] = z
    BY <1>2, <2>2
  <2> QED BY <2>3
<1>8. R \in Bijection(Units(f), Units(g))
  <2>1. R \in Injection(Units(f), Units(g))
    <3>1. \A u, v \in Units(f) : R[u] = R[v] => u = v
      BY <1>6
    <3> QED BY <1>5, <3>1, Fun_IsInj
  <2>2. R \in Surjection(Units(f), Units(g))
    BY <1>5, <1>7 DEF Surjection
  <2> QED BY <2>1, <2>2 DEF Bijection
<1>9. ExistsBijection(Units(f), Units(g))
  BY <1>8 DEF ExistsBijection
<1> QED
  BY <1>0, <1>9, UnitsFinite, FS_Bijection DEF Sum, Via

-------------------------------------------------------------------------------
(* Sums of sequences *)

LEMMA SumSeq ==
    ASSUME NEW q \in Seq(Nat)
    PROVE  Sum(q) \in Nat
<1>1. q \in [1 .. Len(q) -> Nat] /\ IsFiniteSet(1 .. Len(q))
  BY LenProperties, FS_Interval, Len(q) \in Int, 1 \in Int
<1> QED
  BY <1>1, SumNat

LEMMA SumEmpty == Sum(<<>>) = 0
<1>1. Units(<<>>) = {}
  BY DEF Units
<1> QED
  BY <1>1, FS_EmptySet DEF Sum

LEMMA SumSingle ==
    ASSUME NEW n \in Nat
    PROVE  Sum(<<n>>) = n
<1>1. Units(<<n>>) = {1} \X (1 .. n)
  BY DEF Units
<1> QED
  BY <1>1, ColumnSize DEF Sum

LEMMA SumConcat ==
    ASSUME NEW p \in Seq(Nat), NEW q \in Seq(Nat)
    PROVE  Sum(p \o q) = Sum(p) + Sum(q)
<1>1. PICK m \in Nat, n \in Nat : m = Len(p) /\ n = Len(q)
  BY LenProperties
<1> DEFINE A == 1 .. m
           B == m + 1 .. m + n
           h == [i \in B |-> q[i - m]]
           r == [i \in 1 .. n |-> i + m]
<1>2. p \in [A -> Nat] /\ q \in [1 .. n -> Nat]
  BY <1>1, LenProperties
<1>3. /\ p \o q \in [1 .. m + n -> Nat]
      /\ \A i \in 1 .. m + n : (p \o q)[i] = IF i <= m THEN p[i] ELSE q[i - m]
  <2>1. p \o q \in Seq(Nat) /\ Len(p \o q) = m + n
    BY <1>1, ConcatProperties
  <2> QED BY <1>1, <2>1, ConcatProperties, LenProperties
<1>4. 1 .. m + n = A \cup B /\ A \cap B = {} /\ IsFiniteSet(1 .. m + n) /\ IsFiniteSet(1 .. n)
  <2>1. 1 .. m + n = A \cup B /\ A \cap B = {}
    OBVIOUS
  <2>2. m + n \in Int /\ n \in Int /\ 1 \in Int
    OBVIOUS
  <2> HIDE DEF A, B
  <2> QED BY <2>1, <2>2, FS_Interval
<1>5. h \in [B -> Nat]
  BY <1>2
<1>6. Sum(p \o q) = Sum(p) + Sum(h)
  <2>1. PICK pq : pq = p \o q
    OBVIOUS
  <2>2. p = Part(pq, A)
    BY <1>2, <1>3, <2>1 DEF Part
  <2>3. h = Part(pq, B)
    BY <1>3, <2>1 DEF Part
  <2>4. pq \in [A \cup B -> Nat] /\ IsFiniteSet(A) /\ IsFiniteSet(B) /\ A \cap B = {}
    <3> HIDE DEF A, B
    <3> QED BY <1>3, <1>4, <2>1, FS_Subset
  <2>5. Sum(pq) = Sum(Part(pq, A)) + Sum(Part(pq, B))
    <3> HIDE DEF A, B
    <3> QED BY <2>4, SumSplit
  <2> HIDE DEF A, B, h
  <2> QED BY <2>1, <2>2, <2>3, <2>5
<1>7. Sum(h) = Sum(q)
  <2>1. r \in [1 .. n -> B] /\ \A i, j \in 1 .. n : r[i] = r[j] => i = j
    OBVIOUS
  <2>2. ASSUME NEW z \in B PROVE \E i \in 1 .. n : r[i] = z
    <3>1. z - m \in 1 .. n /\ r[z - m] = z
      OBVIOUS
    <3> QED BY <3>1
  <2>3. q = Via(h, r, 1 .. n)
    BY <1>2 DEF Via
  <2>4. PICK D : D = 1 .. n
    OBVIOUS
  <2>5. IsFiniteSet(D) /\ r \in [D -> B] /\ \A i, j \in D : r[i] = r[j] => i = j
    <3> HIDE DEF B, r
    <3> QED BY <1>4, <2>1, <2>4
  <2>6. \A z \in B : \E i \in D : r[i] = z
    <3> HIDE DEF B, r
    <3> QED BY <2>2, <2>4
  <2>7. Sum(h) = Sum(Via(h, r, D))
    <3> HIDE DEF B, h, r
    <3> QED BY <1>5, <2>5, <2>6, SumRenamed
  <2> HIDE DEF B, h, r
  <2> QED BY <2>3, <2>4, <2>7
<1> QED
  BY <1>6, <1>7

LEMMA SumAppend ==
    ASSUME NEW q \in Seq(Nat), NEW n \in Nat
    PROVE  Append(q, n) \in Seq(Nat) /\ Sum(Append(q, n)) = Sum(q) + n
<1>1. Append(q, n) = q \o <<n>> /\ <<n>> \in Seq(Nat) /\ Append(q, n) \in Seq(Nat)
  BY AppendIsConcat, AppendProperties
<1> QED
  BY <1>1, SumConcat, SumSingle

LEMMA SumTail ==
    ASSUME NEW q \in Seq(Nat), q # <<>>
    PROVE  Head(q) \in Nat /\ Tail(q) \in Seq(Nat) /\ Sum(q) = Head(q) + Sum(Tail(q))
<1>1. Head(q) \in Nat /\ Tail(q) \in Seq(Nat)
  BY HeadTailProperties
<1>2. q = <<Head(q)>> \o Tail(q)
  OBVIOUS
<1>3. <<Head(q)>> \in Seq(Nat)
  BY <1>1
<1>4. Sum(<<Head(q)>> \o Tail(q)) = Sum(<<Head(q)>>) + Sum(Tail(q))
  BY <1>1, <1>3, SumConcat
<1> QED
  BY <1>1, <1>2, <1>4, SumSingle

(* The same for the logs and the bytes of the members of a queue.            *)
LEMMA LogsEmpty == Logs(<<>>) = 0 /\ Mem(<<>>) = 0
<1>1. \A f : DOMAIN f = {} => Units(f) = {}
  BY DEF Units
<1> QED
  BY <1>1, FS_EmptySet DEF Logs, Mem, Sum

LEMMA LogsQueue ==
    ASSUME NEW S, \A x \in S : x.logs \in Nat, NEW q \in Seq(S)
    PROVE  /\ Logs(q) \in Nat
           /\ \A x \in S : Logs(Append(q, x)) = Logs(q) + x.logs
           /\ q # <<>> => Logs(q) = Head(q).logs + Logs(Tail(q))
<1> DEFINE f(p) == [i \in DOMAIN p |-> p[i].logs]
<1>1. ASSUME NEW p \in Seq(S) PROVE f(p) \in Seq(Nat) /\ Len(f(p)) = Len(p)
  BY <1>1, LenProperties, ElementOfSeq
<1>2. ASSUME NEW x \in S PROVE Logs(Append(q, x)) = Logs(q) + x.logs
  <2>1. Append(q, x) \in Seq(S) /\ x.logs \in Nat
    OBVIOUS
  <2>2. f(Append(q, x)) = Append(f(q), x.logs)
    BY <1>1, <2>1
  <2> QED BY <1>1, <2>1, <2>2, SumAppend DEF Logs
<1>3. ASSUME q # <<>> PROVE Logs(q) = Head(q).logs + Logs(Tail(q))
  <2>1. Head(q) \in S /\ Tail(q) \in Seq(S)
    BY <1>3, HeadTailProperties
  <2>2. f(q) # <<>> /\ Head(f(q)) = Head(q).logs /\ Tail(f(q)) = f(Tail(q))
    BY <1>1, <1>3, <2>1
  <2> QED BY <1>1, <2>1, <2>2, SumTail DEF Logs
<1>4. Logs(q) \in Nat
  BY <1>1, SumSeq DEF Logs
<1> QED
  BY <1>2, <1>3, <1>4

LEMMA MemQueue ==
    ASSUME NEW S, \A x \in S : x.mem \in Nat, NEW q \in Seq(S)
    PROVE  /\ Mem(q) \in Nat
           /\ \A x \in S : Mem(Append(q, x)) = Mem(q) + x.mem
           /\ q # <<>> => Mem(q) = Head(q).mem + Mem(Tail(q))
<1> DEFINE f(p) == [i \in DOMAIN p |-> p[i].mem]
<1>1. ASSUME NEW p \in Seq(S) PROVE f(p) \in Seq(Nat) /\ Len(f(p)) = Len(p)
  BY <1>1, LenProperties, ElementOfSeq
<1>2. ASSUME NEW x \in S PROVE Mem(Append(q, x)) = Mem(q) + x.mem
  <2>1. Append(q, x) \in Seq(S) /\ x.mem \in Nat
    OBVIOUS
  <2>2. f(Append(q, x)) = Append(f(q), x.mem)
    BY <1>1, <2>1
  <2> QED BY <1>1, <2>1, <2>2, SumAppend DEF Mem
<1>3. ASSUME q # <<>> PROVE Mem(q) = Head(q).mem + Mem(Tail(q))
  <2>1. Head(q) \in S /\ Tail(q) \in Seq(S)
    BY <1>3, HeadTailProperties
  <2>2. f(q) # <<>> /\ Head(f(q)) = Head(q).mem /\ Tail(f(q)) = f(Tail(q))
    BY <1>1, <1>3, <2>1
  <2> QED BY <1>1, <2>1, <2>2, SumTail DEF Mem
<1>4. Mem(q) \in Nat
  BY <1>1, SumSeq DEF Mem
<1> QED
  BY <1>2, <1>3, <1>4

LEMMA NatMin ==
    ASSUME NEW T \in SUBSET Nat, T # {}
    PROVE  \E n \in T : \A m \in T : n <= m
<1> DEFINE R == {ss \in Nat \X Nat : ss[1] < ss[2]}
<1>1. IsWellFoundedOn(R, Nat)
  <2>1. OpToRel(<, Nat) = R
    BY DEF OpToRel
  <2> QED BY <2>1, NatLessThanWellFounded
<1>2. PICK n \in T : \A m \in T : <<m, n>> \notin R
  <2> HIDE DEF R
  <2> QED BY <1>1, WFMin
<1>3. ASSUME NEW m \in T, m < n PROVE <<m, n>> \in R
  <2>1. m \in Nat /\ n \in Nat
    OBVIOUS
  <2>2. PICK p : p = <<m, n>>
    OBVIOUS
  <2>3. p \in Nat \X Nat /\ p[1] < p[2]
    BY <1>3, <2>1, <2>2
  <2>4. p \in R
    BY <2>3
  <2> QED BY <2>2, <2>4
<1>4. ASSUME NEW m \in T PROVE n <= m
  <2>1. m \in Nat /\ n \in Nat /\ ~(m < n)
    BY <1>2, <1>3
  <2> QED BY <2>1
<1> QED
  BY <1>4

-------------------------------------------------------------------------------
(* Merging the ingress queue *)

Item == [logs : Nat, force : BOOLEAN]
Merging == [open : Nat, sealed : Seq(Nat), full : BOOLEAN, signals : Nat]
Unmerged == [open |-> builder["default"], sealed |-> sealed, full |-> FALSE, signals |-> 0]

(* g is the merge of the first n batches.                                    *)
IsMerge(g, n) ==
    g = [i \in 0 .. n |-> IF i = 0 THEN Unmerged ELSE MergeOne(g[i - 1], ingress[i])]

LEMMA MergeExists ==
    ASSUME Len(ingress) \in Nat, NEW n \in 0 .. Len(ingress)
    PROVE  \E g : IsMerge(g, n)
<1> DEFINE T == {k \in Nat : ~ \E g : IsMerge(g, k)}
<1>1. SUFFICES T = {}
  OBVIOUS
<1>2. SUFFICES ASSUME NEW k \in T, \A m \in T : k <= m PROVE FALSE
  BY NatMin
<1>3. k \in Nat /\ ~ \E g : IsMerge(g, k)
  OBVIOUS
<1>4. CASE k = 0
  <2> DEFINE g == [i \in 0 .. 0 |-> Unmerged]
  <2>1. IsMerge(g, 0)
    BY DEF IsMerge
  <2> QED BY <1>3, <1>4, <2>1
<1>5. CASE k # 0
  <2>1. k - 1 \in Nat /\ k - 1 \notin T
    BY <1>2, <1>3, <1>5
  <2>2. PICK h : IsMerge(h, k - 1)
    BY <2>1
  <2> DEFINE g == [i \in 0 .. k |-> IF i = k THEN MergeOne(h[k - 1], ingress[k]) ELSE h[i]]
  <2>3. \A i \in 0 .. k - 1 : h[i] = IF i = 0 THEN Unmerged ELSE MergeOne(h[i - 1], ingress[i])
    BY <2>2 DEF IsMerge
  <2>4. \A i \in 0 .. k : g[i] = IF i = 0 THEN Unmerged ELSE MergeOne(g[i - 1], ingress[i])
    BY <1>3, <1>5, <2>3
  <2>5. IsMerge(g, k)
    BY <2>4 DEF IsMerge
  <2> QED BY <1>3, <2>5
<1> QED
  BY <1>4, <1>5

LEMMA MergeOneSums ==
    ASSUME NEW s \in Merging, NEW item \in Item
    PROVE  /\ MergeOne(s, item) \in Merging
           /\ MergeOne(s, item).open + Sum(MergeOne(s, item).sealed)
                 = s.open + Sum(s.sealed) + item.logs
<1>1. /\ s.open \in Nat /\ s.sealed \in Seq(Nat) /\ s.full \in BOOLEAN /\ s.signals \in Nat
      /\ item.logs \in Nat /\ item.force \in BOOLEAN
  BY DEF Merging, Item
<1> DEFINE n == s.open + item.logs
           full == item.force \/ n >= PackLogs
<1>2. n \in Nat /\ Append(s.sealed, n) \in Seq(Nat) /\ Sum(Append(s.sealed, n)) = Sum(s.sealed) + n
      /\ Sum(s.sealed) \in Nat
  <2>1. n \in Nat
    BY <1>1
  <2> HIDE DEF n
  <2> QED BY <1>1, <2>1, SumAppend, SumSeq
<1>3. /\ MergeOne(s, item).open = IF full THEN 0 ELSE n
      /\ MergeOne(s, item).sealed = IF full THEN Append(s.sealed, n) ELSE s.sealed
  BY DEF MergeOne
<1>4. MergeOne(s, item) \in Merging
  BY <1>1, <1>2 DEF MergeOne, Merging
<1> HIDE DEF n, full
<1>5. n = s.open + item.logs
  BY DEF n
<1> QED
  BY <1>1, <1>2, <1>3, <1>4, <1>5

LEMMA MergedSums ==
    ASSUME builder["default"] \in Nat, sealed \in Seq(Nat), ingress \in Seq(Item)
    PROVE  /\ Merged \in Merging
           /\ Merged.open + Sum(Merged.sealed) = builder["default"] + Sum(sealed) + Logs(ingress)
<1> DEFINE L == Len(ingress)
           F(i) == Logs(SubSeq(ingress, 1, i))
           Good(s, i) == /\ s \in Merging
                         /\ s.open + Sum(s.sealed) = builder["default"] + Sum(sealed) + F(i)
<1>1. L \in Nat
  BY LenProperties
<1>2. PICK g : IsMerge(g, L) /\ Merged = g[L]
  <2>1. \E g : IsMerge(g, L)
    BY <1>1, MergeExists
  <2>2. Merged = (CHOOSE g : IsMerge(g, L))[L]
    BY DEF Merged, IsMerge, Unmerged
  <2> HIDE DEF L
  <2> QED BY <2>1, <2>2
<1>3. \A i \in 0 .. L : g[i] = IF i = 0 THEN Unmerged ELSE MergeOne(g[i - 1], ingress[i])
  BY <1>1, <1>2 DEF IsMerge
<1> DEFINE T == {i \in Nat : i <= L /\ ~Good(g[i], i)}
<1>4. SUFFICES T = {}
  <2>1. Good(g[L], L)
    BY <1>1, <1>4
  <2>2. SubSeq(ingress, 1, L) = ingress
    BY SubSeqFull
  <2> QED BY <1>2, <2>1, <2>2
<1>5. SUFFICES ASSUME NEW k \in T, \A m \in T : k <= m PROVE FALSE
  BY NatMin
<1>6. k \in 0 .. L /\ ~Good(g[k], k)
  OBVIOUS
<1>7. CASE k = 0
  <2>1. g[0] = Unmerged /\ SubSeq(ingress, 1, 0) = <<>>
    BY <1>1, <1>3, SubSeqEmpty
  <2>2. F(0) = 0 /\ Sum(sealed) \in Nat
    BY <2>1, LogsEmpty, SumSeq
  <2>3. Unmerged \in Merging /\ Unmerged.open = builder["default"] /\ Unmerged.sealed = sealed
    BY DEF Unmerged, Merging
  <2>4. Good(g[0], 0)
    BY <2>1, <2>2, <2>3
  <2> QED BY <1>6, <1>7, <2>4
<1>8. CASE k # 0
  <2>1. k - 1 \in Nat /\ k \in 1 .. L /\ k - 1 \notin T /\ k - 1 <= L
    BY <1>1, <1>5, <1>6, <1>8
  <2>2. Good(g[k - 1], k - 1)
    BY <2>1
  <2>3. ingress[k] \in Item /\ g[k] = MergeOne(g[k - 1], ingress[k])
    BY <1>3, <1>6, <1>8, <2>1, ElementOfSeq
  <2>4. F(k) = F(k - 1) + ingress[k].logs /\ F(k - 1) \in Nat /\ ingress[k].logs \in Nat
    <3>1. PICK p : p = SubSeq(ingress, 1, k - 1)
      OBVIOUS
    <3>2. SubSeq(ingress, 1, k) = p \o <<ingress[k]>>
      BY <2>1, <3>1, SubSeqRecursiveSecond
    <3>3. p \in Seq(Item)
      BY <1>1, <2>1, <3>1, SubSeqProperties, ElementOfSeq
    <3>4. SubSeq(ingress, 1, k) = Append(p, ingress[k])
      BY <2>3, <3>2, <3>3, AppendIsConcat
    <3>5. \A x \in Item : x.logs \in Nat
      BY DEF Item
    <3> QED BY <2>3, <3>1, <3>3, <3>4, <3>5, LogsQueue
  <2>5. Good(g[k], k)
    <3>1. PICK s, item : s = g[k - 1] /\ item = ingress[k]
      OBVIOUS
    <3>2. s \in Merging /\ item \in Item /\ g[k] = MergeOne(s, item)
      BY <2>2, <2>3, <3>1
    <3>3. /\ MergeOne(s, item) \in Merging
          /\ MergeOne(s, item).open + Sum(MergeOne(s, item).sealed) = s.open + Sum(s.sealed) + item.logs
      BY <3>2, MergeOneSums
    <3>4. s.open \in Nat /\ Sum(s.sealed) \in Nat /\ Sum(sealed) \in Nat
      BY <3>2, SumSeq DEF Merging
    <3> HIDE DEF F, L
    <3> QED BY <2>2, <2>4, <3>1, <3>2, <3>3, <3>4
  <2> QED BY <1>6, <2>5
<1> QED
  BY <1>7, <1>8

-------------------------------------------------------------------------------
(* The invariant *)

WorkerPlaces == {"look", "linger", "due", "raw", "hand", "compress", "packed", "push",
                 "settle", "gone"}
SenderPlaces == {"pop", "popped", "sending", "gone"}
CallPlaces == {"idle", "batch", "keyed", "raw", "append", "copy", "merge", "flush", "slot"}
Task == [logs : Nat, mem : Nat, held : Nat, kind : {"none", "plain", "pooled", "scratch"},
         from : {"none", "raw", "builder"}]

TypeInv ==
    /\ phase \in {"open", "closing", "stopped"} /\ sendStop \in BOOLEAN /\ flush \in BOOLEAN
    /\ pool \in [Pools -> Nat] /\ builder \in [{"default", "keyed"} -> Nat]
    /\ sealed \in Seq(Nat) /\ ingress \in Seq(Item) /\ raw \in Nat /\ sendq \in Seq(Task)
    /\ call \in [Adders -> CallPlaces] /\ force \in [Adders -> BOOLEAN]
    /\ closer \subseteq Adders /\ batch \in [Adders -> Nat]
    /\ cond \in [Threads -> {"none", "asleep", "woken"}]
    /\ at \in [Workers \cup Senders -> WorkerPlaces \cup SenderPlaces]
    /\ \A w \in Workers : at[w] \in WorkerPlaces
    /\ \A s \in Senders : at[s] \in SenderPlaces
    /\ hand \in [Workers -> Seq(Nat)] /\ task \in [Workers \cup Senders -> Task]
    /\ inflight \in Nat /\ accepted \in Nat /\ ended \in Nat /\ late \in Nat

(* What a thread has at each of its places.  A sealed builder stays in the    *)
(* hand of the worker until the task made of it has left.                    *)
AdderOK(t) ==
    /\ call[t] \in {"merge", "flush", "slot"} => batch[t] > 0
    /\ t \in closer => call[t] \in {"flush", "slot"} /\ closer = {t} /\ phase = "open"
WorkerOK(w) ==
    /\ at[w] \in {"look", "linger", "due", "gone"} => hand[w] = <<>>
    /\ at[w] = "settle" => hand[w] # <<>>
    /\ at[w] \in {"compress", "packed", "push"} =>
          \/ task[w].from = "raw"
          \/ task[w].from = "builder" /\ hand[w] # <<>> /\ task[w].logs = Head(hand[w])
    /\ at[w] \notin {"compress", "packed", "push"} => task[w] = NoTask
    /\ at[w] # "packed" => task[w].held = 0
    /\ at[w] = "gone" => phase = "stopped"
SenderOK(s) ==
    /\ at[s] \in {"pop", "gone"} => task[s] = NoTask
    /\ at[s] = "gone" => sendStop /\ sendq = <<>>
PlaceInv ==
    /\ \A t \in Adders : AdderOK(t)
    /\ \A w \in Workers : WorkerOK(w)
    /\ \A s \in Senders : SenderOK(s)
    /\ sendStop => phase = "stopped"

(* The sums over the threads.                                                *)
Pending(t) == IF call[t] \in {"merge", "flush", "slot"} /\ t \notin closer THEN 1 ELSE 0
Unpacked(w) == IF at[w] = "settle" \/ task[w].from = "builder" THEN Sum(Tail(hand[w]))
                                                               ELSE Sum(hand[w])
IsSending(s) == IF at[s] = "sending" THEN 1 ELSE 0

TlsTotal == Sum([t \in Adders |-> TlsBytes(t)])
CopyTotal == Sum([t \in Adders |-> Copying(t)])
BatchTotal == Sum([t \in Adders |-> batch[t]])
PendingTotal == Sum([t \in Adders |-> Pending(t)])
HandTotal == Sum([w \in Workers |-> Sum(hand[w])])
HeldTotal == Sum([w \in Workers |-> task[w].held])
PushTotal == Sum([w \in Workers |-> At({"push"}, w)])
WorkTotal == Sum([w \in Workers |-> task[w].logs])
UnpackedTotal == Sum([w \in Workers |-> Unpacked(w)])
PoppedTotal == Sum([s \in Senders |-> At({"popped"}, s)])
SendingTotal == Sum([s \in Senders |-> At({"sending"}, s)])
SentTotal == Sum([s \in Senders |-> task[s].logs])
SendingCount == Sum([s \in Senders |-> IsSending(s)])

Built == builder["default"] + builder["keyed"] + Sum(sealed)
RawTotal == RawBytes * raw
Stored == Built + RawTotal
IngressLogs == Logs(ingress)
SendLogs == Logs(sendq)
SendMem == Mem(sendq)
Queued == Built + raw + IngressLogs
Taken == SendLogs + WorkTotal + UnpackedTotal + SentTotal

QueuePool == pool["queue"]
IngressPool == pool["ingress"]
SendPool == pool["send"]
InflightPool == pool["inflight"]
ScratchPool == pool["scratch"]
TlsPool == pool["tls"]

Exact ==
    /\ TlsPool = TlsTotal
    /\ QueuePool = Stored + CopyTotal + HandTotal
    /\ IngressPool = IngressLogs
    /\ ScratchPool = HeldTotal
    /\ SendPool = SendMem + PushTotal + PoppedTotal
    /\ InflightPool = SendingTotal

WorkersGone == \A w \in Workers : at[w] = "gone"

(* Every log that add accepted has ended or is somewhere, and what came late  *)
(* was accepted.  Once the workers are gone only late logs are left.         *)
Counted ==
    /\ inflight = SendingCount
    /\ accepted + PendingTotal = ended + BatchTotal + Queued + Taken
    /\ late + BatchTotal <= accepted + PendingTotal
    /\ WorkersGone => Queued <= late

Inv == TypeInv /\ PlaceInv /\ Exact /\ Counted /\ WithinBudget

-------------------------------------------------------------------------------
(* How the sums change *)

LEMMA Finite == IsFiniteSet(Adders) /\ IsFiniteSet(Workers) /\ IsFiniteSet(Senders)
  BY BudgetAssumption DEF BudgetAssumption

LEMMA Constants ==
    /\ MaxLogs \in Nat /\ MaxBytes \in Nat /\ RawBytes \in Nat /\ Envelope \in Nat
    /\ Packed \in Nat /\ Slack \in Nat /\ PackLogs \in Nat /\ PackBytes \in Nat
    /\ Adders \cap Workers = {} /\ Workers \cap Senders = {} /\ Workers # {} /\ Senders # {}
  BY BudgetAssumption DEF BudgetAssumption

(* A function of the threads, and one that agrees with it but for one thread. *)
LEMMA SumMember ==
    ASSUME NEW S, IsFiniteSet(S), NEW F, F \in [S -> Nat]
    PROVE  Sum(F) \in Nat /\ \A x \in S : F[x] \in Nat /\ F[x] <= Sum(F)
  BY SumNat, SumAtLeast

LEMMA SumChange ==
    ASSUME NEW S, IsFiniteSet(S), NEW F, F \in [S -> Nat], NEW G, G \in [S -> Nat],
           NEW x \in S, \A y \in S : y # x => G[y] = F[y]
    PROVE  Sum(G) + F[x] = Sum(F) + G[x]
  BY SumUpdate

AdderMaps ==
    /\ [t \in Adders |-> TlsBytes(t)] \in [Adders -> Nat]
    /\ [t \in Adders |-> Copying(t)] \in [Adders -> Nat]
    /\ [t \in Adders |-> batch[t]] \in [Adders -> Nat]
    /\ [t \in Adders |-> Pending(t)] \in [Adders -> Nat]

LEMMA AdderMapsNat == ASSUME TypeInv PROVE AdderMaps
<1>1. \A t \in Adders : batch[t] \in Nat
  BY DEF TypeInv
<1> QED
  BY <1>1, Constants DEF AdderMaps, TlsBytes, Copying, Pending

AdderNat ==
    /\ TlsTotal \in Nat /\ CopyTotal \in Nat /\ BatchTotal \in Nat /\ PendingTotal \in Nat
AdderEach(t) ==
    /\ TlsBytes(t) \in Nat /\ TlsBytes(t) <= TlsTotal
    /\ Copying(t) \in Nat /\ Copying(t) <= CopyTotal
    /\ batch[t] \in Nat /\ batch[t] <= BatchTotal
    /\ Pending(t) \in Nat /\ Pending(t) <= PendingTotal
AdderSums == AdderNat /\ \A t \in Adders : AdderEach(t)

LEMMA AdderSumsNat == ASSUME TypeInv PROVE AdderSums
<1>0. AdderMaps
  BY AdderMapsNat
<1>1. TlsTotal \in Nat /\ \A t \in Adders : TlsBytes(t) \in Nat /\ TlsBytes(t) <= TlsTotal
  <2>1. PICK F : F = [t \in Adders |-> TlsBytes(t)]
    OBVIOUS
  <2> QED BY <1>0, <2>1, Finite, SumMember DEF AdderMaps, TlsTotal
<1>2. CopyTotal \in Nat /\ \A t \in Adders : Copying(t) \in Nat /\ Copying(t) <= CopyTotal
  <2>1. PICK F : F = [t \in Adders |-> Copying(t)]
    OBVIOUS
  <2> QED BY <1>0, <2>1, Finite, SumMember DEF AdderMaps, CopyTotal
<1>3. BatchTotal \in Nat /\ \A t \in Adders : batch[t] \in Nat /\ batch[t] <= BatchTotal
  <2>1. PICK F : F = [t \in Adders |-> batch[t]]
    OBVIOUS
  <2> QED BY <1>0, <2>1, Finite, SumMember DEF AdderMaps, BatchTotal
<1>4. PendingTotal \in Nat /\ \A t \in Adders : Pending(t) \in Nat /\ Pending(t) <= PendingTotal
  <2>1. PICK F : F = [t \in Adders |-> Pending(t)]
    OBVIOUS
  <2> QED BY <1>0, <2>1, Finite, SumMember DEF AdderMaps, PendingTotal
<1> QED
  BY <1>1, <1>2, <1>3, <1>4 DEF AdderSums, AdderNat, AdderEach

(* Only t of the adders moves, or none.                                      *)
OnlyAdder(t) ==
    \A u \in Adders : u # t => /\ batch'[u] = batch[u] /\ call'[u] = call[u]
                              /\ (u \in closer') = (u \in closer)
NoAdder == \A u \in Adders : /\ batch'[u] = batch[u] /\ call'[u] = call[u]
                              /\ (u \in closer') = (u \in closer)
AdderChange(t) ==
    /\ TlsTotal' + TlsBytes(t) = TlsTotal + TlsBytes(t)'
    /\ CopyTotal' + Copying(t) = CopyTotal + Copying(t)'
    /\ BatchTotal' + batch[t] = BatchTotal + batch'[t]
    /\ PendingTotal' + Pending(t) = PendingTotal + Pending(t)'
AdderStill ==
    /\ TlsTotal' = TlsTotal
    /\ CopyTotal' = CopyTotal
    /\ BatchTotal' = BatchTotal
    /\ PendingTotal' = PendingTotal

LEMMA AdderChanges ==
    ASSUME TypeInv, TypeInv', NEW t \in Adders, OnlyAdder(t)
    PROVE  AdderChange(t) /\ AdderSums /\ AdderSums'
<1>0. AdderMaps /\ AdderMaps' /\ AdderSums /\ AdderSums'
  <2>1. TypeInv' => AdderMaps' /\ AdderSums'
    BY AdderMapsNat, AdderSumsNat, PTL
  <2> QED BY <2>1, AdderMapsNat, AdderSumsNat
<1>1. TlsTotal' + TlsBytes(t) = TlsTotal + TlsBytes(t)'
  <2>1. PICK F, G : F = [u \in Adders |-> TlsBytes(u)] /\ G = [u \in Adders |-> TlsBytes(u)']
    OBVIOUS
  <2>2. \A u \in Adders : u # t => TlsBytes(u)' = TlsBytes(u)
    BY DEF OnlyAdder, TlsBytes
  <2>3. F \in [Adders -> Nat] /\ G \in [Adders -> Nat] /\ \A u \in Adders : u # t => G[u] = F[u]
    BY <1>0, <2>1, <2>2 DEF AdderMaps
  <2>4. Sum(G) + F[t] = Sum(F) + G[t]
    BY <2>3, Finite, SumChange
  <2>5. TlsTotal = Sum(F) /\ TlsTotal' = Sum(G) /\ F[t] = TlsBytes(t) /\ G[t] = TlsBytes(t)'
    BY <2>1 DEF TlsTotal
  <2> QED BY <2>4, <2>5
<1>2. CopyTotal' + Copying(t) = CopyTotal + Copying(t)'
  <2>1. PICK F, G : F = [u \in Adders |-> Copying(u)] /\ G = [u \in Adders |-> Copying(u)']
    OBVIOUS
  <2>2. \A u \in Adders : u # t => Copying(u)' = Copying(u)
    BY DEF OnlyAdder, Copying
  <2>3. F \in [Adders -> Nat] /\ G \in [Adders -> Nat] /\ \A u \in Adders : u # t => G[u] = F[u]
    BY <1>0, <2>1, <2>2 DEF AdderMaps
  <2>4. Sum(G) + F[t] = Sum(F) + G[t]
    BY <2>3, Finite, SumChange
  <2>5. CopyTotal = Sum(F) /\ CopyTotal' = Sum(G) /\ F[t] = Copying(t) /\ G[t] = Copying(t)'
    BY <2>1 DEF CopyTotal
  <2> QED BY <2>4, <2>5
<1>3. BatchTotal' + batch[t] = BatchTotal + batch'[t]
  <2>1. PICK F, G : F = [u \in Adders |-> batch[u]] /\ G = [u \in Adders |-> batch'[u]]
    OBVIOUS
  <2>2. \A u \in Adders : u # t => batch'[u] = batch[u]
    BY DEF OnlyAdder
  <2>3. F \in [Adders -> Nat] /\ G \in [Adders -> Nat] /\ \A u \in Adders : u # t => G[u] = F[u]
    BY <1>0, <2>1, <2>2 DEF AdderMaps
  <2>4. Sum(G) + F[t] = Sum(F) + G[t]
    BY <2>3, Finite, SumChange
  <2>5. BatchTotal = Sum(F) /\ BatchTotal' = Sum(G) /\ F[t] = batch[t] /\ G[t] = batch'[t]
    BY <2>1 DEF BatchTotal
  <2> QED BY <2>4, <2>5
<1>4. PendingTotal' + Pending(t) = PendingTotal + Pending(t)'
  <2>1. PICK F, G : F = [u \in Adders |-> Pending(u)] /\ G = [u \in Adders |-> Pending(u)']
    OBVIOUS
  <2>2. \A u \in Adders : u # t => Pending(u)' = Pending(u)
    BY DEF OnlyAdder, Pending
  <2>3. F \in [Adders -> Nat] /\ G \in [Adders -> Nat] /\ \A u \in Adders : u # t => G[u] = F[u]
    BY <1>0, <2>1, <2>2 DEF AdderMaps
  <2>4. Sum(G) + F[t] = Sum(F) + G[t]
    BY <2>3, Finite, SumChange
  <2>5. PendingTotal = Sum(F) /\ PendingTotal' = Sum(G) /\ F[t] = Pending(t) /\ G[t] = Pending(t)'
    BY <2>1 DEF PendingTotal
  <2> QED BY <2>4, <2>5
<1> QED
  BY <1>0, <1>1, <1>2, <1>3, <1>4 DEF AdderChange

LEMMA AdderStays ==
    ASSUME TypeInv, TypeInv', NoAdder
    PROVE  AdderStill /\ AdderSums /\ AdderSums'
<1>0. AdderMaps /\ AdderMaps' /\ AdderSums /\ AdderSums'
  <2>1. TypeInv' => AdderMaps' /\ AdderSums'
    BY AdderMapsNat, AdderSumsNat, PTL
  <2> QED BY <2>1, AdderMapsNat, AdderSumsNat
<1>1. TlsTotal' = TlsTotal
  <2>1. \A u \in Adders : TlsBytes(u)' = TlsBytes(u)
    BY DEF NoAdder, TlsBytes
  <2>2. [u \in Adders |-> TlsBytes(u)'] = [u \in Adders |-> TlsBytes(u)]
    BY <2>1
  <2> QED BY <2>2 DEF TlsTotal
<1>2. CopyTotal' = CopyTotal
  <2>1. \A u \in Adders : Copying(u)' = Copying(u)
    BY DEF NoAdder, Copying
  <2>2. [u \in Adders |-> Copying(u)'] = [u \in Adders |-> Copying(u)]
    BY <2>1
  <2> QED BY <2>2 DEF CopyTotal
<1>3. BatchTotal' = BatchTotal
  <2>1. \A u \in Adders : batch'[u] = batch[u]
    BY DEF NoAdder
  <2>2. [u \in Adders |-> batch'[u]] = [u \in Adders |-> batch[u]]
    BY <2>1
  <2> QED BY <2>2 DEF BatchTotal
<1>4. PendingTotal' = PendingTotal
  <2>1. \A u \in Adders : Pending(u)' = Pending(u)
    BY DEF NoAdder, Pending
  <2>2. [u \in Adders |-> Pending(u)'] = [u \in Adders |-> Pending(u)]
    BY <2>1
  <2> QED BY <2>2 DEF PendingTotal
<1> QED
  BY <1>0, <1>1, <1>2, <1>3, <1>4 DEF AdderStill

WorkerMaps ==
    /\ [w \in Workers |-> Sum(hand[w])] \in [Workers -> Nat]
    /\ [w \in Workers |-> task[w].held] \in [Workers -> Nat]
    /\ [w \in Workers |-> At({"push"}, w)] \in [Workers -> Nat]
    /\ [w \in Workers |-> task[w].logs] \in [Workers -> Nat]
    /\ [w \in Workers |-> Unpacked(w)] \in [Workers -> Nat]

LEMMA WorkerMapsNat == ASSUME TypeInv, PlaceInv PROVE WorkerMaps
<1>1. \A w \in Workers : task[w] \in Task /\ hand[w] \in Seq(Nat)
  BY DEF TypeInv
<1>2. \A w \in Workers : task[w].mem \in Nat /\ task[w].logs \in Nat /\ task[w].held \in Nat
  BY <1>1 DEF Task
<1>3. \A w \in Workers : Sum(hand[w]) \in Nat
  BY <1>1, SumSeq
<1>4. ASSUME NEW w \in Workers PROVE Unpacked(w) \in Nat
  <2>1. CASE hand[w] = <<>>
    <3>1. task[w].from # "builder" /\ at[w] # "settle"
      BY <2>1 DEF PlaceInv, WorkerOK, NoTask
    <3> QED BY <1>3, <3>1 DEF Unpacked
  <2>2. CASE hand[w] # <<>>
    <3>1. Tail(hand[w]) \in Seq(Nat)
      BY <1>1, <2>2, HeadTailProperties
    <3> QED BY <1>3, <3>1, SumSeq DEF Unpacked
  <2> QED BY <2>1, <2>2
<1> QED
  BY <1>2, <1>3, <1>4 DEF WorkerMaps, At

WorkerNat ==
    /\ HandTotal \in Nat /\ HeldTotal \in Nat /\ PushTotal \in Nat
    /\ WorkTotal \in Nat /\ UnpackedTotal \in Nat
WorkerEach(w) ==
    /\ Sum(hand[w]) \in Nat /\ Sum(hand[w]) <= HandTotal
    /\ task[w].held \in Nat /\ task[w].held <= HeldTotal
    /\ At({"push"}, w) \in Nat /\ At({"push"}, w) <= PushTotal
    /\ task[w].logs \in Nat /\ task[w].logs <= WorkTotal
    /\ Unpacked(w) \in Nat /\ Unpacked(w) <= UnpackedTotal
WorkerSums == WorkerNat /\ \A w \in Workers : WorkerEach(w)

LEMMA WorkerSumsNat == ASSUME TypeInv, PlaceInv PROVE WorkerSums
<1>0. WorkerMaps
  BY WorkerMapsNat
<1>1. HandTotal \in Nat /\ \A w \in Workers : Sum(hand[w]) \in Nat /\ Sum(hand[w]) <= HandTotal
  <2>1. PICK F : F = [w \in Workers |-> Sum(hand[w])]
    OBVIOUS
  <2> QED BY <1>0, <2>1, Finite, SumMember DEF WorkerMaps, HandTotal
<1>2. HeldTotal \in Nat /\ \A w \in Workers : task[w].held \in Nat /\ task[w].held <= HeldTotal
  <2>1. PICK F : F = [w \in Workers |-> task[w].held]
    OBVIOUS
  <2> QED BY <1>0, <2>1, Finite, SumMember DEF WorkerMaps, HeldTotal
<1>3. PushTotal \in Nat /\ \A w \in Workers : At({"push"}, w) \in Nat /\ At({"push"}, w) <= PushTotal
  <2>1. PICK F : F = [w \in Workers |-> At({"push"}, w)]
    OBVIOUS
  <2> QED BY <1>0, <2>1, Finite, SumMember DEF WorkerMaps, PushTotal
<1>4. WorkTotal \in Nat /\ \A w \in Workers : task[w].logs \in Nat /\ task[w].logs <= WorkTotal
  <2>1. PICK F : F = [w \in Workers |-> task[w].logs]
    OBVIOUS
  <2> QED BY <1>0, <2>1, Finite, SumMember DEF WorkerMaps, WorkTotal
<1>5. UnpackedTotal \in Nat /\ \A w \in Workers : Unpacked(w) \in Nat /\ Unpacked(w) <= UnpackedTotal
  <2>1. PICK F : F = [w \in Workers |-> Unpacked(w)]
    OBVIOUS
  <2> QED BY <1>0, <2>1, Finite, SumMember DEF WorkerMaps, UnpackedTotal
<1> QED
  BY <1>1, <1>2, <1>3, <1>4, <1>5 DEF WorkerSums, WorkerNat, WorkerEach

OnlyWorker(w) ==
    \A u \in Workers : u # w => at'[u] = at[u] /\ task'[u] = task[u] /\ hand'[u] = hand[u]
NoWorker == \A u \in Workers : at'[u] = at[u] /\ task'[u] = task[u] /\ hand'[u] = hand[u]
WorkerChange(w) ==
    /\ HandTotal' + Sum(hand[w]) = HandTotal + Sum(hand'[w])
    /\ HeldTotal' + task[w].held = HeldTotal + task'[w].held
    /\ PushTotal' + At({"push"}, w) = PushTotal + At({"push"}, w)'
    /\ WorkTotal' + task[w].logs = WorkTotal + task'[w].logs
    /\ UnpackedTotal' + Unpacked(w) = UnpackedTotal + Unpacked(w)'
WorkerStill ==
    /\ HandTotal' = HandTotal
    /\ HeldTotal' = HeldTotal
    /\ PushTotal' = PushTotal
    /\ WorkTotal' = WorkTotal
    /\ UnpackedTotal' = UnpackedTotal

LEMMA WorkerChanges ==
    ASSUME TypeInv, PlaceInv, TypeInv', PlaceInv', NEW w \in Workers, OnlyWorker(w)
    PROVE  WorkerChange(w) /\ WorkerSums /\ WorkerSums'
<1>0. WorkerMaps /\ WorkerMaps' /\ WorkerSums /\ WorkerSums'
  <2>1. TypeInv' /\ PlaceInv' => WorkerMaps' /\ WorkerSums'
    BY WorkerMapsNat, WorkerSumsNat, PTL
  <2> QED BY <2>1, WorkerMapsNat, WorkerSumsNat
<1>1. HandTotal' + Sum(hand[w]) = HandTotal + Sum(hand'[w])
  <2>1. PICK F, G : F = [u \in Workers |-> Sum(hand[u])] /\ G = [u \in Workers |-> Sum(hand'[u])]
    OBVIOUS
  <2>2. \A u \in Workers : u # w => Sum(hand'[u]) = Sum(hand[u])
    BY DEF OnlyWorker
  <2>3. F \in [Workers -> Nat] /\ G \in [Workers -> Nat] /\ \A u \in Workers : u # w => G[u] = F[u]
    BY <1>0, <2>1, <2>2 DEF WorkerMaps
  <2>4. Sum(G) + F[w] = Sum(F) + G[w]
    BY <2>3, Finite, SumChange
  <2>5. HandTotal = Sum(F) /\ HandTotal' = Sum(G) /\ F[w] = Sum(hand[w]) /\ G[w] = Sum(hand'[w])
    BY <2>1 DEF HandTotal
  <2> QED BY <2>4, <2>5
<1>2. HeldTotal' + task[w].held = HeldTotal + task'[w].held
  <2>1. PICK F, G : F = [u \in Workers |-> task[u].held] /\ G = [u \in Workers |-> task'[u].held]
    OBVIOUS
  <2>2. \A u \in Workers : u # w => task'[u].held = task[u].held
    BY DEF OnlyWorker
  <2>3. F \in [Workers -> Nat] /\ G \in [Workers -> Nat] /\ \A u \in Workers : u # w => G[u] = F[u]
    BY <1>0, <2>1, <2>2 DEF WorkerMaps
  <2>4. Sum(G) + F[w] = Sum(F) + G[w]
    BY <2>3, Finite, SumChange
  <2>5. HeldTotal = Sum(F) /\ HeldTotal' = Sum(G) /\ F[w] = task[w].held /\ G[w] = task'[w].held
    BY <2>1 DEF HeldTotal
  <2> QED BY <2>4, <2>5
<1>3. PushTotal' + At({"push"}, w) = PushTotal + At({"push"}, w)'
  <2>1. PICK F, G : F = [u \in Workers |-> At({"push"}, u)] /\ G = [u \in Workers |-> At({"push"}, u)']
    OBVIOUS
  <2>2. \A u \in Workers : u # w => At({"push"}, u)' = At({"push"}, u)
    BY DEF OnlyWorker, At
  <2>3. F \in [Workers -> Nat] /\ G \in [Workers -> Nat] /\ \A u \in Workers : u # w => G[u] = F[u]
    BY <1>0, <2>1, <2>2 DEF WorkerMaps
  <2>4. Sum(G) + F[w] = Sum(F) + G[w]
    BY <2>3, Finite, SumChange
  <2>5. PushTotal = Sum(F) /\ PushTotal' = Sum(G) /\ F[w] = At({"push"}, w) /\ G[w] = At({"push"}, w)'
    BY <2>1 DEF PushTotal
  <2> QED BY <2>4, <2>5
<1>4. WorkTotal' + task[w].logs = WorkTotal + task'[w].logs
  <2>1. PICK F, G : F = [u \in Workers |-> task[u].logs] /\ G = [u \in Workers |-> task'[u].logs]
    OBVIOUS
  <2>2. \A u \in Workers : u # w => task'[u].logs = task[u].logs
    BY DEF OnlyWorker
  <2>3. F \in [Workers -> Nat] /\ G \in [Workers -> Nat] /\ \A u \in Workers : u # w => G[u] = F[u]
    BY <1>0, <2>1, <2>2 DEF WorkerMaps
  <2>4. Sum(G) + F[w] = Sum(F) + G[w]
    BY <2>3, Finite, SumChange
  <2>5. WorkTotal = Sum(F) /\ WorkTotal' = Sum(G) /\ F[w] = task[w].logs /\ G[w] = task'[w].logs
    BY <2>1 DEF WorkTotal
  <2> QED BY <2>4, <2>5
<1>5. UnpackedTotal' + Unpacked(w) = UnpackedTotal + Unpacked(w)'
  <2>1. PICK F, G : F = [u \in Workers |-> Unpacked(u)] /\ G = [u \in Workers |-> Unpacked(u)']
    OBVIOUS
  <2>2. \A u \in Workers : u # w => Unpacked(u)' = Unpacked(u)
    BY DEF OnlyWorker, Unpacked
  <2>3. F \in [Workers -> Nat] /\ G \in [Workers -> Nat] /\ \A u \in Workers : u # w => G[u] = F[u]
    BY <1>0, <2>1, <2>2 DEF WorkerMaps
  <2>4. Sum(G) + F[w] = Sum(F) + G[w]
    BY <2>3, Finite, SumChange
  <2>5. UnpackedTotal = Sum(F) /\ UnpackedTotal' = Sum(G) /\ F[w] = Unpacked(w) /\ G[w] = Unpacked(w)'
    BY <2>1 DEF UnpackedTotal
  <2> QED BY <2>4, <2>5
<1> QED
  BY <1>0, <1>1, <1>2, <1>3, <1>4, <1>5 DEF WorkerChange

LEMMA WorkerStays ==
    ASSUME TypeInv, PlaceInv, TypeInv', PlaceInv', NoWorker
    PROVE  WorkerStill /\ WorkerSums /\ WorkerSums'
<1>0. WorkerMaps /\ WorkerMaps' /\ WorkerSums /\ WorkerSums'
  <2>1. TypeInv' /\ PlaceInv' => WorkerMaps' /\ WorkerSums'
    BY WorkerMapsNat, WorkerSumsNat, PTL
  <2> QED BY <2>1, WorkerMapsNat, WorkerSumsNat
<1>1. HandTotal' = HandTotal
  <2>1. \A u \in Workers : Sum(hand'[u]) = Sum(hand[u])
    BY DEF NoWorker
  <2>2. [u \in Workers |-> Sum(hand'[u])] = [u \in Workers |-> Sum(hand[u])]
    BY <2>1
  <2> QED BY <2>2 DEF HandTotal
<1>2. HeldTotal' = HeldTotal
  <2>1. \A u \in Workers : task'[u].held = task[u].held
    BY DEF NoWorker
  <2>2. [u \in Workers |-> task'[u].held] = [u \in Workers |-> task[u].held]
    BY <2>1
  <2> QED BY <2>2 DEF HeldTotal
<1>3. PushTotal' = PushTotal
  <2>1. \A u \in Workers : At({"push"}, u)' = At({"push"}, u)
    BY DEF NoWorker, At
  <2>2. [u \in Workers |-> At({"push"}, u)'] = [u \in Workers |-> At({"push"}, u)]
    BY <2>1
  <2> QED BY <2>2 DEF PushTotal
<1>4. WorkTotal' = WorkTotal
  <2>1. \A u \in Workers : task'[u].logs = task[u].logs
    BY DEF NoWorker
  <2>2. [u \in Workers |-> task'[u].logs] = [u \in Workers |-> task[u].logs]
    BY <2>1
  <2> QED BY <2>2 DEF WorkTotal
<1>5. UnpackedTotal' = UnpackedTotal
  <2>1. \A u \in Workers : Unpacked(u)' = Unpacked(u)
    BY DEF NoWorker, Unpacked
  <2>2. [u \in Workers |-> Unpacked(u)'] = [u \in Workers |-> Unpacked(u)]
    BY <2>1
  <2> QED BY <2>2 DEF UnpackedTotal
<1> QED
  BY <1>0, <1>1, <1>2, <1>3, <1>4, <1>5 DEF WorkerStill

SenderMaps ==
    /\ [s \in Senders |-> At({"popped"}, s)] \in [Senders -> Nat]
    /\ [s \in Senders |-> At({"sending"}, s)] \in [Senders -> Nat]
    /\ [s \in Senders |-> task[s].logs] \in [Senders -> Nat]
    /\ [s \in Senders |-> IsSending(s)] \in [Senders -> Nat]

LEMMA SenderMapsNat == ASSUME TypeInv PROVE SenderMaps
<1>1. \A s \in Senders : task[s] \in Task
  BY DEF TypeInv
<1>2. \A s \in Senders : task[s].mem \in Nat /\ task[s].logs \in Nat
  BY <1>1 DEF Task
<1> QED
  BY <1>2 DEF SenderMaps, At, IsSending

SenderNat ==
    /\ PoppedTotal \in Nat /\ SendingTotal \in Nat /\ SentTotal \in Nat /\ SendingCount \in Nat
SenderEach(s) ==
    /\ At({"popped"}, s) \in Nat /\ At({"popped"}, s) <= PoppedTotal
    /\ At({"sending"}, s) \in Nat /\ At({"sending"}, s) <= SendingTotal
    /\ task[s].logs \in Nat /\ task[s].logs <= SentTotal
    /\ IsSending(s) \in Nat /\ IsSending(s) <= SendingCount
SenderSums == SenderNat /\ \A s \in Senders : SenderEach(s)

LEMMA SenderSumsNat == ASSUME TypeInv PROVE SenderSums
<1>0. SenderMaps
  BY SenderMapsNat
<1>1. PoppedTotal \in Nat /\ \A s \in Senders : At({"popped"}, s) \in Nat /\ At({"popped"}, s) <= PoppedTotal
  <2>1. PICK F : F = [s \in Senders |-> At({"popped"}, s)]
    OBVIOUS
  <2> QED BY <1>0, <2>1, Finite, SumMember DEF SenderMaps, PoppedTotal
<1>2. SendingTotal \in Nat /\ \A s \in Senders : At({"sending"}, s) \in Nat /\ At({"sending"}, s) <= SendingTotal
  <2>1. PICK F : F = [s \in Senders |-> At({"sending"}, s)]
    OBVIOUS
  <2> QED BY <1>0, <2>1, Finite, SumMember DEF SenderMaps, SendingTotal
<1>3. SentTotal \in Nat /\ \A s \in Senders : task[s].logs \in Nat /\ task[s].logs <= SentTotal
  <2>1. PICK F : F = [s \in Senders |-> task[s].logs]
    OBVIOUS
  <2> QED BY <1>0, <2>1, Finite, SumMember DEF SenderMaps, SentTotal
<1>4. SendingCount \in Nat /\ \A s \in Senders : IsSending(s) \in Nat /\ IsSending(s) <= SendingCount
  <2>1. PICK F : F = [s \in Senders |-> IsSending(s)]
    OBVIOUS
  <2> QED BY <1>0, <2>1, Finite, SumMember DEF SenderMaps, SendingCount
<1> QED
  BY <1>1, <1>2, <1>3, <1>4 DEF SenderSums, SenderNat, SenderEach

OnlySender(s) == \A u \in Senders : u # s => at'[u] = at[u] /\ task'[u] = task[u]
NoSender == \A u \in Senders : at'[u] = at[u] /\ task'[u] = task[u]
SenderChange(s) ==
    /\ PoppedTotal' + At({"popped"}, s) = PoppedTotal + At({"popped"}, s)'
    /\ SendingTotal' + At({"sending"}, s) = SendingTotal + At({"sending"}, s)'
    /\ SentTotal' + task[s].logs = SentTotal + task'[s].logs
    /\ SendingCount' + IsSending(s) = SendingCount + IsSending(s)'
SenderStill ==
    /\ PoppedTotal' = PoppedTotal
    /\ SendingTotal' = SendingTotal
    /\ SentTotal' = SentTotal
    /\ SendingCount' = SendingCount

LEMMA SenderChanges ==
    ASSUME TypeInv, TypeInv', NEW s \in Senders, OnlySender(s)
    PROVE  SenderChange(s) /\ SenderSums /\ SenderSums'
<1>0. SenderMaps /\ SenderMaps' /\ SenderSums /\ SenderSums'
  <2>1. TypeInv' => SenderMaps' /\ SenderSums'
    BY SenderMapsNat, SenderSumsNat, PTL
  <2> QED BY <2>1, SenderMapsNat, SenderSumsNat
<1>1. PoppedTotal' + At({"popped"}, s) = PoppedTotal + At({"popped"}, s)'
  <2>1. PICK F, G : F = [u \in Senders |-> At({"popped"}, u)] /\ G = [u \in Senders |-> At({"popped"}, u)']
    OBVIOUS
  <2>2. \A u \in Senders : u # s => At({"popped"}, u)' = At({"popped"}, u)
    BY DEF OnlySender, At
  <2>3. F \in [Senders -> Nat] /\ G \in [Senders -> Nat] /\ \A u \in Senders : u # s => G[u] = F[u]
    BY <1>0, <2>1, <2>2 DEF SenderMaps
  <2>4. Sum(G) + F[s] = Sum(F) + G[s]
    BY <2>3, Finite, SumChange
  <2>5. PoppedTotal = Sum(F) /\ PoppedTotal' = Sum(G) /\ F[s] = At({"popped"}, s) /\ G[s] = At({"popped"}, s)'
    BY <2>1 DEF PoppedTotal
  <2> QED BY <2>4, <2>5
<1>2. SendingTotal' + At({"sending"}, s) = SendingTotal + At({"sending"}, s)'
  <2>1. PICK F, G : F = [u \in Senders |-> At({"sending"}, u)] /\ G = [u \in Senders |-> At({"sending"}, u)']
    OBVIOUS
  <2>2. \A u \in Senders : u # s => At({"sending"}, u)' = At({"sending"}, u)
    BY DEF OnlySender, At
  <2>3. F \in [Senders -> Nat] /\ G \in [Senders -> Nat] /\ \A u \in Senders : u # s => G[u] = F[u]
    BY <1>0, <2>1, <2>2 DEF SenderMaps
  <2>4. Sum(G) + F[s] = Sum(F) + G[s]
    BY <2>3, Finite, SumChange
  <2>5. SendingTotal = Sum(F) /\ SendingTotal' = Sum(G) /\ F[s] = At({"sending"}, s) /\ G[s] = At({"sending"}, s)'
    BY <2>1 DEF SendingTotal
  <2> QED BY <2>4, <2>5
<1>3. SentTotal' + task[s].logs = SentTotal + task'[s].logs
  <2>1. PICK F, G : F = [u \in Senders |-> task[u].logs] /\ G = [u \in Senders |-> task'[u].logs]
    OBVIOUS
  <2>2. \A u \in Senders : u # s => task'[u].logs = task[u].logs
    BY DEF OnlySender
  <2>3. F \in [Senders -> Nat] /\ G \in [Senders -> Nat] /\ \A u \in Senders : u # s => G[u] = F[u]
    BY <1>0, <2>1, <2>2 DEF SenderMaps
  <2>4. Sum(G) + F[s] = Sum(F) + G[s]
    BY <2>3, Finite, SumChange
  <2>5. SentTotal = Sum(F) /\ SentTotal' = Sum(G) /\ F[s] = task[s].logs /\ G[s] = task'[s].logs
    BY <2>1 DEF SentTotal
  <2> QED BY <2>4, <2>5
<1>4. SendingCount' + IsSending(s) = SendingCount + IsSending(s)'
  <2>1. PICK F, G : F = [u \in Senders |-> IsSending(u)] /\ G = [u \in Senders |-> IsSending(u)']
    OBVIOUS
  <2>2. \A u \in Senders : u # s => IsSending(u)' = IsSending(u)
    BY DEF OnlySender, IsSending
  <2>3. F \in [Senders -> Nat] /\ G \in [Senders -> Nat] /\ \A u \in Senders : u # s => G[u] = F[u]
    BY <1>0, <2>1, <2>2 DEF SenderMaps
  <2>4. Sum(G) + F[s] = Sum(F) + G[s]
    BY <2>3, Finite, SumChange
  <2>5. SendingCount = Sum(F) /\ SendingCount' = Sum(G) /\ F[s] = IsSending(s) /\ G[s] = IsSending(s)'
    BY <2>1 DEF SendingCount
  <2> QED BY <2>4, <2>5
<1> QED
  BY <1>0, <1>1, <1>2, <1>3, <1>4 DEF SenderChange

LEMMA SenderStays ==
    ASSUME TypeInv, TypeInv', NoSender
    PROVE  SenderStill /\ SenderSums /\ SenderSums'
<1>0. SenderMaps /\ SenderMaps' /\ SenderSums /\ SenderSums'
  <2>1. TypeInv' => SenderMaps' /\ SenderSums'
    BY SenderMapsNat, SenderSumsNat, PTL
  <2> QED BY <2>1, SenderMapsNat, SenderSumsNat
<1>1. PoppedTotal' = PoppedTotal
  <2>1. \A u \in Senders : At({"popped"}, u)' = At({"popped"}, u)
    BY DEF NoSender, At
  <2>2. [u \in Senders |-> At({"popped"}, u)'] = [u \in Senders |-> At({"popped"}, u)]
    BY <2>1
  <2> QED BY <2>2 DEF PoppedTotal
<1>2. SendingTotal' = SendingTotal
  <2>1. \A u \in Senders : At({"sending"}, u)' = At({"sending"}, u)
    BY DEF NoSender, At
  <2>2. [u \in Senders |-> At({"sending"}, u)'] = [u \in Senders |-> At({"sending"}, u)]
    BY <2>1
  <2> QED BY <2>2 DEF SendingTotal
<1>3. SentTotal' = SentTotal
  <2>1. \A u \in Senders : task'[u].logs = task[u].logs
    BY DEF NoSender
  <2>2. [u \in Senders |-> task'[u].logs] = [u \in Senders |-> task[u].logs]
    BY <2>1
  <2> QED BY <2>2 DEF SentTotal
<1>4. SendingCount' = SendingCount
  <2>1. \A u \in Senders : IsSending(u)' = IsSending(u)
    BY DEF NoSender, IsSending
  <2>2. [u \in Senders |-> IsSending(u)'] = [u \in Senders |-> IsSending(u)]
    BY <2>1
  <2> QED BY <2>2 DEF SendingCount
<1> QED
  BY <1>0, <1>1, <1>2, <1>3, <1>4 DEF SenderStill

-------------------------------------------------------------------------------
(* The initial states *)

Amounts ==
    /\ QueuePool \in Nat /\ IngressPool \in Nat /\ SendPool \in Nat
    /\ InflightPool \in Nat /\ ScratchPool \in Nat /\ TlsPool \in Nat
    /\ Built \in Nat /\ raw \in Nat /\ RawTotal \in Nat /\ Stored \in Nat /\ Queued \in Nat
    /\ IngressLogs \in Nat /\ SendLogs \in Nat /\ SendMem \in Nat
    /\ inflight \in Nat /\ accepted \in Nat /\ ended \in Nat /\ late \in Nat

LEMMA AmountsNat == ASSUME TypeInv PROVE Amounts
<1>1. Built \in Nat
  BY SumSeq DEF TypeInv, Built
<1>2. IngressLogs \in Nat
  <2>1. \A x \in Item : x.logs \in Nat
    BY DEF Item
  <2> QED BY <2>1, LogsQueue DEF TypeInv, IngressLogs
<1>3. SendLogs \in Nat /\ SendMem \in Nat
  <2>1. \A x \in Task : x.logs \in Nat /\ x.mem \in Nat
    BY DEF Task
  <2> QED BY <2>1, LogsQueue, MemQueue DEF TypeInv, SendLogs, SendMem
<1>4. raw \in Nat /\ RawTotal \in Nat
  BY Constants DEF TypeInv, RawTotal
<1>5. /\ QueuePool \in Nat /\ IngressPool \in Nat /\ SendPool \in Nat
      /\ InflightPool \in Nat /\ ScratchPool \in Nat /\ TlsPool \in Nat
  BY DEF TypeInv, Pools, QueuePool, IngressPool, SendPool, InflightPool, ScratchPool, TlsPool
<1>6. /\ inflight \in Nat /\ accepted \in Nat /\ ended \in Nat /\ late \in Nat
  BY DEF TypeInv
<1>7. Stored \in Nat /\ Queued \in Nat
  BY <1>1, <1>2, <1>4 DEF Stored, Queued
<1> QED
  BY <1>1, <1>2, <1>3, <1>4, <1>5, <1>6, <1>7 DEF Amounts

LEMMA Reserved == SendReserved \in Nat /\ SendReserved <= MaxBytes
<1>1. Cardinality(Senders) \in Nat /\ PackBytes \in Nat /\ MaxBytes \in Nat
  BY Finite, Constants, FS_CardinalityType
<1>2. MaxBytes \div 2 \in Nat /\ MaxBytes \div 2 <= MaxBytes
  BY <1>1
<1>3. PackBytes * Cardinality(Senders) \in Nat
  BY <1>1
<1> QED
  BY <1>1, <1>2, <1>3 DEF SendReserved, Smaller

LEMMA InitInv == Init => Inv
<1> SUFFICES ASSUME Init PROVE Inv
  OBVIOUS
<1>1. TypeInv
  <2>1. /\ at \in [Workers \cup Senders -> WorkerPlaces \cup SenderPlaces]
        /\ \A w \in Workers : at[w] \in WorkerPlaces
        /\ \A s \in Senders : at[s] \in SenderPlaces
    BY Constants DEF Init, WorkerPlaces, SenderPlaces
  <2>2. task \in [Workers \cup Senders -> Task]
    BY DEF Init, Task, NoTask
  <2>3. call \in [Adders -> CallPlaces]
    BY DEF Init, CallPlaces
  <2>4. hand \in [Workers -> Seq(Nat)] /\ pool \in [Pools -> Nat]
    BY DEF Init
  <2>5. sealed \in Seq(Nat) /\ ingress \in Seq(Item) /\ sendq \in Seq(Task)
    BY DEF Init
  <2>6. /\ builder \in [{"default", "keyed"} -> Nat] /\ force \in [Adders -> BOOLEAN]
        /\ batch \in [Adders -> Nat] /\ cond \in [Threads -> {"none", "asleep", "woken"}]
    BY DEF Init
  <2>7. /\ phase \in {"open", "closing", "stopped"} /\ sendStop \in BOOLEAN /\ flush \in BOOLEAN
        /\ closer \subseteq Adders /\ raw \in Nat /\ inflight \in Nat /\ accepted \in Nat
        /\ ended \in Nat /\ late \in Nat
    BY DEF Init
  <2> QED BY <2>1, <2>2, <2>3, <2>4, <2>5, <2>6, <2>7 DEF TypeInv
<1>2. PlaceInv
  BY Constants DEF Init, PlaceInv, AdderOK, WorkerOK, SenderOK, NoTask
<1>3. TlsTotal = 0 /\ CopyTotal = 0 /\ BatchTotal = 0 /\ PendingTotal = 0
  <2>1. \A t \in Adders : TlsBytes(t) = 0 /\ Copying(t) = 0 /\ batch[t] = 0 /\ Pending(t) = 0
    BY DEF Init, TlsBytes, Copying, Pending
  <2>2. ASSUME NEW F, F \in [Adders -> Nat], \A x \in Adders : F[x] = 0 PROVE Sum(F) = 0
    BY <2>2, SumZero
  <2>3. AdderMaps
    BY <1>1, AdderMapsNat
  <2>4. TlsTotal = 0
    BY <2>1, <2>2, <2>3 DEF AdderMaps, TlsTotal
  <2>5. CopyTotal = 0
    BY <2>1, <2>2, <2>3 DEF AdderMaps, CopyTotal
  <2>6. BatchTotal = 0
    BY <2>1, <2>2, <2>3 DEF AdderMaps, BatchTotal
  <2>7. PendingTotal = 0
    BY <2>1, <2>2, <2>3 DEF AdderMaps, PendingTotal
  <2> QED BY <2>4, <2>5, <2>6, <2>7
<1>4. HandTotal = 0 /\ HeldTotal = 0 /\ PushTotal = 0 /\ WorkTotal = 0 /\ UnpackedTotal = 0
  <2>1. \A w \in Workers : /\ Sum(hand[w]) = 0 /\ task[w].held = 0 /\ At({"push"}, w) = 0
                            /\ task[w].logs = 0 /\ Unpacked(w) = 0
    BY SumEmpty DEF Init, At, Unpacked, NoTask
  <2>2. ASSUME NEW F, F \in [Workers -> Nat], \A x \in Workers : F[x] = 0 PROVE Sum(F) = 0
    BY <2>2, SumZero
  <2>3. WorkerMaps
    BY <1>1, <1>2, WorkerMapsNat
  <2>4. HandTotal = 0
    BY <2>1, <2>2, <2>3 DEF WorkerMaps, HandTotal
  <2>5. HeldTotal = 0
    BY <2>1, <2>2, <2>3 DEF WorkerMaps, HeldTotal
  <2>6. PushTotal = 0
    BY <2>1, <2>2, <2>3 DEF WorkerMaps, PushTotal
  <2>7. WorkTotal = 0
    BY <2>1, <2>2, <2>3 DEF WorkerMaps, WorkTotal
  <2>8. UnpackedTotal = 0
    BY <2>1, <2>2, <2>3 DEF WorkerMaps, UnpackedTotal
  <2> QED BY <2>4, <2>5, <2>6, <2>7, <2>8
<1>5. PoppedTotal = 0 /\ SendingTotal = 0 /\ SentTotal = 0 /\ SendingCount = 0
  <2>1. \A s \in Senders : /\ At({"popped"}, s) = 0 /\ At({"sending"}, s) = 0
                            /\ task[s].logs = 0 /\ IsSending(s) = 0
    BY Constants DEF Init, At, IsSending, NoTask
  <2>2. ASSUME NEW F, F \in [Senders -> Nat], \A x \in Senders : F[x] = 0 PROVE Sum(F) = 0
    BY <2>2, SumZero
  <2>3. SenderMaps
    BY <1>1, SenderMapsNat
  <2>4. PoppedTotal = 0
    BY <2>1, <2>2, <2>3 DEF SenderMaps, PoppedTotal
  <2>5. SendingTotal = 0
    BY <2>1, <2>2, <2>3 DEF SenderMaps, SendingTotal
  <2>6. SentTotal = 0
    BY <2>1, <2>2, <2>3 DEF SenderMaps, SentTotal
  <2>7. SendingCount = 0
    BY <2>1, <2>2, <2>3 DEF SenderMaps, SendingCount
  <2> QED BY <2>4, <2>5, <2>6, <2>7
<1>6. Sum(sealed) = 0 /\ Logs(ingress) = 0 /\ Logs(sendq) = 0 /\ Mem(sendq) = 0
  BY SumEmpty, LogsEmpty DEF Init
<1>7. Exact
  BY <1>3, <1>4, <1>5, <1>6, Constants DEF Init, Exact, Built, RawTotal, Stored, Pools, IngressLogs, SendMem,
         QueuePool, IngressPool, SendPool, InflightPool, ScratchPool, TlsPool
<1>8. Counted
  BY <1>3, <1>4, <1>5, <1>6 DEF Init, Counted, Built, Queued, Taken, WorkersGone, IngressLogs, SendLogs
<1>9. WithinBudget
  BY Reserved, Constants DEF Init, WithinBudget, IngressBytes, BufferedBytes, Pools
<1> QED
  BY <1>1, <1>2, <1>7, <1>8, <1>9 DEF Inv

-------------------------------------------------------------------------------
(* The steps of an adder *)

CondType == cond \in [Threads -> {"none", "asleep", "woken"}]

LEMMA WakeType ==
    ASSUME CondType, NEW ts, NEW t
    PROVE  Wake(ts, t) \in [Threads -> {"none", "asleep", "woken"}]
  BY DEF CondType, Wake

CondMoves(t) ==
    Quiet(t) \/ Broadcast(t) \/ (\E n : Signals(n, t)) \/ Sleep(t) \/ UNCHANGED cond

LEMMA CondSteps == ASSUME CondType, NEW t, CondMoves(t) PROVE CondType'
<1>1. CASE Quiet(t) \/ Broadcast(t)
  BY <1>1, WakeType DEF Quiet, Broadcast, CondType
<1>2. CASE \E n : Signals(n, t)
  BY <1>2, WakeType DEF Signals, CondType
<1>3. CASE Sleep(t) \/ UNCHANGED cond
  BY <1>3 DEF Sleep, CondType
<1> QED
  BY <1>1, <1>2, <1>3 DEF CondMoves

LEMMA RawProduct ==
    ASSUME NEW n \in Nat
    PROVE  RawBytes * (n + 1) = RawBytes * n + RawBytes
  BY Constants

(* What a step of adder t may change.  A producer is no longer open only      *)
(* when no closer is left, and only a thread that is alone starts to close.   *)
AdderMoves(t) ==
    /\ UNCHANGED <<running, sendq, sendStop>> /\ OnlyAdder(t) /\ AdderOK(t)'
    /\ \/ phase' = phase /\ closer' \in {closer, closer \ {t}}
       \/ phase' = phase /\ closer = {} /\ closer' = {t}
       \/ phase = "open" /\ phase' = "closing" /\ closer' = {}
       \/ phase' = "stopped" /\ closer = {} /\ closer' = {}

Numbers == Amounts /\ AdderNat /\ WorkerNat /\ SenderNat
AdderLedger(t) ==
    /\ Numbers /\ Numbers' /\ AdderChange(t) /\ AdderEach(t) /\ AdderEach(t)'
    /\ WorkerStill /\ SenderStill /\ WorkersGone' = WorkersGone
    /\ SendLogs' = SendLogs /\ SendMem' = SendMem /\ SendReserved' = SendReserved

LEMMA AdderStep ==
    ASSUME Inv, TypeInv', NEW t \in Adders, AdderMoves(t)
    PROVE  PlaceInv' /\ AdderLedger(t)
<1>1. \A u \in Adders : AdderOK(u)'
  <2>1. ASSUME NEW u \in Adders, u # t PROVE AdderOK(u)'
    BY <2>1 DEF Inv, PlaceInv, AdderMoves, OnlyAdder, AdderOK
  <2> QED BY <2>1 DEF AdderMoves
<1>2. \A w \in Workers : WorkerOK(w)'
  <2>1. (phase = "stopped") => (phase' = "stopped")
    BY DEF AdderMoves
  <2> QED BY <2>1 DEF Inv, PlaceInv, AdderMoves, WorkerOK, running
<1>3. \A s \in Senders : SenderOK(s)'
  BY DEF Inv, PlaceInv, AdderMoves, SenderOK, running
<1>4. PlaceInv'
  <2>1. sendStop' => phase' = "stopped"
    BY DEF Inv, PlaceInv, AdderMoves
  <2> QED BY <1>1, <1>2, <1>3, <2>1 DEF PlaceInv
<1>5. NoWorker /\ NoSender /\ OnlyAdder(t)
  BY DEF AdderMoves, running, NoWorker, NoSender
<1>6. Amounts /\ Amounts'
  <2>1. TypeInv' => Amounts'
    BY AmountsNat, PTL
  <2> QED BY <2>1, AmountsNat DEF Inv
<1>7. AdderChange(t) /\ AdderSums /\ AdderSums'
  BY <1>5, AdderChanges DEF Inv
<1>8. WorkerStill /\ WorkerSums /\ WorkerSums'
  BY <1>4, <1>5, WorkerStays DEF Inv
<1>9. SenderStill /\ SenderSums /\ SenderSums'
  BY <1>5, SenderStays DEF Inv
<1>10. /\ SendLogs' = SendLogs /\ SendMem' = SendMem /\ SendReserved' = SendReserved
       /\ WorkersGone' = WorkersGone
  BY DEF AdderMoves, SendReserved, running, WorkersGone, SendLogs, SendMem
<1>11. Numbers /\ Numbers' /\ AdderEach(t) /\ AdderEach(t)'
  BY <1>6, <1>7, <1>8, <1>9 DEF Numbers, AdderSums, WorkerSums, SenderSums
<1> QED
  BY <1>4, <1>7, <1>8, <1>9, <1>10, <1>11 DEF AdderLedger

(* n logs join a builder.                                                    *)
LEMMA JoinSums ==
    ASSUME TypeInv, NEW b \in {"default", "keyed"}, NEW n \in Nat, NEW f \in BOOLEAN, Join(b, n, f)
    PROVE  /\ builder' \in [{"default", "keyed"} -> Nat] /\ sealed' \in Seq(Nat) /\ flush' \in BOOLEAN
           /\ Built' = Built + n
           /\ raw' = raw => Stored' = Stored + n
           /\ UNCHANGED <<raw, ingress>> => Queued' = Queued + n
<1>1. builder[b] + n \in Nat /\ sealed \in Seq(Nat) /\ Sum(sealed) \in Nat
  BY SumSeq DEF TypeInv
<1>2. /\ Append(sealed, builder[b] + n) \in Seq(Nat)
      /\ Sum(Append(sealed, builder[b] + n)) = Sum(sealed) + (builder[b] + n)
  BY <1>1, SumAppend
<1>a. /\ "default" \in {"default", "keyed"} /\ "keyed" \in {"default", "keyed"}
      /\ builder["default"] \in Nat /\ builder["keyed"] \in Nat /\ b \in {"default", "keyed"}
  BY DEF TypeInv
<1> DEFINE Joined ==
        /\ builder' \in [{"default", "keyed"} -> Nat] /\ sealed' \in Seq(Nat) /\ flush' \in BOOLEAN
        /\ Built' = Built + n
<1>3. ASSUME Fills(b, n, f) PROVE Joined
  <2>1. /\ builder' = [builder EXCEPT ![b] = 0] /\ sealed' = Append(sealed, builder[b] + n)
        /\ flush' = TRUE
    BY <1>3 DEF Join
  <2>2. Sum(sealed)' = Sum(sealed) + (builder[b] + n)
    BY <1>2, <2>1
  <2>3. Built' = Built + n
    <3>1. PICK d \in Nat, k \in Nat, z \in Nat : d = builder["default"] /\ k = builder["keyed"] /\ z = Sum(sealed)
      BY <1>1, <1>a
    <3>2. Built = d + k + z
      BY <3>1 DEF Built
    <3>a. builder["default"] = d /\ builder["keyed"] = k /\ builder \in [{"default", "keyed"} -> Nat]
      BY <3>1 DEF TypeInv
    <3>b. Built' = builder'["default"] + builder'["keyed"] + Sum(sealed)'
      BY DEF Built
    <3>3. CASE b = "default"
      <4>1. builder'["default"] = 0 /\ builder'["keyed"] = k /\ Sum(sealed)' = z + (d + n)
        BY <2>1, <2>2, <3>1, <3>a, <3>3
      <4> QED BY <3>2, <3>b, <4>1
    <3>4. CASE b = "keyed"
      <4>1. builder'["default"] = d /\ builder'["keyed"] = 0 /\ Sum(sealed)' = z + (k + n)
        BY <2>1, <2>2, <3>1, <3>a, <3>4
      <4> QED BY <3>2, <3>b, <4>1
    <3> QED BY <1>a, <3>3, <3>4
  <2>4. builder' \in [{"default", "keyed"} -> Nat]
    BY <2>1 DEF TypeInv
  <2>5. sealed' \in Seq(Nat) /\ flush' \in BOOLEAN
    BY <1>2, <2>1
  <2> QED BY <2>3, <2>4, <2>5
<1>4. ASSUME ~Fills(b, n, f) PROVE Joined
  <2>1. builder' = [builder EXCEPT ![b] = @ + n] /\ sealed' = sealed /\ flush' = flush
    BY <1>4 DEF Join, TypeInv
  <2>2. Sum(sealed)' = Sum(sealed)
    BY <2>1
  <2>3. Built' = Built + n
    <3>1. PICK d \in Nat, k \in Nat, z \in Nat : d = builder["default"] /\ k = builder["keyed"] /\ z = Sum(sealed)
      BY <1>1, <1>a
    <3>2. Built = d + k + z
      BY <3>1 DEF Built
    <3>a. builder["default"] = d /\ builder["keyed"] = k /\ builder \in [{"default", "keyed"} -> Nat]
      BY <3>1 DEF TypeInv
    <3>b. Built' = builder'["default"] + builder'["keyed"] + Sum(sealed)'
      BY DEF Built
    <3>3. CASE b = "default"
      <4>1. builder'["default"] = d + n /\ builder'["keyed"] = k /\ Sum(sealed)' = z
        BY <2>1, <2>2, <3>1, <3>a, <3>3
      <4> QED BY <3>2, <3>b, <4>1
    <3>4. CASE b = "keyed"
      <4>1. builder'["default"] = d /\ builder'["keyed"] = k + n /\ Sum(sealed)' = z
        BY <2>1, <2>2, <3>1, <3>a, <3>4
      <4> QED BY <3>2, <3>b, <4>1
    <3> QED BY <1>a, <3>3, <3>4
  <2>0. builder[b] + n \in Nat /\ builder \in [{"default", "keyed"} -> Nat] /\ flush \in BOOLEAN
    BY <1>1 DEF TypeInv
  <2>4. builder' \in [{"default", "keyed"} -> Nat]
    BY <2>0, <2>1
  <2>5. sealed' \in Seq(Nat) /\ flush' \in BOOLEAN
    BY <1>1, <2>0, <2>1
  <2> QED BY <2>3, <2>4, <2>5
<1>5. Joined
  BY <1>3, <1>4
<1>6. /\ raw' = raw => RawTotal' = RawTotal
      /\ ingress' = ingress => IngressLogs' = IngressLogs
  BY DEF RawTotal, IngressLogs
<1>7. Amounts
  BY AmountsNat
<1> QED
  BY <1>3, <1>4, <1>5, <1>6, <1>7 DEF Stored, Queued, Amounts

(* What a step of adder t has to balance, in its own terms.                   *)
AdderBalance(t) ==
    /\ TlsPool' + TlsBytes(t) = TlsPool + TlsBytes(t)'
    /\ QueuePool' + Stored + Copying(t) = QueuePool + Stored' + Copying(t)'
    /\ IngressPool' + IngressLogs = IngressPool + IngressLogs'
    /\ SendPool' = SendPool /\ InflightPool' = InflightPool
    /\ ScratchPool' = ScratchPool /\ inflight' = inflight /\ ended' = ended
    /\ accepted' + Pending(t)' + batch[t] + Queued = accepted + Pending(t) + batch'[t] + Queued'
    /\ late' + batch'[t] + accepted + Pending(t) <= late + batch[t] + accepted' + Pending(t)'
    /\ WorkersGone => Queued' + late <= Queued + late'

LEMMA AdderBooks ==
    ASSUME Exact, Counted, NEW t \in Adders, AdderLedger(t), AdderBalance(t)
    PROVE  Exact' /\ Counted'
<1>1. Numbers /\ Numbers' /\ WorkerStill /\ SenderStill
  BY DEF AdderLedger
<1>2. /\ TlsPool \in Nat /\ TlsTotal \in Nat /\ QueuePool \in Nat /\ Stored \in Nat
      /\ CopyTotal \in Nat /\ HandTotal \in Nat /\ IngressPool \in Nat /\ IngressLogs \in Nat
      /\ accepted \in Nat /\ ended \in Nat /\ late \in Nat /\ Queued \in Nat
      /\ BatchTotal \in Nat /\ PendingTotal \in Nat /\ Taken \in Nat
  BY <1>1 DEF Numbers, Amounts, AdderNat, WorkerNat, SenderNat, Taken
<1>3. PICK x \in Nat, x1 \in Nat, c \in Nat, c1 \in Nat, b \in Nat, b1 \in Nat, p \in Nat, p1 \in Nat :
        /\ x = TlsBytes(t) /\ x1 = TlsBytes(t)' /\ c = Copying(t) /\ c1 = Copying(t)'
        /\ b = batch[t] /\ b1 = batch'[t] /\ p = Pending(t) /\ p1 = Pending(t)'
  BY DEF AdderLedger, AdderEach
<1>4. PICK tt \in Nat, ct \in Nat, bt \in Nat, pt \in Nat :
        tt = TlsTotal' /\ ct = CopyTotal' /\ bt = BatchTotal' /\ pt = PendingTotal'
  BY <1>1 DEF Numbers, AdderNat
<1>5. PICK tp \in Nat, qp \in Nat, ip \in Nat, il \in Nat, st \in Nat, qd \in Nat, ac \in Nat, la \in Nat :
        /\ tp = TlsPool' /\ qp = QueuePool' /\ ip = IngressPool' /\ il = IngressLogs'
        /\ st = Stored' /\ qd = Queued' /\ ac = accepted' /\ la = late'
  BY <1>1 DEF Numbers, Amounts
<1>6. /\ tt + x = TlsTotal + x1 /\ ct + c = CopyTotal + c1
      /\ bt + b = BatchTotal + b1 /\ pt + p = PendingTotal + p1
  BY <1>3, <1>4 DEF AdderLedger, AdderChange
<1>7. /\ tp + x = TlsPool + x1 /\ qp + Stored + c = QueuePool + st + c1
      /\ ac + p1 + b + Queued = accepted + p + b1 + qd
      /\ la + b1 + accepted + p <= late + b + ac + p1
      /\ ip + IngressLogs = IngressPool + il
  BY <1>3, <1>5 DEF AdderBalance
<1>8. /\ SendPool' = SendPool /\ InflightPool' = InflightPool
      /\ ScratchPool' = ScratchPool /\ inflight' = inflight /\ ended' = ended
      /\ WorkersGone => qd + late <= Queued + la
  BY <1>5 DEF AdderBalance
<1>9. HandTotal' = HandTotal /\ Taken' = Taken /\ WorkersGone' = WorkersGone
  BY <1>1 DEF AdderLedger, WorkerStill, SenderStill, Taken
<1>10. TlsPool = TlsTotal /\ QueuePool = Stored + CopyTotal + HandTotal /\ IngressPool = IngressLogs
  BY DEF Exact
<1>11. accepted + PendingTotal = ended + BatchTotal + Queued + Taken
      /\ late + BatchTotal <= accepted + PendingTotal /\ (WorkersGone => Queued <= late)
  BY DEF Counted
<1>12. tp = tt /\ ip = il /\ qp = st + ct + HandTotal
  BY <1>2, <1>6, <1>7, <1>10
<1>13. ac + pt = ended + bt + qd + Taken
  BY <1>2, <1>6, <1>7, <1>11
<1>14. la + bt <= ac + pt
  BY <1>2, <1>6, <1>7, <1>11
<1>15. WorkersGone => qd <= la
  BY <1>2, <1>8, <1>11
<1>16. Exact'
  BY <1>1, <1>4, <1>5, <1>8, <1>9, <1>12 DEF Exact, AdderLedger, WorkerStill, SenderStill
<1>17. Counted'
  BY <1>1, <1>4, <1>5, <1>8, <1>9, <1>13, <1>14, <1>15 DEF Counted, SenderStill
<1> QED
  BY <1>16, <1>17

(* What adds hold may have grown by what they asked space for.               *)
LEMMA AdderBudget ==
    ASSUME WithinBudget, NEW t, AdderLedger(t), NEW n \in Nat, n > 0 => HasSpace(n, FALSE),
           SendPool' = SendPool, InflightPool' = InflightPool,
           ScratchPool' = ScratchPool, IngressBytes' <= IngressBytes + n
    PROVE  WithinBudget'
<1>1. IngressBytes \in Nat /\ IngressBytes' \in Nat /\ SendReserved' = SendReserved /\ Amounts
  BY DEF AdderLedger, Numbers, Amounts, IngressBytes, QueuePool, IngressPool, TlsPool
<1>2. IngressBytes' <= MaxBytes - SendReserved
  BY <1>1, Reserved, Constants DEF WithinBudget, HasSpace
<1>3. BufferedBytes' - IngressBytes' <= MaxBytes
  BY <1>1 DEF WithinBudget, BufferedBytes, Amounts, SendPool, InflightPool, ScratchPool
<1> QED
  BY <1>1, <1>2, <1>3 DEF WithinBudget

LEMMA AdderNoMore ==
    ASSUME WithinBudget, NEW t, AdderLedger(t), SendPool' = SendPool, InflightPool' = InflightPool,
           ScratchPool' = ScratchPool, IngressBytes' <= IngressBytes
    PROVE  WithinBudget'
<1>1. IngressBytes \in Nat /\ IngressBytes' \in Nat
  BY DEF AdderLedger, Numbers, Amounts, IngressBytes, QueuePool, IngressPool, TlsPool
<1>2. PICK n \in Nat : n = 0
  OBVIOUS
<1>3. IngressBytes' <= IngressBytes + n /\ ~(n > 0)
  BY <1>1, <1>2
<1> QED
  BY <1>3, AdderBudget

LEMMA AddKeyedStep == ASSUME Inv, NEW t \in Adders, AddKeyed(t) PROVE Inv'
<1>0. TypeInv /\ PlaceInv /\ Exact /\ Counted /\ WithinBudget
  BY DEF Inv
<1>1. /\ builder' \in [{"default", "keyed"} -> Nat] /\ sealed' \in Seq(Nat) /\ flush' \in BOOLEAN
      /\ Stored' = Stored + 1 /\ Queued' = Queued + 1
  BY <1>0, JoinSums DEF AddKeyed, TypeInv
<1>2. pool' = [pool EXCEPT !["queue"] = @ + 1] /\ pool["queue"] \in Nat
  BY <1>0 DEF AddKeyed, Take, TypeInv, Pools
<1>3. /\ call' = [call EXCEPT ![t] = "idle"] /\ force' = [force EXCEPT ![t] = FALSE]
      /\ closer' = closer \ {t} /\ accepted' = accepted + 1 /\ late' = late
  BY DEF AddKeyed, Accept, Return
<1>4. TypeInv'
  <2>0. CondMoves(t)
    BY DEF AddKeyed, CondMoves, SignalsIf
  <2>1. CondType'
    BY <1>0, <2>0, CondSteps DEF TypeInv, CondType
  <2>2. pool' \in [Pools -> Nat]
    BY <1>0, <1>2 DEF TypeInv, Pools
  <2>3. call' \in [Adders -> CallPlaces] /\ force' \in [Adders -> BOOLEAN] /\ closer' \subseteq Adders
        /\ accepted' \in Nat /\ late' \in Nat
    BY <1>0, <1>3 DEF TypeInv, CallPlaces
  <2> QED BY <1>0, <1>1, <2>1, <2>2, <2>3 DEF TypeInv, AddKeyed, CondType, gates, running
<1>5. AdderMoves(t)
  BY <1>0, <1>3 DEF AddKeyed, AdderMoves, OnlyAdder, AdderOK, TypeInv, gates
<1>6. PlaceInv' /\ AdderLedger(t)
  BY <1>4, <1>5, AdderStep
<1>7. /\ TlsBytes(t)' = TlsBytes(t) /\ Copying(t)' = Copying(t) /\ batch'[t] = batch[t]
      /\ Pending(t)' = Pending(t)
  BY <1>0, <1>3 DEF AddKeyed, TlsBytes, Copying, Pending, TypeInv
<1>8. /\ IngressLogs' = IngressLogs /\ ended' = ended
      /\ inflight' = inflight /\ Need(t) = 1
  BY DEF AddKeyed, running, Need, IngressLogs
<1>9. /\ QueuePool' = QueuePool + 1 /\ IngressPool' = IngressPool
      /\ SendPool' = SendPool /\ InflightPool' = InflightPool
      /\ ScratchPool' = ScratchPool /\ TlsPool' = TlsPool
  BY <1>0, <1>2 DEF TypeInv, Pools, QueuePool, IngressPool, SendPool, InflightPool, ScratchPool, TlsPool
<1>10. Exact' /\ Counted'
  <2>1. ~WorkersGone
    BY <1>0, Constants DEF PlaceInv, WorkerOK, WorkersGone, AddKeyed
  <2>2. Numbers /\ AdderEach(t)
    BY <1>6 DEF AdderLedger
  <2>3. AdderBalance(t)
    <3>1. PICK b \in Nat, p \in Nat, c \in Nat : b = batch[t] /\ p = Pending(t) /\ c = Copying(t)
      BY <2>2 DEF AdderEach
    <3>2. batch'[t] = b /\ Pending(t)' = p /\ Copying(t)' = c
      BY <1>7, <3>1
    <3>3. Stored \in Nat /\ Queued \in Nat /\ QueuePool \in Nat /\ accepted \in Nat /\ late \in Nat
      BY <2>2 DEF Numbers, Amounts
    <3>4. accepted' + p + b + Queued = accepted + p + b + Queued'
      BY <1>1, <1>3, <3>3
    <3>5. late' + b + accepted + p <= late + b + accepted' + p
      BY <1>3, <3>3
    <3>6. QueuePool' + Stored + c = QueuePool + Stored' + c
      BY <1>1, <1>9, <3>3
    <3> QED BY <1>7, <1>8, <1>9, <2>1, <3>1, <3>2, <3>4, <3>5, <3>6 DEF AdderBalance
  <2> QED BY <1>0, <1>6, <2>3, AdderBooks
<1>11. WithinBudget'
  <2>1. HasSpace(1, FALSE)
    BY DEF AddKeyed, GetsSpace
  <2>2. IngressBytes' <= IngressBytes + 1
    BY <1>6, <1>9 DEF IngressBytes, AdderLedger, Numbers, Amounts, QueuePool, IngressPool, TlsPool
  <2> QED BY <1>0, <1>6, <1>9, <2>1, <2>2, AdderBudget
<1> QED
  BY <1>4, <1>6, <1>10, <1>11 DEF Inv

(* Steps of an adder that move no log and no byte.                           *)
AdderSame(t) ==
    /\ TlsBytes(t)' = TlsBytes(t) /\ Copying(t)' = Copying(t)
    /\ batch'[t] = batch[t] /\ Pending(t)' = Pending(t)

LEMMA AdderQuiet ==
    ASSUME Inv, TypeInv', NEW t \in Adders, AdderMoves(t), AdderSame(t),
           UNCHANGED <<pool, queues, accepted, late>>
    PROVE  Inv'
<1>0. Exact /\ Counted /\ WithinBudget
  BY DEF Inv
<1>1. PlaceInv' /\ AdderLedger(t)
  BY AdderStep
<1>2. /\ TlsPool' = TlsPool /\ QueuePool' = QueuePool /\ IngressPool' = IngressPool
      /\ SendPool' = SendPool /\ InflightPool' = InflightPool /\ ScratchPool' = ScratchPool
      /\ Stored' = Stored /\ Queued' = Queued /\ IngressLogs' = IngressLogs
      /\ accepted' = accepted /\ late' = late /\ ended' = ended /\ inflight' = inflight
  BY DEF queues, AdderMoves, running, Stored, Queued, IngressLogs, Built, RawTotal,
         QueuePool, IngressPool, SendPool, InflightPool, ScratchPool, TlsPool
<1>3. AdderBalance(t)
  <2>1. /\ TlsPool \in Nat /\ QueuePool \in Nat /\ IngressPool \in Nat /\ Stored \in Nat /\ Queued \in Nat
        /\ IngressLogs \in Nat /\ accepted \in Nat /\ late \in Nat
    BY <1>1 DEF AdderLedger, Numbers, Amounts
  <2>2. PICK x \in Nat, c \in Nat, b \in Nat, p \in Nat :
          x = TlsBytes(t) /\ c = Copying(t) /\ b = batch[t] /\ p = Pending(t)
    BY <1>1 DEF AdderLedger, AdderEach
  <2>3. late + b + accepted + p <= late + b + accepted + p /\ Queued + late <= Queued + late
    BY <2>1
  <2> QED BY <1>2, <2>2, <2>3 DEF AdderSame, AdderBalance
<1>4. Exact' /\ Counted'
  BY <1>0, <1>1, <1>3, AdderBooks
<1>5. WithinBudget'
  <2>1. SendReserved' = SendReserved
    BY <1>1 DEF AdderLedger
  <2> QED BY <1>0, <2>1 DEF WithinBudget, IngressBytes, BufferedBytes
<1> QED
  BY <1>1, <1>4, <1>5 DEF Inv

LEMMA AddStep == ASSUME Inv, NEW t \in Adders, Add(t) PROVE Inv'
<1>0. TypeInv /\ PlaceInv
  BY DEF Inv
<1>1. PICK path \in {"batch", "keyed", "raw"}, f \in BOOLEAN :
        call' = [call EXCEPT ![t] = path] /\ force' = [force EXCEPT ![t] = f]
  <2>1. Paths[t] \subseteq {"batch", "keyed", "raw"}
    BY BudgetAssumption DEF BudgetAssumption
  <2> QED BY <2>1 DEF Add
<1>2. TypeInv'
  <2>1. call' \in [Adders -> CallPlaces] /\ force' \in [Adders -> BOOLEAN]
    BY <1>0, <1>1 DEF TypeInv, CallPlaces
  <2> QED BY <1>0, <2>1 DEF TypeInv, Add, gates, queues, running
<1>3. call[t] = "idle" /\ call'[t] = path /\ t \notin closer /\ closer' = closer /\ batch' = batch
  BY <1>0, <1>1 DEF Add, TypeInv, PlaceInv, AdderOK
<1>4. AdderMoves(t)
  BY <1>0, <1>1, <1>3 DEF Add, AdderMoves, OnlyAdder, AdderOK, TypeInv, gates
<1>5. AdderSame(t)
  BY <1>3 DEF AdderSame, TlsBytes, Copying, Pending
<1> QED
  BY <1>2, <1>4, <1>5, AdderQuiet DEF Add

(* A thread returns.                                                         *)
LEMMA ReturnTypes ==
    ASSUME TypeInv, NEW t \in Adders, Return(t)
    PROVE  /\ call' \in [Adders -> CallPlaces] /\ force' \in [Adders -> BOOLEAN]
           /\ closer' \subseteq Adders /\ closer' = closer \ {t}
           /\ call'[t] = "idle" /\ t \notin closer'
           /\ \A u \in Adders : u # t => call'[u] = call[u] /\ (u \in closer') = (u \in closer)
  BY DEF TypeInv, CallPlaces, Return

LEMMA ClosedStep == ASSUME Inv, NEW t \in Adders, Closed(t) PROVE Inv'
<1>0. TypeInv /\ PlaceInv
  BY DEF Inv
<1>1. Return(t) /\ UNCHANGED <<accepted, late>>
  BY DEF Closed, Refuse
<1>2. TypeInv'
  BY <1>0, <1>1, ReturnTypes DEF TypeInv, Closed, gates, queues, running
<1>3. AdderMoves(t)
  BY <1>0, <1>1, ReturnTypes DEF Closed, AdderMoves, OnlyAdder, AdderOK, gates
<1>4. AdderSame(t)
  BY <1>0, <1>1, ReturnTypes DEF Closed, AdderSame, TlsBytes, Copying, Pending
<1> QED
  BY <1>1, <1>2, <1>3, <1>4, AdderQuiet DEF Closed

LEMMA StartCloseStep == ASSUME Inv, NEW t \in Adders, StartClose(t) PROVE Inv'
<1>0. TypeInv /\ PlaceInv
  BY DEF Inv
<1>1. /\ call[t] = "idle" /\ phase = "open" /\ closer = {} /\ batch[t] \in Nat
      /\ UNCHANGED <<policy, sendStop, pool, queues, sendq, batch, calls, accepted, late, running>>
  BY <1>0 DEF StartClose, TypeInv
<1>2. CASE batch[t] > 0
  <2>1. /\ call' = [call EXCEPT ![t] = "flush"] /\ closer' = closer \cup {t}
        /\ force' = [force EXCEPT ![t] = TRUE] /\ UNCHANGED <<phase, flush, cond>>
    BY <1>2 DEF StartClose
  <2>2. TypeInv'
    <3>1. call' \in [Adders -> CallPlaces] /\ force' \in [Adders -> BOOLEAN] /\ closer' \subseteq Adders
      BY <1>0, <2>1 DEF TypeInv, CallPlaces
    <3> QED BY <1>0, <1>1, <2>1, <3>1 DEF TypeInv, queues, running
  <2>3. call'[t] = "flush" /\ closer' = {t}
    BY <1>0, <1>1, <2>1 DEF TypeInv
  <2>4. AdderMoves(t)
    BY <1>0, <1>1, <1>2, <2>1, <2>3 DEF AdderMoves, OnlyAdder, AdderOK, TypeInv
  <2>5. AdderSame(t)
    BY <1>1, <2>3 DEF AdderSame, TlsBytes, Copying, Pending
  <2> QED BY <1>1, <2>2, <2>4, <2>5, AdderQuiet
<1>3. CASE ~(batch[t] > 0)
  <2>1. phase' = "closing" /\ flush' = TRUE /\ Broadcast(t) /\ UNCHANGED <<call, closer, force>>
    BY <1>3 DEF StartClose
  <2>2. TypeInv'
    <3>1. CondType'
      BY <1>0, <2>1, CondSteps DEF CondMoves, TypeInv, CondType
    <3> QED BY <1>0, <1>1, <2>1, <3>1 DEF TypeInv, CondType, queues, running
  <2>3. AdderMoves(t)
    BY <1>0, <1>1, <2>1 DEF AdderMoves, OnlyAdder, AdderOK
  <2>4. AdderSame(t)
    BY <1>1, <2>1 DEF AdderSame, TlsBytes, Copying, Pending
  <2> QED BY <1>1, <2>2, <2>3, <2>4, AdderQuiet
<1> QED
  BY <1>2, <1>3

(* Steps in which no thread goes anywhere, and the producer ends at most.    *)
LEMMA GatesMove ==
    ASSUME Inv, flush' \in BOOLEAN, CondType', phase' \in {"open", "closing", "stopped"},
           sendStop' \in BOOLEAN, sendStop => sendStop', sendStop' => phase' = "stopped",
           phase = "stopped" => phase' = "stopped", closer # {} => phase' = phase,
           UNCHANGED <<pool, queues, sendq, call, force, closer, batch, accepted, late, running>>
    PROVE  Inv'
<1>0. TypeInv /\ PlaceInv /\ Exact /\ Counted /\ WithinBudget
  BY DEF Inv
<1>1. TypeInv'
  BY <1>0 DEF TypeInv, CondType, queues, running
<1>2. PlaceInv'
  BY <1>0 DEF PlaceInv, AdderOK, WorkerOK, SenderOK, running
<1>3. NoAdder /\ NoWorker /\ NoSender
  BY DEF NoAdder, NoWorker, NoSender, running
<1>4. AdderStill /\ WorkerStill /\ SenderStill
  BY <1>0, <1>1, <1>2, <1>3, AdderStays, WorkerStays, SenderStays
<1>5. /\ TlsPool' = TlsPool /\ QueuePool' = QueuePool /\ IngressPool' = IngressPool
      /\ SendPool' = SendPool /\ InflightPool' = InflightPool /\ ScratchPool' = ScratchPool
      /\ Stored' = Stored /\ Queued' = Queued /\ IngressLogs' = IngressLogs
      /\ SendLogs' = SendLogs /\ SendMem' = SendMem /\ SendReserved' = SendReserved
      /\ WorkersGone' = WorkersGone
  BY DEF queues, running, Stored, Queued, IngressLogs, Built, RawTotal, SendLogs, SendMem, SendReserved,
         WorkersGone, QueuePool, IngressPool, SendPool, InflightPool, ScratchPool, TlsPool
<1>6. Exact'
  BY <1>0, <1>4, <1>5 DEF Exact, AdderStill, WorkerStill, SenderStill
<1>7. Counted'
  BY <1>0, <1>4, <1>5 DEF Counted, AdderStill, WorkerStill, SenderStill, Taken, running
<1>8. WithinBudget'
  BY <1>0, <1>5 DEF WithinBudget, IngressBytes, BufferedBytes
<1> QED
  BY <1>1, <1>2, <1>6, <1>7, <1>8 DEF Inv

LEMMA NothingMoves ==
    ASSUME Inv, flush' \in BOOLEAN, CondType',
           UNCHANGED <<phase, sendStop, pool, queues, sendq, call, force, closer, batch, accepted,
                       late, running>>
    PROVE  Inv'
<1>1. /\ phase' \in {"open", "closing", "stopped"} /\ sendStop' \in BOOLEAN
      /\ sendStop' => phase' = "stopped"
  BY DEF Inv, TypeInv, PlaceInv
<1> QED
  BY <1>1, GatesMove

LEMMA FlushStep == ASSUME Inv, NEW t \in Adders, Flush(t) PROVE Inv'
<1>1. CondType'
  BY CondSteps DEF CondMoves, Flush, Inv, TypeInv, CondType
<1> QED
  BY <1>1, NothingMoves DEF Flush, gates

LEMMA BlocksStep == ASSUME Inv, NEW t, NEW n, NEW f, Blocks(t, n, f) PROVE Inv'
<1>1. CondType'
  <2>1. PICK ts : cond' = [Wake(ts, t) EXCEPT ![t] = "asleep"]
    BY DEF Blocks
  <2>2. Wake(ts, t) \in [Threads -> {"none", "asleep", "woken"}]
    BY WakeType DEF Inv, TypeInv, CondType
  <2> QED BY <2>1, <2>2 DEF CondType
<1> QED
  BY <1>1, NothingMoves DEF Blocks, gates, adding

LEMMA WaitEndsStep == ASSUME Inv, NEW t, WaitEnds(t) PROVE Inv'
<1>1. CondType'
  BY DEF WaitEnds, Inv, TypeInv, CondType
<1> QED
  BY <1>1, NothingMoves DEF WaitEnds, gates, adding, Inv, TypeInv

(* A log that cannot go on is taken out of the batch of its thread.          *)
LEMMA TakenBack ==
    ASSUME Inv, NEW t \in Adders, call[t] \notin {"append", "copy"}, Return(t), CondMoves(t),
           pool' = [pool EXCEPT !["tls"] = Less(@, Pending(t))],
           batch' = [batch EXCEPT ![t] = @ - Pending(t)], flush' \in BOOLEAN,
           UNCHANGED <<phase, sendStop, accepted, late, queues, sendq, running>>
    PROVE  Inv'
<1>0. TypeInv /\ PlaceInv /\ Exact /\ Counted /\ WithinBudget
  BY DEF Inv
<1>1. AdderEach(t) /\ AdderNat /\ Amounts
  BY <1>0, AdderSumsNat, AmountsNat DEF AdderSums
<1>2. PICK b \in Nat, p \in Nat : b = batch[t] /\ p = Pending(t)
  BY <1>1 DEF AdderEach
<1>3. p <= b /\ b <= TlsPool /\ TlsPool \in Nat
  <2>1. TlsTotal = TlsPool /\ TlsPool \in Nat /\ TlsBytes(t) = b /\ TlsBytes(t) <= TlsTotal
    BY <1>0, <1>1, <1>2 DEF Exact, Amounts, AdderEach, TlsBytes
  <2>2. p > 0 => p = 1 /\ b > 0
    BY <1>0, <1>2 DEF PlaceInv, AdderOK, Pending
  <2> QED BY <2>1, <2>2
<1>4. /\ TlsPool' = TlsPool - p /\ QueuePool' = QueuePool /\ IngressPool' = IngressPool
      /\ SendPool' = SendPool /\ InflightPool' = InflightPool /\ ScratchPool' = ScratchPool
      /\ pool' \in [Pools -> Nat] /\ batch'[t] = b - p
  <2>1. Less(TlsPool, p) = TlsPool - p /\ TlsPool - p \in Nat
    BY <1>2, <1>3 DEF Less
  <2>2. pool' = [pool EXCEPT !["tls"] = TlsPool - p]
    BY <1>2, <2>1 DEF TlsPool
  <2> QED BY <1>0, <1>2, <2>1, <2>2
          DEF TypeInv, Pools, QueuePool, IngressPool, SendPool, InflightPool, ScratchPool, TlsPool
<1>5. TypeInv'
  <2>1. b - p \in Nat
    BY <1>2, <1>3
  <2>2. batch' \in [Adders -> Nat]
    BY <1>0, <1>2, <2>1 DEF TypeInv
  <2>3. CondType'
    BY <1>0, CondSteps DEF TypeInv, CondType
  <2> QED BY <1>0, <1>4, <2>2, <2>3, ReturnTypes DEF TypeInv, CondType, queues, running
<1>6. AdderMoves(t)
  BY <1>0, ReturnTypes DEF AdderMoves, OnlyAdder, AdderOK, TypeInv
<1>7. PlaceInv' /\ AdderLedger(t)
  BY <1>5, <1>6, AdderStep
<1>8. /\ TlsBytes(t) = b /\ TlsBytes(t)' = b - p /\ Copying(t) = 0 /\ Copying(t)' = 0 /\ Pending(t)' = 0
  <2>1. call'[t] = "idle"
    BY <1>0, ReturnTypes
  <2> QED BY <1>2, <1>3, <1>4, <2>1 DEF TlsBytes, Copying, Pending
<1>9. /\ Stored' = Stored /\ Queued' = Queued /\ IngressLogs' = IngressLogs
      /\ accepted' = accepted /\ late' = late /\ ended' = ended /\ inflight' = inflight
  BY DEF queues, running, Stored, Queued, IngressLogs, Built, RawTotal
<1>10. AdderBalance(t)
  <2>1. /\ TlsPool \in Nat /\ QueuePool \in Nat /\ IngressPool \in Nat /\ Stored \in Nat /\ Queued \in Nat
        /\ IngressLogs \in Nat /\ accepted \in Nat /\ late \in Nat
    BY <1>1 DEF Amounts
  <2>2. TlsPool - p + b = TlsPool + (b - p)
    BY <1>3, <2>1
  <2>3. accepted + 0 + b + Queued = accepted + p + (b - p) + Queued
    BY <1>3, <2>1
  <2>4. late + (b - p) + accepted + p <= late + b + accepted + 0 /\ Queued + late <= Queued + late
    BY <1>3, <2>1
  <2> QED BY <1>2, <1>4, <1>8, <1>9, <2>2, <2>3, <2>4 DEF AdderBalance
<1>11. Exact' /\ Counted'
  BY <1>0, <1>7, <1>10, AdderBooks
<1>12. WithinBudget'
  <2>1. IngressBytes' <= IngressBytes
    <3>1. QueuePool \in Nat /\ IngressPool \in Nat /\ TlsPool \in Nat /\ IngressBytes \in Nat
      BY <1>1 DEF Amounts, IngressBytes, QueuePool, IngressPool, TlsPool
    <3>2. IngressBytes = QueuePool + IngressPool + TlsPool
      BY DEF IngressBytes, QueuePool, IngressPool, TlsPool
    <3>3. IngressBytes' = QueuePool' + IngressPool' + TlsPool'
      BY DEF IngressBytes, QueuePool, IngressPool, TlsPool
    <3>4. IngressBytes' = QueuePool + IngressPool + (TlsPool - p)
      BY <1>4, <3>3
    <3>5. p <= TlsPool
      BY <1>2, <1>3, <3>1
    <3> QED BY <1>2, <3>1, <3>2, <3>4, <3>5
  <2> QED BY <1>0, <1>4, <1>7, <2>1, AdderNoMore
<1> QED
  BY <1>5, <1>7, <1>11, <1>12 DEF Inv

LEMMA TakeBackStep ==
    ASSUME Inv, NEW t \in Adders, call[t] \notin {"append", "copy"}, NEW s, TakeBack(t, s),
           flush' \in BOOLEAN, UNCHANGED <<phase, sendStop, queues, sendq, running>>
    PROVE  Inv'
<1>1. Return(t) /\ UNCHANGED <<accepted, late>>
  BY DEF TakeBack, Refuse
<1>2. CondMoves(t)
  <2>1. Broadcast(t) \/ SignalsIf(s, t)
    BY DEF TakeBack
  <2> QED BY <2>1 DEF CondMoves, SignalsIf
<1>3. /\ pool' = [pool EXCEPT !["tls"] = Less(@, Pending(t))]
      /\ batch' = [batch EXCEPT ![t] = @ - Pending(t)]
  BY DEF TakeBack, Release, Pending
<1> QED
  BY <1>1, <1>2, <1>3, TakenBack

LEMMA RejectedStep == ASSUME Inv, NEW t \in Adders, Rejected(t) PROVE Inv'
<1>1. call[t] \notin {"append", "copy"}
  BY DEF Rejected, Asks
<1>2. flush' \in BOOLEAN
  BY DEF Rejected, Inv, TypeInv
<1>3. TakeBack(t, Expires(t, Need(t), FALSE))
  BY DEF Rejected
<1> QED
  BY <1>1, <1>2, <1>3, TakeBackStep DEF Rejected, gates

LEMMA AdderBlocksStep == ASSUME Inv, NEW t \in Adders, AdderBlocks(t) PROVE Inv'
  BY BlocksStep DEF AdderBlocks

LEMMA IngressFullStep == ASSUME Inv, NEW t \in Adders, IngressFull(t) PROVE Inv'
<1>0. TypeInv /\ PlaceInv /\ call[t] \in {"flush", "slot"}
  BY DEF Inv, IngressFull, HasSlot
<1>1. CASE TakeBack(t, FALSE)
  BY <1>0, <1>1, TakeBackStep DEF IngressFull, gates, TypeInv
<1>2. CASE Sleep(t) /\ Goto(t, "slot") /\ UNCHANGED <<pool, batch>>
  <2>1. /\ call' = [call EXCEPT ![t] = "slot"] /\ UNCHANGED <<force, closer, accepted, late>>
        /\ UNCHANGED <<gates, flush, queues, sendq, running>>
    BY <1>2 DEF Goto, IngressFull
  <2>2. TypeInv'
    <3>1. CondType'
      BY <1>0, <1>2, CondSteps DEF CondMoves, TypeInv, CondType
    <3>2. call' \in [Adders -> CallPlaces]
      BY <1>0, <2>1 DEF TypeInv, CallPlaces
    <3> QED BY <1>0, <1>2, <2>1, <3>1, <3>2 DEF TypeInv, CondType, gates, queues, running
  <2>3. call'[t] = "slot"
    BY <1>0, <2>1 DEF TypeInv
  <2>4. AdderMoves(t)
    BY <1>0, <1>2, <2>1, <2>3 DEF AdderMoves, OnlyAdder, AdderOK, TypeInv, PlaceInv, gates
  <2>5. AdderSame(t)
    BY <1>0, <1>2, <2>1, <2>3 DEF AdderSame, TlsBytes, Copying, Pending
  <2> QED BY <1>2, <2>1, <2>2, <2>4, <2>5, AdderQuiet
<1> QED
  BY <1>1, <1>2 DEF IngressFull

(* A step of adder t that moves bytes: what is left to show of it.            *)
LEMMA AdderDone ==
    ASSUME Inv, TypeInv', NEW t \in Adders, AdderMoves(t), AdderBalance(t),
           NEW n \in Nat, n > 0 => HasSpace(n, FALSE),
           QueuePool' + IngressPool' + TlsPool' <= QueuePool + IngressPool + TlsPool + n
    PROVE  Inv'
<1>0. Exact /\ Counted /\ WithinBudget
  BY DEF Inv
<1>1. PlaceInv' /\ AdderLedger(t)
  BY AdderStep
<1>2. Exact' /\ Counted'
  BY <1>0, <1>1, AdderBooks
<1>3. WithinBudget'
  <2>1. IngressBytes' <= IngressBytes + n
    BY DEF IngressBytes, QueuePool, IngressPool, TlsPool
  <2> QED BY <1>0, <1>1, <2>1, AdderBudget DEF AdderBalance
<1> QED
  BY <1>1, <1>2, <1>3 DEF Inv

(* The amounts before a step of adder t.                                     *)
LEMMA AdderAmounts ==
    ASSUME Inv, NEW t \in Adders
    PROVE  /\ Amounts /\ AdderEach(t)
           /\ TlsBytes(t) <= TlsPool /\ batch[t] <= TlsPool /\ Copying(t) <= QueuePool
<1>1. AdderSums /\ WorkerSums /\ Amounts
  BY AdderSumsNat, WorkerSumsNat, AmountsNat DEF Inv
<1>2. TlsPool = TlsTotal /\ QueuePool = Stored + CopyTotal + HandTotal
  BY DEF Inv, Exact
<1>3. PICK x \in Nat, b \in Nat, c \in Nat : x = TlsBytes(t) /\ b = batch[t] /\ c = Copying(t)
  BY <1>1 DEF AdderSums, AdderEach
<1>4. Stored \in Nat /\ CopyTotal \in Nat /\ HandTotal \in Nat /\ TlsTotal \in Nat /\ QueuePool \in Nat
  BY <1>1 DEF AdderSums, AdderNat, WorkerSums, WorkerNat, Amounts
<1>5. x <= TlsTotal /\ c <= CopyTotal
  BY <1>1, <1>3 DEF AdderSums, AdderEach
<1>6. b <= x
  BY <1>3 DEF TlsBytes
<1>7. b <= TlsTotal /\ c <= QueuePool
  BY <1>2, <1>3, <1>4, <1>5, <1>6
<1> QED
  BY <1>1, <1>2, <1>3, <1>5, <1>7 DEF AdderSums

LEMMA AdderDoneNoMore ==
    ASSUME Inv, TypeInv', NEW t \in Adders, AdderMoves(t), AdderBalance(t),
           QueuePool' + IngressPool' + TlsPool' <= QueuePool + IngressPool + TlsPool
    PROVE  Inv'
<1>0. Exact /\ Counted /\ WithinBudget
  BY DEF Inv
<1>1. PlaceInv' /\ AdderLedger(t)
  BY AdderStep
<1>2. Exact' /\ Counted'
  BY <1>0, <1>1, AdderBooks
<1>3. WithinBudget'
  <2>1. IngressBytes' <= IngressBytes
    BY DEF IngressBytes, QueuePool, IngressPool, TlsPool
  <2> QED BY <1>0, <1>1, <2>1, AdderNoMore DEF AdderBalance
<1> QED
  BY <1>1, <1>2, <1>3 DEF Inv

LEMMA ReserveStep == ASSUME Inv, NEW t \in Adders, Reserve(t) PROVE Inv'
<1>0. TypeInv /\ PlaceInv /\ Amounts /\ AdderEach(t)
  BY AdderAmounts, Constants DEF Inv
<1>1. /\ phase = "open" /\ t \notin closer /\ CondMoves(t) /\ HasSpace(Need(t), FALSE)
      /\ UNCHANGED <<force, closer, accepted, late, gates, flush, queues, sendq, batch, calls, running>>
  BY <1>0 DEF Reserve, Goto, GetsSpace, CondMoves, PlaceInv, AdderOK
<1>2. /\ ~WorkersGone /\ Stored' = Stored /\ Queued' = Queued /\ IngressLogs' = IngressLogs
      /\ accepted' = accepted /\ late' = late /\ ended' = ended /\ inflight' = inflight
      /\ batch'[t] = batch[t]
  BY <1>0, <1>1, Constants DEF queues, running, Stored, Queued, IngressLogs, Built, RawTotal, PlaceInv,
         WorkerOK, WorkersGone
<1>3. CondType'
  BY <1>0, <1>1, CondSteps DEF TypeInv, CondType
<1>4. PICK b \in Nat : b = batch[t]
  BY <1>0 DEF AdderEach
<1>5. CASE call[t] = "batch" /\ pool' = Take("tls", 1) /\ Goto(t, "append")
  <2>1. call' = [call EXCEPT ![t] = "append"] /\ call'[t] = "append" /\ Need(t) = 1
    BY <1>0, <1>5 DEF Goto, TypeInv, Need
  <2>2. /\ TlsPool' = TlsPool + 1 /\ QueuePool' = QueuePool /\ IngressPool' = IngressPool
        /\ SendPool' = SendPool /\ InflightPool' = InflightPool /\ ScratchPool' = ScratchPool
        /\ pool' \in [Pools -> Nat]
    BY <1>0, <1>5 DEF Take, TypeInv, Pools, QueuePool, IngressPool, SendPool, InflightPool, ScratchPool, TlsPool
  <2>3. TypeInv'
    <3>1. call' \in [Adders -> CallPlaces]
      BY <1>0, <2>1 DEF TypeInv, CallPlaces
    <3> QED BY <1>0, <1>1, <1>3, <2>2, <3>1 DEF TypeInv, CondType, gates, queues, running
  <2>4. AdderMoves(t)
    BY <1>0, <1>1, <2>1 DEF AdderMoves, OnlyAdder, AdderOK, TypeInv, gates
  <2>5. /\ TlsBytes(t) = b /\ TlsBytes(t)' = b + 1 /\ Copying(t) = 0 /\ Copying(t)' = 0
        /\ Pending(t) = 0 /\ Pending(t)' = 0
    BY <1>1, <1>2, <1>4, <1>5, <2>1 DEF TlsBytes, Copying, Pending
  <2>6. AdderBalance(t)
    <3>1. TlsPool \in Nat /\ accepted \in Nat /\ Queued \in Nat /\ late \in Nat
      BY <1>0 DEF Amounts
    <3>2. TlsPool + 1 + b = TlsPool + (b + 1) /\ late + b + accepted + 0 <= late + b + accepted + 0
      BY <3>1
    <3> QED BY <1>2, <1>4, <2>2, <2>5, <3>2 DEF AdderBalance
  <2>7. QueuePool' + IngressPool' + TlsPool' <= QueuePool + IngressPool + TlsPool + 1
    <3>1. TlsPool \in Nat /\ QueuePool \in Nat /\ IngressPool \in Nat
      BY <1>0 DEF Amounts
    <3> QED BY <2>2, <3>1
  <2> QED BY <1>1, <2>1, <2>3, <2>4, <2>6, <2>7, AdderDone
<1>6. CASE call[t] = "raw" /\ pool' = Take("queue", RawBytes) /\ Goto(t, "copy")
  <2>0. RawBytes \in Nat
    BY Constants
  <2>1. call' = [call EXCEPT ![t] = "copy"] /\ call'[t] = "copy" /\ Need(t) = RawBytes
    BY <1>0, <1>6 DEF Goto, TypeInv, Need
  <2>2. /\ TlsPool' = TlsPool /\ QueuePool' = QueuePool + RawBytes /\ IngressPool' = IngressPool
        /\ SendPool' = SendPool /\ InflightPool' = InflightPool /\ ScratchPool' = ScratchPool
        /\ pool' \in [Pools -> Nat]
    BY <1>0, <1>6, <2>0 DEF Take, TypeInv, Pools, QueuePool, IngressPool, SendPool, InflightPool, ScratchPool,
           TlsPool
  <2>3. TypeInv'
    <3>1. call' \in [Adders -> CallPlaces]
      BY <1>0, <2>1 DEF TypeInv, CallPlaces
    <3> QED BY <1>0, <1>1, <1>3, <2>2, <3>1 DEF TypeInv, CondType, gates, queues, running
  <2>4. AdderMoves(t)
    BY <1>0, <1>1, <2>1 DEF AdderMoves, OnlyAdder, AdderOK, TypeInv, gates
  <2>5. /\ TlsBytes(t) = b /\ TlsBytes(t)' = b /\ Copying(t) = 0 /\ Copying(t)' = RawBytes
        /\ Pending(t) = 0 /\ Pending(t)' = 0
    BY <1>1, <1>2, <1>4, <1>6, <2>1 DEF TlsBytes, Copying, Pending
  <2>6. AdderBalance(t)
    <3>1. /\ TlsPool \in Nat /\ QueuePool \in Nat /\ Stored \in Nat /\ accepted \in Nat /\ Queued \in Nat
          /\ late \in Nat
      BY <1>0 DEF Amounts
    <3>2. /\ QueuePool + RawBytes + Stored + 0 = QueuePool + Stored + RawBytes
          /\ late + b + accepted + 0 <= late + b + accepted + 0
      BY <2>0, <3>1
    <3> QED BY <1>2, <1>4, <2>2, <2>5, <3>2 DEF AdderBalance
  <2>7. QueuePool' + IngressPool' + TlsPool' <= QueuePool + IngressPool + TlsPool + RawBytes
    <3>1. TlsPool \in Nat /\ QueuePool \in Nat /\ IngressPool \in Nat
      BY <1>0 DEF Amounts
    <3> QED BY <2>0, <2>2, <3>1
  <2> QED BY <1>1, <2>0, <2>1, <2>3, <2>4, <2>6, <2>7, AdderDone
<1> QED
  BY <1>5, <1>6 DEF Reserve

LEMMA EnqueueStep == ASSUME Inv, NEW t \in Adders, Enqueue(t) PROVE Inv'
<1>0. /\ TypeInv /\ PlaceInv /\ Amounts /\ AdderEach(t) /\ RawBytes \in Nat
      /\ call[t] = "copy" /\ t \notin closer /\ Copying(t) = RawBytes /\ Copying(t) <= QueuePool
      /\ Return(t)
  BY AdderAmounts, Constants DEF Inv, PlaceInv, AdderOK, Enqueue, Copying, Accept, Refuse
<1>1. /\ UNCHANGED <<gates, builder, sealed, ingress, sendq, batch, calls, running>> /\ CondMoves(t)
  <2>1. CASE phase # "open"
    BY <2>1 DEF Enqueue, CondMoves
  <2>2. CASE phase = "open"
    BY <2>2 DEF Enqueue, CondMoves, SignalsIf
  <2> QED BY <2>1, <2>2 DEF Enqueue
<1>2. CondType'
  BY <1>0, <1>1, CondSteps DEF TypeInv, CondType
<1>3. PICK b \in Nat : b = batch[t] /\ batch'[t] = b
  BY <1>0, <1>1 DEF AdderEach
<1>4. /\ TlsBytes(t) = b /\ TlsBytes(t)' = b /\ Copying(t)' = 0 /\ Pending(t) = 0 /\ Pending(t)' = 0
      /\ IngressLogs' = IngressLogs /\ Built' = Built /\ ended' = ended /\ inflight' = inflight
  <2>1. call'[t] = "idle"
    BY <1>0, ReturnTypes
  <2> QED BY <1>0, <1>1, <1>3, <2>1 DEF TlsBytes, Copying, Pending, IngressLogs, Built, running
<1>5. AdderMoves(t)
  BY <1>0, <1>1, ReturnTypes DEF AdderMoves, OnlyAdder, AdderOK, gates
<1>6. /\ TlsPool \in Nat /\ QueuePool \in Nat /\ IngressPool \in Nat /\ Stored \in Nat /\ RawTotal \in Nat
      /\ Built \in Nat /\ raw \in Nat /\ IngressLogs \in Nat /\ Queued \in Nat /\ accepted \in Nat
      /\ late \in Nat
  BY <1>0 DEF Amounts
<1>7. CASE phase # "open"
  <2>1. pool' = Release("queue", RawBytes) /\ UNCHANGED <<accepted, late, raw, flush>>
    BY <1>7 DEF Enqueue, Refuse
  <2>2. /\ TlsPool' = TlsPool /\ QueuePool' = QueuePool - RawBytes /\ IngressPool' = IngressPool
        /\ SendPool' = SendPool /\ InflightPool' = InflightPool /\ ScratchPool' = ScratchPool
        /\ pool' \in [Pools -> Nat]
    <3>1. Less(QueuePool, RawBytes) = QueuePool - RawBytes /\ QueuePool - RawBytes \in Nat
      BY <1>0, <1>6 DEF Less
    <3>2. pool' = [pool EXCEPT !["queue"] = QueuePool - RawBytes]
      BY <2>1, <3>1 DEF Release, QueuePool
    <3> QED BY <1>0, <3>1, <3>2
            DEF TypeInv, Pools, QueuePool, IngressPool, SendPool, InflightPool, ScratchPool, TlsPool
  <2>3. TypeInv'
    BY <1>0, <1>1, <1>2, <2>1, <2>2, ReturnTypes DEF TypeInv, CondType, gates, running
  <2>4. Stored' = Stored /\ Queued' = Queued
    BY <1>4, <2>1 DEF Stored, Queued, RawTotal
  <2>5. AdderBalance(t)
    <3>1. /\ QueuePool - RawBytes + Stored + RawBytes = QueuePool + Stored + 0
          /\ late + b + accepted + 0 <= late + b + accepted + 0 /\ Queued + late <= Queued + late
      BY <1>0, <1>6
    <3> QED BY <1>0, <1>3, <1>4, <2>1, <2>2, <2>4, <3>1 DEF AdderBalance
  <2>6. QueuePool' + IngressPool' + TlsPool' <= QueuePool + IngressPool + TlsPool
    BY <1>0, <1>6, <2>2
  <2> QED BY <1>5, <2>3, <2>5, <2>6, AdderDoneNoMore
<1>8. CASE phase = "open"
  <2>1. raw' = raw + 1 /\ accepted' = accepted + 1 /\ late' = late /\ pool' = pool /\ flush' \in BOOLEAN
    BY <1>0, <1>8 DEF Enqueue, Accept, TypeInv
  <2>2. /\ TlsPool' = TlsPool /\ QueuePool' = QueuePool /\ IngressPool' = IngressPool
        /\ SendPool' = SendPool /\ InflightPool' = InflightPool /\ ScratchPool' = ScratchPool
    BY <2>1 DEF QueuePool, IngressPool, SendPool, InflightPool, ScratchPool, TlsPool
  <2>3. TypeInv'
    BY <1>0, <1>1, <1>2, <1>6, <2>1, ReturnTypes DEF TypeInv, CondType, gates, running
  <2>4. Stored' = Stored + RawBytes /\ Queued' = Queued + 1
    <3>1. RawTotal' = RawTotal + RawBytes
      BY <1>6, <2>1, RawProduct DEF RawTotal
    <3>2. Stored' = Built + RawTotal + RawBytes
      BY <1>0, <1>4, <1>6, <3>1 DEF Stored
    <3>3. Queued' = Built + (raw + 1) + IngressLogs
      BY <1>4, <2>1 DEF Queued
    <3> QED BY <1>0, <1>6, <3>2, <3>3 DEF Stored, Queued
  <2>5. AdderBalance(t)
    <3>0. ~WorkersGone
      BY <1>0, <1>8, Constants DEF PlaceInv, WorkerOK, WorkersGone
    <3>1. /\ QueuePool + Stored + RawBytes = QueuePool + (Stored + RawBytes) + 0
          /\ accepted + 1 + 0 + b + Queued = accepted + 0 + b + (Queued + 1)
          /\ late + b + accepted + 0 <= late + b + (accepted + 1) + 0
      BY <1>0, <1>6
    <3> QED BY <1>0, <1>3, <1>4, <2>1, <2>2, <2>4, <3>0, <3>1 DEF AdderBalance
  <2>6. QueuePool' + IngressPool' + TlsPool' <= QueuePool + IngressPool + TlsPool
    BY <1>6, <2>2
  <2> QED BY <1>5, <2>3, <2>5, <2>6, AdderDoneNoMore
<1> QED
  BY <1>7, <1>8

(* What a call that succeeds counts.                                         *)
LEMMA AcceptTypes ==
    ASSUME TypeInv, NEW t \in Adders, NEW n \in Nat, Accept(t, n)
    PROVE  /\ Return(t) /\ accepted' = accepted + 1 /\ accepted' \in Nat
           /\ late' \in Nat /\ late <= late' /\ late' <= late + n
           /\ phase = "stopped" => late' = late + n
           /\ phase # "stopped" => late' = late
<1>1. accepted \in Nat /\ late \in Nat /\ accepted' = accepted + 1
  BY DEF TypeInv, Accept
<1>2. late' = late + n \/ late' = late
  BY DEF Accept
<1> QED
  BY <1>1, <1>2 DEF Accept

LEMMA AppendsStep == ASSUME Inv, NEW t \in Adders, Appends(t) PROVE Inv'
<1>0. /\ TypeInv /\ PlaceInv /\ Amounts /\ AdderEach(t) /\ TlsBytes(t) <= TlsPool
      /\ call[t] = "append" /\ t \notin closer
  BY AdderAmounts DEF Inv, PlaceInv, AdderOK, Appends
<1>1. /\ UNCHANGED <<gates, flush, queues, sendq, calls, running>>
      /\ Stored' = Stored /\ Queued' = Queued /\ IngressLogs' = IngressLogs
      /\ ended' = ended /\ inflight' = inflight
  BY DEF Appends, queues, running, Stored, Queued, IngressLogs, Built, RawTotal
<1>2. PICK b \in Nat : b = batch[t]
  BY <1>0 DEF AdderEach
<1>3. /\ TlsPool \in Nat /\ QueuePool \in Nat /\ IngressPool \in Nat /\ Queued \in Nat /\ accepted \in Nat
      /\ late \in Nat
  BY <1>0 DEF Amounts
<1>4. TlsBytes(t) = b + 1 /\ Copying(t) = 0 /\ Pending(t) = 0
  BY <1>0, <1>2 DEF TlsBytes, Copying, Pending
<1>5. CASE batch[t] = 0 /\ phase # "open"
  <2>1. pool' = Release("tls", 1) /\ Broadcast(t) /\ Return(t) /\ UNCHANGED <<accepted, late, batch>>
    BY <1>5 DEF Appends, Refuse
  <2>2. /\ TlsPool' = TlsPool - 1 /\ QueuePool' = QueuePool /\ IngressPool' = IngressPool
        /\ SendPool' = SendPool /\ InflightPool' = InflightPool /\ ScratchPool' = ScratchPool
        /\ pool' \in [Pools -> Nat]
    <3>1. Less(TlsPool, 1) = TlsPool - 1 /\ TlsPool - 1 \in Nat
      BY <1>0, <1>3, <1>4 DEF Less
    <3>2. pool' = [pool EXCEPT !["tls"] = TlsPool - 1]
      BY <2>1, <3>1 DEF Release, TlsPool
    <3> QED BY <1>0, <3>1, <3>2
            DEF TypeInv, Pools, QueuePool, IngressPool, SendPool, InflightPool, ScratchPool, TlsPool
  <2>3. TypeInv'
    <3>1. CondType'
      BY <1>0, <2>1, CondSteps DEF CondMoves, TypeInv, CondType
    <3> QED BY <1>0, <1>1, <2>1, <2>2, <3>1, ReturnTypes DEF TypeInv, CondType, gates, queues, running
  <2>4. AdderMoves(t)
    BY <1>0, <1>1, <2>1, ReturnTypes DEF AdderMoves, OnlyAdder, AdderOK, gates
  <2>5. TlsBytes(t)' = b /\ Copying(t)' = 0 /\ Pending(t)' = 0 /\ batch'[t] = b
    <3>1. call'[t] = "idle"
      BY <1>0, <2>1, ReturnTypes
    <3> QED BY <1>2, <2>1, <3>1 DEF TlsBytes, Copying, Pending
  <2>6. AdderBalance(t)
    <3>1. /\ TlsPool - 1 + (b + 1) = TlsPool + b
          /\ late + b + accepted + 0 <= late + b + accepted + 0 /\ Queued + late <= Queued + late
      BY <1>3
    <3> QED BY <1>1, <1>2, <1>4, <2>1, <2>2, <2>5, <3>1 DEF AdderBalance
  <2>7. QueuePool' + IngressPool' + TlsPool' <= QueuePool + IngressPool + TlsPool
    BY <1>3, <2>2
  <2> QED BY <2>3, <2>4, <2>6, <2>7, AdderDoneNoMore
<1>6. CASE ~(batch[t] = 0 /\ phase # "open")
  <2>1. /\ batch' = [batch EXCEPT ![t] = b + 1] /\ UNCHANGED <<pool, cond>>
        /\ Goto(t, "flush") \/ Goto(t, "merge") \/ Accept(t, 0)
    BY <1>2, <1>6 DEF Appends
  <2>2. /\ TlsPool' = TlsPool /\ QueuePool' = QueuePool /\ IngressPool' = IngressPool
        /\ SendPool' = SendPool /\ InflightPool' = InflightPool /\ ScratchPool' = ScratchPool
        /\ batch' \in [Adders -> Nat] /\ batch'[t] = b + 1 /\ b + 1 > 0
        /\ \A u \in Adders : u # t => batch'[u] = batch[u]
    BY <1>0, <2>1 DEF TypeInv, QueuePool, IngressPool, SendPool, InflightPool, ScratchPool, TlsPool
  <2>3. QueuePool' + IngressPool' + TlsPool' <= QueuePool + IngressPool + TlsPool
    BY <1>3, <2>2
  <2>4. CASE Goto(t, "flush") \/ Goto(t, "merge")
    <3>1. PICK where \in {"flush", "merge"} :
            /\ call' = [call EXCEPT ![t] = where] /\ UNCHANGED <<force, closer, accepted, late>>
      BY <2>4 DEF Goto
    <3>2. call'[t] = where /\ call' \in [Adders -> CallPlaces]
      BY <1>0, <3>1 DEF TypeInv, CallPlaces
    <3>3. TypeInv'
      BY <1>0, <1>1, <2>1, <2>2, <3>1, <3>2 DEF TypeInv, gates, queues, running
    <3>4. AdderMoves(t)
      BY <1>0, <1>1, <2>2, <3>1, <3>2 DEF AdderMoves, OnlyAdder, AdderOK, gates, TypeInv
    <3>5. TlsBytes(t)' = b + 1 /\ Copying(t)' = 0 /\ Pending(t)' = 1
      BY <1>0, <2>2, <3>1, <3>2 DEF TlsBytes, Copying, Pending
    <3>6. AdderBalance(t)
      <4>1. /\ accepted + 1 + b + Queued = accepted + 0 + (b + 1) + Queued
            /\ late + (b + 1) + accepted + 0 <= late + b + accepted + 1 /\ Queued + late <= Queued + late
        BY <1>3
      <4> QED BY <1>1, <1>2, <1>4, <2>2, <3>1, <3>5, <4>1 DEF AdderBalance
    <3> QED BY <2>3, <3>3, <3>4, <3>6, AdderDoneNoMore
  <2>5. CASE Accept(t, 0)
    <3>0. 0 \in Nat
      OBVIOUS
    <3>1. Return(t) /\ accepted' = accepted + 1 /\ accepted' \in Nat /\ late' = late
      <4>1. late' = late \/ late' = late + 0
        BY <2>5 DEF Accept
      <4> QED BY <1>3, <2>5, <4>1 DEF Accept
    <3>2. call'[t] = "idle"
      BY <1>0, <3>1, ReturnTypes
    <3>3. TypeInv'
      BY <1>0, <1>1, <2>1, <2>2, <3>1, ReturnTypes DEF TypeInv, gates, queues, running
    <3>4. AdderMoves(t)
      BY <1>0, <1>1, <2>2, <3>1, ReturnTypes DEF AdderMoves, OnlyAdder, AdderOK, gates
    <3>5. TlsBytes(t)' = b + 1 /\ Copying(t)' = 0 /\ Pending(t)' = 0
      BY <1>0, <2>2, <3>1, <3>2 DEF TlsBytes, Copying, Pending
    <3>6. AdderBalance(t)
      <4>1. /\ accepted + 1 + 0 + b + Queued = accepted + 0 + (b + 1) + Queued
            /\ late + (b + 1) + accepted + 0 <= late + b + (accepted + 1) + 0
            /\ Queued + late <= Queued + late
        BY <1>3
      <4> QED BY <1>1, <1>2, <1>4, <2>2, <3>1, <3>5, <4>1 DEF AdderBalance
    <3> QED BY <2>3, <3>3, <3>4, <3>6, AdderDoneNoMore
  <2> QED BY <2>1, <2>4, <2>5
<1> QED
  BY <1>5, <1>6

LEMMA MergeBatchStep == ASSUME Inv, NEW t \in Adders, MergeBatch(t) PROVE Inv'
<1>0. /\ TypeInv /\ PlaceInv /\ Amounts /\ AdderEach(t) /\ batch[t] <= TlsPool
      /\ call[t] = "merge" /\ t \notin closer
      /\ UNCHANGED <<gates, ingress, raw, sendq, calls, running>>
  BY AdderAmounts DEF Inv, PlaceInv, AdderOK, MergeBatch
<1>1. PICK b \in Nat : b = batch[t]
  BY <1>0 DEF AdderEach
<1>2. /\ TlsPool \in Nat /\ QueuePool \in Nat /\ IngressPool \in Nat /\ Stored \in Nat /\ Queued \in Nat
      /\ accepted \in Nat /\ late \in Nat
  BY <1>0 DEF Amounts
<1>3. Join("default", b, FALSE) /\ Accept(t, b) /\ CondMoves(t)
  BY <1>1 DEF MergeBatch, CondMoves, SignalsIf
<1>4. /\ builder' \in [{"default", "keyed"} -> Nat] /\ sealed' \in Seq(Nat) /\ flush' \in BOOLEAN
      /\ Stored' = Stored + b /\ Queued' = Queued + b
  BY <1>0, <1>1, <1>3, JoinSums DEF TypeInv
<1>5. /\ Return(t) /\ accepted' = accepted + 1 /\ accepted' \in Nat /\ late' \in Nat
      /\ late' <= late + b /\ (phase = "stopped" => late' = late + b)
  BY <1>0, <1>1, <1>3, AcceptTypes
<1>6. batch' = [batch EXCEPT ![t] = 0] /\ batch' \in [Adders -> Nat] /\ batch'[t] = 0
      /\ \A u \in Adders : u # t => batch'[u] = batch[u]
  BY <1>0 DEF MergeBatch, TypeInv
<1>7. /\ TlsPool' = TlsPool - b /\ QueuePool' = QueuePool + b /\ IngressPool' = IngressPool
      /\ SendPool' = SendPool /\ InflightPool' = InflightPool /\ ScratchPool' = ScratchPool
      /\ pool' \in [Pools -> Nat]
  <2>1. Less(TlsPool, b) = TlsPool - b /\ TlsPool - b \in Nat /\ QueuePool + b \in Nat
    BY <1>0, <1>1, <1>2 DEF Less
  <2>2. pool' = [pool EXCEPT !["tls"] = TlsPool - b, !["queue"] = QueuePool + b]
    BY <1>0, <1>1, <2>1 DEF MergeBatch, Move, TlsPool, QueuePool, TypeInv, Pools
  <2> QED BY <1>0, <2>1, <2>2
          DEF TypeInv, Pools, QueuePool, IngressPool, SendPool, InflightPool, ScratchPool, TlsPool
<1>8. TypeInv'
  <2>1. CondType'
    BY <1>0, <1>3, CondSteps DEF TypeInv, CondType
  <2> QED BY <1>0, <1>4, <1>5, <1>6, <1>7, <2>1, ReturnTypes DEF TypeInv, CondType, gates, running
<1>9. AdderMoves(t)
  BY <1>0, <1>5, <1>6, ReturnTypes DEF AdderMoves, OnlyAdder, AdderOK, gates
<1>10. /\ TlsBytes(t) = b /\ TlsBytes(t)' = 0 /\ Copying(t) = 0 /\ Copying(t)' = 0
       /\ Pending(t) = 1 /\ Pending(t)' = 0 /\ IngressLogs' = IngressLogs
       /\ ended' = ended /\ inflight' = inflight
  <2>1. call'[t] = "idle"
    BY <1>0, <1>5, ReturnTypes
  <2> QED BY <1>0, <1>1, <1>6, <2>1 DEF TlsBytes, Copying, Pending, IngressLogs, running
<1>11. AdderBalance(t)
  <2>1. PICK la \in Nat : la = late'
    BY <1>5
  <2>2. la <= late + b
    BY <1>5, <2>1
  <2>3. /\ TlsPool - b + b = TlsPool + 0 /\ QueuePool + b + Stored + 0 = QueuePool + (Stored + b) + 0
        /\ accepted + 1 + 0 + b + Queued = accepted + 1 + 0 + (Queued + b)
        /\ la + 0 + accepted + 1 <= late + b + (accepted + 1) + 0
    BY <1>1, <1>2, <2>1, <2>2
  <2>4. WorkersGone => Queued + b + late <= Queued + la
    <3>1. WorkersGone => la = late + b
      BY <1>0, <1>5, <2>1, Constants DEF PlaceInv, WorkerOK, WorkersGone
    <3> QED BY <1>1, <1>2, <2>1, <3>1
  <2> QED BY <1>1, <1>4, <1>5, <1>6, <1>7, <1>10, <2>1, <2>3, <2>4 DEF AdderBalance
<1>12. QueuePool' + IngressPool' + TlsPool' <= QueuePool + IngressPool + TlsPool
  BY <1>1, <1>2, <1>7
<1> QED
  BY <1>8, <1>9, <1>11, <1>12, AdderDoneNoMore

LEMMA FlushBatchStep == ASSUME Inv, NEW t \in Adders, FlushBatch(t) PROVE Inv'
<1>0. /\ TypeInv /\ PlaceInv /\ Amounts /\ AdderEach(t) /\ batch[t] <= TlsPool
      /\ call[t] \in {"flush", "slot"} /\ (t \in closer => closer = {t} /\ phase = "open")
      /\ UNCHANGED <<sendStop, builder, sealed, raw, sendq, running>>
  BY AdderAmounts DEF Inv, PlaceInv, AdderOK, FlushBatch, HasSlot
<1>1. PICK b \in Nat, f \in BOOLEAN : b = batch[t] /\ f = force[t]
  BY <1>0 DEF AdderEach, TypeInv
<1>2. /\ TlsPool \in Nat /\ QueuePool \in Nat /\ IngressPool \in Nat /\ IngressLogs \in Nat /\ Queued \in Nat
      /\ Built \in Nat /\ raw \in Nat /\ accepted \in Nat /\ late \in Nat
  BY <1>0 DEF Amounts
<1>3. /\ IngressLogs' = IngressLogs + b /\ Queued' = Queued + b /\ Stored' = Stored
      /\ ingress' \in Seq(Item)
  <2>1. PICK x : x = [logs |-> batch[t], force |-> force[t]]
    OBVIOUS
  <2>2. x \in Item /\ x.logs = b /\ \A y \in Item : y.logs \in Nat
    BY <1>1, <2>1 DEF Item
  <2>3. ingress' = Append(ingress, x) /\ ingress \in Seq(Item)
    BY <1>0, <2>1 DEF FlushBatch, TypeInv
  <2>4. Logs(ingress') = Logs(ingress) + b /\ ingress' \in Seq(Item)
    <3>1. Logs(Append(ingress, x)) = Logs(ingress) + x.logs
      BY <2>2, <2>3, LogsQueue
    <3> QED BY <2>2, <2>3, <3>1, AppendProperties
  <2>5. IngressLogs' = IngressLogs + b
    BY <2>4 DEF IngressLogs
  <2>6. Built' = Built /\ RawTotal' = RawTotal /\ raw' = raw
    BY <1>0 DEF Built, RawTotal
  <2>7. Queued' = Built + raw + (IngressLogs + b)
    BY <2>5, <2>6 DEF Queued
  <2>8. Queued' = Queued + b
    BY <1>1, <1>2, <2>7 DEF Queued
  <2> QED BY <2>4, <2>5, <2>6, <2>8 DEF Stored
<1>4. /\ Return(t) /\ accepted' \in Nat /\ late' \in Nat /\ CondMoves(t)
      /\ flush' \in BOOLEAN /\ phase' \in {"open", "closing", "stopped"}
  <2>1. CASE t \in closer
    BY <1>0, <2>1 DEF FlushBatch, CondMoves, Refuse, TypeInv
  <2>2. CASE t \notin closer
    <3>1. Signals(1, t) /\ Accept(t, b) /\ UNCHANGED <<phase, flush>>
      BY <1>1, <2>2 DEF FlushBatch
    <3> QED BY <1>0, <1>1, <3>1, AcceptTypes DEF CondMoves, TypeInv
  <2> QED BY <2>1, <2>2
<1>5. batch' = [batch EXCEPT ![t] = 0] /\ batch' \in [Adders -> Nat] /\ batch'[t] = 0
      /\ \A u \in Adders : u # t => batch'[u] = batch[u]
  BY <1>0 DEF FlushBatch, TypeInv
<1>6. /\ TlsPool' = TlsPool - b /\ QueuePool' = QueuePool /\ IngressPool' = IngressPool + b
      /\ SendPool' = SendPool /\ InflightPool' = InflightPool /\ ScratchPool' = ScratchPool
      /\ pool' \in [Pools -> Nat]
  <2>1. Less(TlsPool, b) = TlsPool - b /\ TlsPool - b \in Nat /\ IngressPool + b \in Nat
    BY <1>0, <1>1, <1>2 DEF Less
  <2>2. pool' = [pool EXCEPT !["tls"] = TlsPool - b, !["ingress"] = IngressPool + b]
    BY <1>0, <1>1, <2>1 DEF FlushBatch, Move, TlsPool, IngressPool, TypeInv, Pools
  <2> QED BY <1>0, <2>1, <2>2
          DEF TypeInv, Pools, QueuePool, IngressPool, SendPool, InflightPool, ScratchPool, TlsPool
<1>7. TypeInv'
  <2>1. CondType'
    BY <1>0, <1>4, CondSteps DEF TypeInv, CondType
  <2> QED BY <1>0, <1>3, <1>4, <1>5, <1>6, <2>1, ReturnTypes DEF TypeInv, CondType, running
<1>8. AdderMoves(t)
  <2>1. OnlyAdder(t) /\ AdderOK(t)' /\ closer' = closer \ {t}
    BY <1>0, <1>4, <1>5, ReturnTypes DEF OnlyAdder, AdderOK
  <2>2. CASE t \in closer
    <3>1. phase' = "closing" /\ closer' = {}
      BY <1>0, <2>1, <2>2 DEF FlushBatch
    <3> QED BY <1>0, <2>1, <2>2, <3>1 DEF AdderMoves
  <2>3. CASE t \notin closer
    <3>1. phase' = phase
      BY <2>3 DEF FlushBatch
    <3> QED BY <1>0, <2>1, <3>1 DEF AdderMoves
  <2> QED BY <2>2, <2>3
<1>9. /\ TlsBytes(t) = b /\ TlsBytes(t)' = 0 /\ Copying(t) = 0 /\ Copying(t)' = 0
      /\ Pending(t)' = 0 /\ ended' = ended /\ inflight' = inflight
  <2>1. call'[t] = "idle"
    BY <1>0, <1>4, ReturnTypes
  <2> QED BY <1>0, <1>1, <1>5, <2>1 DEF TlsBytes, Copying, Pending, running
<1>10. AdderBalance(t)
  <2>1. TlsPool - b + b = TlsPool + 0 /\ IngressPool + b + IngressLogs = IngressPool + (IngressLogs + b)
    BY <1>1, <1>2
  <2>2. CASE t \in closer
    <3>1. accepted' = accepted /\ late' = late /\ Pending(t) = 0
      BY <2>2 DEF FlushBatch, Refuse, Pending
    <3>2. ~WorkersGone
      BY <1>0, <2>2, Constants DEF PlaceInv, WorkerOK, WorkersGone
    <3>3. /\ accepted + 0 + b + Queued = accepted + 0 + 0 + (Queued + b)
          /\ late + 0 + accepted + 0 <= late + b + accepted + 0
      BY <1>1, <1>2
    <3> QED BY <1>1, <1>3, <1>5, <1>6, <1>9, <2>1, <3>1, <3>2, <3>3 DEF AdderBalance
  <2>3. CASE t \notin closer
    <3>1. Accept(t, b) /\ Pending(t) = 1
      BY <1>0, <1>1, <2>3 DEF FlushBatch, Pending
    <3>2. accepted' = accepted + 1 /\ late' <= late + b /\ (phase = "stopped" => late' = late + b)
      BY <1>0, <1>1, <3>1, AcceptTypes
    <3>3. PICK la \in Nat : la = late'
      BY <1>4
    <3>4. la <= late + b
      BY <3>2, <3>3
    <3>5. WorkersGone => la = late + b
      BY <1>0, <3>2, <3>3, Constants DEF PlaceInv, WorkerOK, WorkersGone
    <3>6. /\ accepted + 1 + 0 + b + Queued = accepted + 1 + 0 + (Queued + b)
          /\ la + 0 + accepted + 1 <= late + b + (accepted + 1) + 0
          /\ WorkersGone => Queued + b + late <= Queued + la
      BY <1>1, <1>2, <3>3, <3>4, <3>5
    <3> QED BY <1>1, <1>3, <1>5, <1>6, <1>9, <2>1, <3>1, <3>2, <3>3, <3>6 DEF AdderBalance
  <2> QED BY <2>2, <2>3
<1>11. QueuePool' + IngressPool' + TlsPool' <= QueuePool + IngressPool + TlsPool
  BY <1>1, <1>2, <1>6
<1> QED
  BY <1>7, <1>8, <1>10, <1>11, AdderDoneNoMore

-------------------------------------------------------------------------------
(* The steps of a worker *)

WorkerMoves(w) ==
    /\ UNCHANGED <<phase, sendStop, call, closer, batch, accepted, late, inflight>>
    /\ OnlyWorker(w) /\ NoSender /\ WorkerOK(w)'
    /\ sendStop => sendq' = sendq

WorkerLedger(w) ==
    /\ Numbers /\ Numbers' /\ WorkerChange(w) /\ WorkerEach(w) /\ WorkerEach(w)'
    /\ AdderStill /\ SenderStill /\ SendReserved' = SendReserved

LEMMA WorkerStep ==
    ASSUME Inv, TypeInv', NEW w \in Workers, WorkerMoves(w)
    PROVE  PlaceInv' /\ WorkerLedger(w)
<1>1. \A u \in Workers : WorkerOK(u)'
  <2>1. ASSUME NEW u \in Workers, u # w PROVE WorkerOK(u)'
    BY <2>1 DEF Inv, PlaceInv, WorkerMoves, OnlyWorker, WorkerOK
  <2> QED BY <2>1 DEF WorkerMoves
<1>2. \A t \in Adders : AdderOK(t)'
  BY DEF Inv, PlaceInv, WorkerMoves, AdderOK
<1>3. \A s \in Senders : SenderOK(s)'
  BY DEF Inv, PlaceInv, WorkerMoves, NoSender, SenderOK
<1>4. PlaceInv'
  <2>1. sendStop' => phase' = "stopped"
    BY DEF Inv, PlaceInv, WorkerMoves
  <2> QED BY <1>1, <1>2, <1>3, <2>1 DEF PlaceInv
<1>5. NoAdder /\ NoSender /\ OnlyWorker(w)
  BY DEF WorkerMoves, NoAdder
<1>6. Amounts /\ Amounts'
  <2>1. TypeInv' => Amounts'
    BY AmountsNat, PTL
  <2> QED BY <2>1, AmountsNat DEF Inv
<1>7. WorkerChange(w) /\ WorkerSums /\ WorkerSums'
  BY <1>4, <1>5, WorkerChanges DEF Inv
<1>8. AdderStill /\ AdderSums /\ AdderSums'
  BY <1>5, AdderStays DEF Inv
<1>9. SenderStill /\ SenderSums /\ SenderSums'
  BY <1>5, SenderStays DEF Inv
<1>10. SendReserved' = SendReserved
  BY DEF SendReserved
<1>11. Numbers /\ Numbers' /\ WorkerEach(w) /\ WorkerEach(w)'
  BY <1>6, <1>7, <1>8, <1>9 DEF Numbers, AdderSums, WorkerSums, SenderSums
<1> QED
  BY <1>4, <1>7, <1>8, <1>9, <1>10, <1>11 DEF WorkerLedger

(* What a step of worker w has to balance, in its own terms.                  *)
WorkerBalance(w) ==
    /\ TlsPool' = TlsPool /\ InflightPool' = InflightPool
    /\ QueuePool' + Stored + Sum(hand[w]) = QueuePool + Stored' + Sum(hand'[w])
    /\ IngressPool' + IngressLogs = IngressPool + IngressLogs'
    /\ ScratchPool' + task[w].held = ScratchPool + task'[w].held
    /\ SendPool' + SendMem + At({"push"}, w) = SendPool + SendMem' + At({"push"}, w)'
    /\ ended' + Queued' + SendLogs' + task'[w].logs + Unpacked(w)'
          = ended + Queued + SendLogs + task[w].logs + Unpacked(w)
    /\ at'[w] = "gone" => Queued' = 0

LEMMA WorkerBooks ==
    ASSUME Exact, Counted, NEW w \in Workers, WorkerMoves(w), WorkerLedger(w), WorkerBalance(w)
    PROVE  Exact' /\ Counted'
<1>1. Numbers /\ Numbers' /\ AdderStill /\ SenderStill
  BY DEF WorkerLedger
<1>2. /\ QueuePool \in Nat /\ Stored \in Nat /\ CopyTotal \in Nat /\ HandTotal \in Nat
      /\ IngressPool \in Nat /\ IngressLogs \in Nat /\ ScratchPool \in Nat /\ HeldTotal \in Nat
      /\ SendPool \in Nat /\ SendMem \in Nat /\ PushTotal \in Nat /\ PoppedTotal \in Nat
      /\ accepted \in Nat /\ ended \in Nat /\ late \in Nat /\ Queued \in Nat /\ SendLogs \in Nat
      /\ BatchTotal \in Nat /\ PendingTotal \in Nat /\ WorkTotal \in Nat /\ UnpackedTotal \in Nat
      /\ SentTotal \in Nat
  BY <1>1 DEF Numbers, Amounts, AdderNat, WorkerNat, SenderNat
<1>3. PICK h \in Nat, h1 \in Nat, e \in Nat, e1 \in Nat, a \in Nat, a1 \in Nat, l \in Nat, l1 \in Nat,
           u \in Nat, u1 \in Nat :
        /\ h = Sum(hand[w]) /\ h1 = Sum(hand'[w]) /\ e = task[w].held /\ e1 = task'[w].held
        /\ a = At({"push"}, w) /\ a1 = At({"push"}, w)' /\ l = task[w].logs /\ l1 = task'[w].logs
        /\ u = Unpacked(w) /\ u1 = Unpacked(w)'
  BY DEF WorkerLedger, WorkerEach
<1>4. PICK ht \in Nat, et \in Nat, pt \in Nat, wt \in Nat, ut \in Nat :
        /\ ht = HandTotal' /\ et = HeldTotal' /\ pt = PushTotal' /\ wt = WorkTotal'
        /\ ut = UnpackedTotal'
  BY <1>1 DEF Numbers, WorkerNat
<1>5. PICK qp \in Nat, ip \in Nat, cp \in Nat, sp \in Nat, st \in Nat, il \in Nat, qd \in Nat, sl \in Nat,
           sm \in Nat, en \in Nat :
        /\ qp = QueuePool' /\ ip = IngressPool' /\ cp = ScratchPool' /\ sp = SendPool'
        /\ st = Stored' /\ il = IngressLogs' /\ qd = Queued' /\ sl = SendLogs' /\ sm = SendMem'
        /\ en = ended'
  BY <1>1 DEF Numbers, Amounts
<1>6. /\ ht + h = HandTotal + h1 /\ et + e = HeldTotal + e1 /\ pt + a = PushTotal + a1
      /\ wt + l = WorkTotal + l1 /\ ut + u = UnpackedTotal + u1
  BY <1>3, <1>4 DEF WorkerLedger, WorkerChange
<1>7. /\ qp + Stored + h = QueuePool + st + h1 /\ ip + IngressLogs = IngressPool + il
      /\ cp + e = ScratchPool + e1 /\ sp + SendMem + a = SendPool + sm + a1
      /\ en + qd + sl + l1 + u1 = ended + Queued + SendLogs + l + u
  BY <1>3, <1>5 DEF WorkerBalance
<1>8. /\ TlsPool' = TlsPool /\ InflightPool' = InflightPool
      /\ inflight' = inflight /\ accepted' = accepted /\ late' = late
  BY DEF WorkerBalance, WorkerMoves
<1>9. WorkersGone' => qd <= late
  <2>1. WorkersGone' => qd = 0
    BY <1>5 DEF WorkersGone, WorkerBalance
  <2> QED BY <1>2, <1>5, <2>1
<1>10. /\ QueuePool = Stored + CopyTotal + HandTotal /\ IngressPool = IngressLogs
       /\ ScratchPool = HeldTotal /\ SendPool = SendMem + PushTotal + PoppedTotal
  BY DEF Exact
<1>11. accepted + PendingTotal
          = ended + BatchTotal + Queued + (SendLogs + WorkTotal + UnpackedTotal + SentTotal)
  BY DEF Counted, Taken
<1>12. /\ qp = st + CopyTotal + ht /\ ip = il /\ cp = et /\ sp = sm + pt + PoppedTotal
  BY <1>2, <1>6, <1>7, <1>10
<1>13. accepted + PendingTotal = en + BatchTotal + qd + (sl + wt + ut + SentTotal)
  BY <1>2, <1>6, <1>7, <1>11
<1>14. Exact'
  BY <1>1, <1>4, <1>5, <1>8, <1>12 DEF Exact, AdderStill, SenderStill
<1>15. late' + BatchTotal' <= accepted' + PendingTotal'
  BY <1>1, <1>8 DEF Counted, AdderStill
<1>16. accepted' + PendingTotal' = ended' + BatchTotal' + Queued' + Taken'
  BY <1>1, <1>4, <1>5, <1>8, <1>13 DEF AdderStill, SenderStill, Taken
<1>17. Counted'
  <2>1. inflight' = SendingCount'
    BY <1>1, <1>8 DEF Counted, SenderStill
  <2>2. WorkersGone' => Queued' <= late'
    BY <1>5, <1>8, <1>9
  <2> QED BY <1>15, <1>16, <2>1, <2>2 DEF Counted
<1> QED
  BY <1>14, <1>17

(* What workers and senders hold may grow by what one asked space for.       *)
LEMMA WorkerBudget ==
    ASSUME WithinBudget, NEW w, WorkerLedger(w), NEW n \in Nat, n > 0 => BufferedBytes + n <= MaxBytes,
           TlsPool' = TlsPool, InflightPool' = InflightPool,
           SendPool' + ScratchPool' <= SendPool + ScratchPool + n,
           QueuePool' + IngressPool' <= QueuePool + IngressPool
    PROVE  WithinBudget'
<1>1. /\ QueuePool \in Nat /\ IngressPool \in Nat /\ TlsPool \in Nat /\ SendPool \in Nat
      /\ InflightPool \in Nat /\ ScratchPool \in Nat /\ SendReserved \in Nat /\ MaxBytes \in Nat
  BY Reserved, Constants DEF WorkerLedger, Numbers, Amounts
<1>2. PICK qp \in Nat, ip \in Nat, cp \in Nat, sp \in Nat :
        qp = QueuePool' /\ ip = IngressPool' /\ cp = ScratchPool' /\ sp = SendPool'
  BY DEF WorkerLedger, Numbers, Amounts
<1>3. /\ IngressBytes = QueuePool + IngressPool + TlsPool
      /\ BufferedBytes = QueuePool + IngressPool + TlsPool + SendPool + InflightPool + ScratchPool
      /\ IngressBytes' = qp + ip + TlsPool
      /\ BufferedBytes' = qp + ip + TlsPool + sp + InflightPool + cp
  BY <1>2 DEF IngressBytes, BufferedBytes, QueuePool, IngressPool, TlsPool, SendPool, InflightPool, ScratchPool
<1>4. IngressBytes <= MaxBytes - SendReserved /\ BufferedBytes - IngressBytes <= MaxBytes
  BY DEF WithinBudget
<1>5. n > 0 => BufferedBytes + n <= MaxBytes
  OBVIOUS
<1>6. /\ QueuePool + IngressPool + TlsPool <= MaxBytes - SendReserved
      /\ SendPool + InflightPool + ScratchPool <= MaxBytes
      /\ n > 0 => QueuePool + IngressPool + TlsPool + SendPool + InflightPool + ScratchPool + n <= MaxBytes
  BY <1>1, <1>3, <1>4, <1>5
<1>7. sp + cp <= SendPool + ScratchPool + n /\ qp + ip <= QueuePool + IngressPool
  BY <1>2
<1>8. qp + ip + TlsPool <= MaxBytes - SendReserved /\ sp + InflightPool + cp <= MaxBytes
  BY <1>1, <1>6, <1>7
<1>9. PICK ib \in Nat, bb \in Nat :
        ib = qp + ip + TlsPool /\ bb = qp + ip + TlsPool + sp + InflightPool + cp
  <2>1. qp + ip + TlsPool \in Nat /\ qp + ip + TlsPool + sp + InflightPool + cp \in Nat
    BY <1>1
  <2> QED BY <2>1
<1>10. ib <= MaxBytes - SendReserved /\ bb - ib <= MaxBytes
  BY <1>1, <1>8, <1>9
<1>11. IngressBytes' = ib /\ BufferedBytes' = bb
  BY <1>3, <1>9
<1> QED
  BY <1>10, <1>11 DEF WithinBudget, WorkerLedger

LEMMA WorkerDone ==
    ASSUME Inv, TypeInv', NEW w \in Workers, WorkerMoves(w), WorkerBalance(w),
           NEW n \in Nat, n > 0 => BufferedBytes + n <= MaxBytes,
           SendPool' + ScratchPool' <= SendPool + ScratchPool + n,
           QueuePool' + IngressPool' <= QueuePool + IngressPool
    PROVE  Inv'
<1>0. Exact /\ Counted /\ WithinBudget
  BY DEF Inv
<1>1. PlaceInv' /\ WorkerLedger(w)
  BY WorkerStep
<1>2. Exact' /\ Counted'
  BY <1>0, <1>1, WorkerBooks
<1>3. WithinBudget'
  BY <1>0, <1>1, WorkerBudget DEF WorkerBalance
<1> QED
  BY <1>1, <1>2, <1>3 DEF Inv

LEMMA WorkerDoneNoMore ==
    ASSUME Inv, TypeInv', NEW w \in Workers, WorkerMoves(w), WorkerBalance(w),
           SendPool' + ScratchPool' <= SendPool + ScratchPool,
           QueuePool' + IngressPool' <= QueuePool + IngressPool
    PROVE  Inv'
<1>1. PICK n \in Nat : n = 0
  OBVIOUS
<1>2. SendPool \in Nat /\ ScratchPool \in Nat
  BY AmountsNat DEF Inv, Amounts
<1>3. SendPool' + ScratchPool' <= SendPool + ScratchPool + n /\ ~(n > 0)
  BY <1>1, <1>2
<1> QED
  BY <1>3, WorkerDone

(* The amounts before a step of worker w.                                    *)
LEMMA WorkerAmounts ==
    ASSUME Inv, NEW w \in Workers
    PROVE  /\ Amounts /\ WorkerEach(w) /\ task[w] \in Task /\ hand[w] \in Seq(Nat)
           /\ Sum(hand[w]) <= QueuePool /\ task[w].held <= ScratchPool
           /\ IngressPool = IngressLogs /\ At({"push"}, w) <= SendPool /\ RawTotal <= QueuePool
<1>1. AdderSums /\ WorkerSums /\ SenderSums /\ Amounts
  BY AdderSumsNat, WorkerSumsNat, SenderSumsNat, AmountsNat DEF Inv
<1>2. /\ QueuePool = Stored + CopyTotal + HandTotal /\ ScratchPool = HeldTotal
      /\ IngressPool = IngressLogs /\ SendPool = SendMem + PushTotal + PoppedTotal
  BY DEF Inv, Exact
<1>3. PICK h \in Nat, e \in Nat, a \in Nat : h = Sum(hand[w]) /\ e = task[w].held /\ a = At({"push"}, w)
  BY <1>1 DEF WorkerSums, WorkerEach
<1>4. /\ Built \in Nat /\ RawTotal \in Nat /\ Stored \in Nat /\ CopyTotal \in Nat /\ HandTotal \in Nat
      /\ SendMem \in Nat /\ PushTotal \in Nat
      /\ PoppedTotal \in Nat /\ QueuePool \in Nat /\ SendPool \in Nat
  BY <1>1 DEF AdderSums, AdderNat, WorkerSums, WorkerNat, SenderSums, SenderNat, Amounts
<1>5. h <= HandTotal /\ e <= HeldTotal /\ a <= PushTotal /\ Stored = Built + RawTotal
  BY <1>1, <1>3 DEF WorkerSums, WorkerEach, Stored
<1>6. h <= QueuePool /\ a <= SendPool /\ RawTotal <= QueuePool
  BY <1>2, <1>3, <1>4, <1>5
<1> QED
  BY <1>1, <1>2, <1>3, <1>5, <1>6 DEF WorkerSums, Inv, TypeInv

(* Worker w goes to place p, and gets task x.                                *)
LEMMA AtTypes ==
    ASSUME TypeInv, NEW w \in Workers, NEW p \in WorkerPlaces, at' = [at EXCEPT ![w] = p]
    PROVE  /\ at' \in [Workers \cup Senders -> WorkerPlaces \cup SenderPlaces]
           /\ \A u \in Workers : at'[u] \in WorkerPlaces
           /\ \A s \in Senders : at'[s] \in SenderPlaces /\ at'[s] = at[s]
           /\ at'[w] = p /\ \A u \in Workers : u # w => at'[u] = at[u]
  BY Constants DEF TypeInv

LEMMA TaskTypes ==
    ASSUME TypeInv, NEW w \in Workers, NEW x \in Task, task' = [task EXCEPT ![w] = x]
    PROVE  /\ task' \in [Workers \cup Senders -> Task]
           /\ \A s \in Senders : task'[s] = task[s]
           /\ task'[w] = x /\ \A u \in Workers : u # w => task'[u] = task[u]
  BY Constants DEF TypeInv

LEMMA WorkerQuiet ==
    ASSUME Inv, NEW w \in Workers, NEW p \in WorkerPlaces, at' = [at EXCEPT ![w] = p], CondType',
           at[w] \notin {"push", "settle"}, p \notin {"push", "settle"}, WorkerOK(w)',
           p = "gone" => Queued = 0,
           UNCHANGED <<gates, flush, pool, queues, sendq, adding, hand, task, inflight, ended>>
    PROVE  Inv'
<1>0. TypeInv /\ Amounts /\ WorkerEach(w)
  BY WorkerAmounts DEF Inv
<1>1. TypeInv'
  BY <1>0, AtTypes DEF TypeInv, CondType, gates, queues, adding
<1>2. WorkerMoves(w)
  BY <1>0, AtTypes DEF WorkerMoves, OnlyWorker, NoSender, gates, adding
<1>3. /\ TlsPool' = TlsPool /\ QueuePool' = QueuePool /\ IngressPool' = IngressPool
      /\ SendPool' = SendPool /\ InflightPool' = InflightPool /\ ScratchPool' = ScratchPool
      /\ Stored' = Stored /\ Queued' = Queued /\ IngressLogs' = IngressLogs
      /\ SendLogs' = SendLogs /\ SendMem' = SendMem /\ ended' = ended
  BY DEF queues, Stored, Queued, IngressLogs, Built, RawTotal, SendLogs, SendMem,
         QueuePool, IngressPool, SendPool, InflightPool, ScratchPool, TlsPool
<1>4. /\ Sum(hand'[w]) = Sum(hand[w]) /\ task'[w].held = task[w].held /\ task'[w].logs = task[w].logs
      /\ At({"push"}, w) = 0 /\ At({"push"}, w)' = 0 /\ Unpacked(w)' = Unpacked(w) /\ at'[w] = p
  <2>1. at'[w] = p
    BY <1>0, AtTypes
  <2> QED BY <2>1 DEF At, Unpacked
<1>5. WorkerBalance(w)
  BY <1>3, <1>4 DEF WorkerBalance
<1>6. SendPool' + ScratchPool' <= SendPool + ScratchPool /\ QueuePool' + IngressPool' <= QueuePool + IngressPool
  <2>1. SendPool \in Nat /\ ScratchPool \in Nat /\ QueuePool \in Nat /\ IngressPool \in Nat
    BY <1>0 DEF Amounts
  <2> QED BY <1>3, <2>1
<1> QED
  BY <1>1, <1>2, <1>5, <1>6, WorkerDoneNoMore

LEMMA LookStep == ASSUME Inv, NEW w \in Workers, Look(w) PROVE Inv'
<1>0. /\ TypeInv /\ PlaceInv /\ at[w] = "look" /\ hand[w] = <<>> /\ task[w] = NoTask
      /\ UNCHANGED <<gates, flush, pool, queues, sendq, adding, hand, task, inflight, ended>>
  BY DEF Inv, PlaceInv, WorkerOK, Look
<1>1. CondType'
  BY <1>0, CondSteps DEF Look, CondMoves, TypeInv, CondType
<1>2. CASE /\ Idle /\ Sleep(w) /\ at' = [at EXCEPT ![w] = IF Builders = {} THEN "look" ELSE "linger"]
  <2>1. PICK p \in {"look", "linger"} : at' = [at EXCEPT ![w] = p]
    BY <1>2
  <2>2. p \in WorkerPlaces /\ at'[w] = p
    BY <1>0, <2>1, AtTypes DEF WorkerPlaces
  <2>3. WorkerOK(w)'
    BY <1>0, <2>2 DEF WorkerOK, NoTask
  <2>4. p # "gone" /\ p \notin {"push", "settle"}
    OBVIOUS
  <2> QED BY <1>0, <1>1, <2>1, <2>2, <2>3, <2>4, WorkerQuiet
<1>3. CASE /\ phase = "stopped" /\ raw = 0 /\ ingress = <<>> /\ sealed = <<>>
           /\ Builders = {} /\ at' = [at EXCEPT ![w] = "gone"]
  <2>1. PICK p : p = "gone"
    OBVIOUS
  <2>2. p \in WorkerPlaces /\ at'[w] = p /\ at' = [at EXCEPT ![w] = p]
    BY <1>0, <1>3, <2>1, AtTypes DEF WorkerPlaces
  <2>3. WorkerOK(w)'
    BY <1>0, <1>3, <2>1, <2>2 DEF WorkerOK, NoTask, gates
  <2>4. Queued = 0
    <3>1. builder["default"] = 0 /\ builder["keyed"] = 0
      BY <1>0, <1>3 DEF TypeInv, Builders
    <3>2. Sum(sealed) = 0 /\ Logs(ingress) = 0
      BY <1>3, SumEmpty, LogsEmpty
    <3> QED BY <1>3, <3>1, <3>2 DEF Queued, Built, IngressLogs
  <2>5. p \notin {"push", "settle"}
    BY <2>1
  <2> QED BY <1>0, <1>1, <2>2, <2>3, <2>4, <2>5, WorkerQuiet
<1> QED
  BY <1>2, <1>3 DEF Look

LEMMA LingerOverStep == ASSUME Inv, NEW w \in Workers, LingerOver(w) PROVE Inv'
<1>0. /\ TypeInv /\ PlaceInv /\ at[w] = "linger" /\ hand[w] = <<>> /\ task[w] = NoTask
      /\ UNCHANGED <<gates, flush, pool, queues, sendq, adding, hand, task, inflight, ended>>
  BY DEF Inv, PlaceInv, WorkerOK, LingerOver
<1>1. CondType'
  BY <1>0 DEF LingerOver, TypeInv, CondType
<1>2. PICK p : p = "due"
  OBVIOUS
<1>3. p \in WorkerPlaces /\ at'[w] = p /\ at' = [at EXCEPT ![w] = p]
  BY <1>0, <1>2, AtTypes DEF LingerOver, WorkerPlaces
<1>4. WorkerOK(w)'
  BY <1>0, <1>2, <1>3 DEF WorkerOK, NoTask
<1>5. p # "gone" /\ p \notin {"push", "settle"}
  BY <1>2
<1> QED
  BY <1>0, <1>1, <1>3, <1>4, <1>5, WorkerQuiet

LEMMA RawDoneStep == ASSUME Inv, NEW w \in Workers, RawDone(w) PROVE Inv'
<1>0. /\ TypeInv /\ PlaceInv /\ at[w] = "raw" /\ task[w] = NoTask
      /\ UNCHANGED <<gates, flush, pool, queues, sendq, adding, cond, hand, task, inflight, ended>>
  BY DEF Inv, PlaceInv, WorkerOK, RawDone
<1>1. CondType'
  BY <1>0 DEF TypeInv, CondType
<1>2. PICK p : p = "hand"
  OBVIOUS
<1>3. p \in WorkerPlaces /\ at'[w] = p /\ at' = [at EXCEPT ![w] = p]
  BY <1>0, <1>2, AtTypes DEF RawDone, WorkerPlaces
<1>4. WorkerOK(w)'
  BY <1>0, <1>2, <1>3 DEF WorkerOK, NoTask
<1>5. p # "gone" /\ p \notin {"push", "settle"}
  BY <1>2
<1> QED
  BY <1>0, <1>1, <1>3, <1>4, <1>5, WorkerQuiet

LEMMA HandEmptyStep ==
    ASSUME Inv, NEW w \in Workers, TakeSealed(w), hand[w] = <<>> PROVE Inv'
<1>0. /\ TypeInv /\ PlaceInv /\ at[w] = "hand" /\ task[w] = NoTask
      /\ UNCHANGED <<gates, flush, pool, queues, sendq, adding, cond, hand, task, inflight, ended>>
      /\ at' = [at EXCEPT ![w] = "look"]
  BY DEF Inv, PlaceInv, WorkerOK, TakeSealed
<1>1. CondType'
  BY <1>0 DEF TypeInv, CondType
<1>2. PICK p : p = "look"
  OBVIOUS
<1>3. p \in WorkerPlaces /\ at'[w] = p /\ at' = [at EXCEPT ![w] = p]
  BY <1>0, <1>2, AtTypes DEF WorkerPlaces
<1>4. WorkerOK(w)'
  BY <1>0, <1>2, <1>3 DEF WorkerOK, NoTask
<1>5. p # "gone" /\ p \notin {"push", "settle"}
  BY <1>2
<1> QED
  BY <1>0, <1>1, <1>3, <1>4, <1>5, WorkerQuiet

LEMMA TakeSealedStep == ASSUME Inv, NEW w \in Workers, TakeSealed(w) PROVE Inv'
<1>0. /\ TypeInv /\ PlaceInv /\ at[w] = "hand" /\ task[w] = NoTask /\ hand[w] \in Seq(Nat)
      /\ Amounts /\ WorkerEach(w)
      /\ UNCHANGED <<gates, flush, pool, queues, sendq, adding, cond, hand, inflight, ended>>
  BY WorkerAmounts DEF Inv, PlaceInv, WorkerOK, TakeSealed
<1>1. CASE hand[w] = <<>>
  BY <1>1, HandEmptyStep
<1>2. CASE hand[w] # <<>>
  <2>1. PICK n \in Nat, r \in Nat : n = Head(hand[w]) /\ r = Sum(Tail(hand[w])) /\ Sum(hand[w]) = n + r
    <3>1. Head(hand[w]) \in Nat /\ Sum(hand[w]) = Head(hand[w]) + Sum(Tail(hand[w])) /\ Tail(hand[w]) \in Seq(Nat)
      BY <1>0, <1>2, SumTail
    <3> QED BY <3>1, SumSeq
  <2>2. PICK kind \in {"plain", "pooled", "scratch"} :
          /\ task' = [task EXCEPT ![w] =
                [logs |-> n, held |-> 0, kind |-> kind, from |-> "builder",
                 mem |-> (n + Envelope) + IF kind = "pooled" THEN Packed ELSE 0]]
          /\ at' = [at EXCEPT ![w] = IF kind = "scratch" THEN "compress" ELSE "packed"]
    BY <1>2, <2>1 DEF TakeSealed, Pack
  <2>3. PICK x : x = [logs |-> n, held |-> 0, kind |-> kind, from |-> "builder",
                      mem |-> (n + Envelope) + IF kind = "pooled" THEN Packed ELSE 0]
    OBVIOUS
  <2>4. x \in Task /\ x.logs = n /\ x.held = 0 /\ x.from = "builder"
    <3>1. (n + Envelope) + (IF kind = "pooled" THEN Packed ELSE 0) \in Nat
      BY <2>1, Constants
    <3> QED BY <2>3, <3>1 DEF Task
  <2>5. PICK p \in {"compress", "packed"} : at' = [at EXCEPT ![w] = p]
    BY <2>2
  <2>6. p \in WorkerPlaces /\ task' = [task EXCEPT ![w] = x]
    BY <2>2, <2>3 DEF WorkerPlaces
  <2>7. at'[w] = p /\ task'[w] = x /\ hand'[w] = hand[w]
    BY <1>0, <2>4, <2>5, <2>6, AtTypes, TaskTypes
  <2>8. TypeInv'
    BY <1>0, <2>4, <2>5, <2>6, AtTypes, TaskTypes DEF TypeInv, gates, queues, adding
  <2>9. WorkerMoves(w)
    <3>1. WorkerOK(w)'
      BY <1>2, <2>1, <2>4, <2>7 DEF WorkerOK
    <3> QED BY <1>0, <2>4, <2>5, <2>6, <3>1, AtTypes, TaskTypes DEF WorkerMoves, OnlyWorker, NoSender, gates,
              adding
  <2>10. /\ TlsPool' = TlsPool /\ QueuePool' = QueuePool /\ IngressPool' = IngressPool
         /\ SendPool' = SendPool /\ InflightPool' = InflightPool /\ ScratchPool' = ScratchPool
         /\ Stored' = Stored /\ Queued' = Queued /\ IngressLogs' = IngressLogs
         /\ SendLogs' = SendLogs /\ SendMem' = SendMem /\ ended' = ended
    BY <1>0 DEF queues, Stored, Queued, IngressLogs, Built, RawTotal, SendLogs, SendMem,
           QueuePool, IngressPool, SendPool, InflightPool, ScratchPool, TlsPool
  <2>11. /\ Sum(hand'[w]) = Sum(hand[w]) /\ task'[w].held = 0 /\ task[w].held = 0
         /\ task'[w].logs = n /\ task[w].logs = 0 /\ At({"push"}, w) = 0 /\ At({"push"}, w)' = 0
         /\ Unpacked(w) = n + r /\ Unpacked(w)' = r
    BY <1>0, <2>1, <2>4, <2>7 DEF At, Unpacked, NoTask
  <2>12. WorkerBalance(w)
    <3>1. ended \in Nat /\ Queued \in Nat /\ SendLogs \in Nat
      BY <1>0 DEF Amounts
    <3>2. ended + Queued + SendLogs + n + r = ended + Queued + SendLogs + 0 + (n + r)
      BY <3>1
    <3> QED BY <2>7, <2>10, <2>11, <3>2 DEF WorkerBalance
  <2>13. SendPool' + ScratchPool' <= SendPool + ScratchPool
         /\ QueuePool' + IngressPool' <= QueuePool + IngressPool
    <3>1. SendPool \in Nat /\ ScratchPool \in Nat /\ QueuePool \in Nat /\ IngressPool \in Nat
      BY <1>0 DEF Amounts
    <3> QED BY <2>10, <3>1
  <2> QED BY <2>8, <2>9, <2>12, <2>13, WorkerDoneNoMore
<1> QED
  BY <1>1, <1>2

LEMMA RawPopStep == ASSUME Inv, NEW w \in Workers, RawPop(w) PROVE Inv'
<1>0. /\ TypeInv /\ PlaceInv /\ at[w] = "raw" /\ task[w] = NoTask /\ raw \in Nat /\ raw > 0
      /\ Amounts /\ WorkerEach(w) /\ RawTotal <= QueuePool /\ RawBytes \in Nat
      /\ UNCHANGED <<gates, flush, builder, sealed, ingress, sendq, adding, hand, inflight, ended>>
      /\ raw' = raw - 1 /\ pool' = Release("queue", RawBytes) /\ CondMoves(w)
  BY WorkerAmounts, Constants DEF Inv, PlaceInv, WorkerOK, RawPop, TypeInv, CondMoves
<1>1. PICK kind \in {"plain", "pooled", "scratch"} :
        /\ task' = [task EXCEPT ![w] =
              [logs |-> 1, held |-> 0, kind |-> kind, from |-> "raw",
               mem |-> RawBytes + IF kind = "pooled" THEN Packed ELSE 0]]
        /\ at' = [at EXCEPT ![w] = IF kind = "scratch" THEN "compress" ELSE "packed"]
  BY DEF RawPop, Pack
<1>2. PICK x : x = [logs |-> 1, held |-> 0, kind |-> kind, from |-> "raw",
                    mem |-> RawBytes + IF kind = "pooled" THEN Packed ELSE 0]
  OBVIOUS
<1>3. x \in Task /\ x.logs = 1 /\ x.held = 0 /\ x.from = "raw"
  <2>1. RawBytes + (IF kind = "pooled" THEN Packed ELSE 0) \in Nat
    BY Constants
  <2> QED BY <1>2, <2>1 DEF Task
<1>4. PICK p \in {"compress", "packed"} : at' = [at EXCEPT ![w] = p]
  BY <1>1
<1>5. p \in WorkerPlaces /\ task' = [task EXCEPT ![w] = x]
  BY <1>1, <1>2 DEF WorkerPlaces
<1>6. at'[w] = p /\ task'[w] = x /\ hand'[w] = hand[w]
  BY <1>0, <1>3, <1>4, <1>5, AtTypes, TaskTypes
<1>7. RawTotal = RawTotal' + RawBytes /\ RawBytes <= RawTotal /\ raw' \in Nat /\ RawTotal' \in Nat
  <2>1. PICK m \in Nat : m = raw - 1
    BY <1>0
  <2>2. raw = m + 1 /\ raw' = m /\ RawBytes * (m + 1) = RawBytes * m + RawBytes /\ RawBytes * m \in Nat
    BY <1>0, <2>1, RawProduct
  <2>3. PICK k \in Nat : k = RawBytes * m
    BY <2>2
  <2>4. RawTotal' = k /\ RawTotal = k + RawBytes
    BY <2>2, <2>3 DEF RawTotal
  <2>5. RawBytes <= k + RawBytes
    BY <1>0
  <2> QED BY <2>2, <2>4, <2>5
<1>8. /\ QueuePool' = QueuePool - RawBytes /\ RawBytes <= QueuePool
      /\ TlsPool' = TlsPool /\ IngressPool' = IngressPool
      /\ SendPool' = SendPool /\ InflightPool' = InflightPool /\ ScratchPool' = ScratchPool
      /\ pool' \in [Pools -> Nat]
  <2>1. QueuePool \in Nat /\ RawTotal \in Nat
    BY <1>0 DEF Amounts
  <2>2. RawBytes <= QueuePool
    <3>1. PICK q \in Nat, r \in Nat, n \in Nat : q = QueuePool /\ r = RawTotal /\ n = RawBytes
      BY <1>0, <2>1
    <3>2. n <= r /\ r <= q
      BY <1>0, <1>7, <3>1
    <3>3. n <= q
      BY <3>2
    <3> QED BY <3>1, <3>3
  <2>3. Less(QueuePool, RawBytes) = QueuePool - RawBytes /\ QueuePool - RawBytes \in Nat
    BY <1>0, <2>1, <2>2 DEF Less
  <2>4. pool' = [pool EXCEPT !["queue"] = QueuePool - RawBytes]
    BY <1>0, <2>3 DEF Release, QueuePool
  <2> QED BY <1>0, <2>2, <2>3, <2>4
          DEF TypeInv, Pools, QueuePool, IngressPool, SendPool, InflightPool, ScratchPool, TlsPool
<1>9. TypeInv'
  <2>1. CondType'
    BY <1>0, CondSteps DEF TypeInv, CondType
  <2> QED BY <1>0, <1>3, <1>4, <1>5, <1>7, <1>8, <2>1, AtTypes, TaskTypes DEF TypeInv, CondType, gates, adding
<1>10. WorkerMoves(w)
  <2>1. WorkerOK(w)'
    BY <1>3, <1>6 DEF WorkerOK
  <2> QED BY <1>0, <1>3, <1>4, <1>5, <2>1, AtTypes, TaskTypes DEF WorkerMoves, OnlyWorker, NoSender, gates,
            adding
<1>11. /\ Built' = Built /\ IngressLogs' = IngressLogs /\ SendLogs' = SendLogs /\ SendMem' = SendMem
       /\ ended' = ended
  BY <1>0 DEF Built, IngressLogs, SendLogs, SendMem
<1>12. PICK u \in Nat : u = Unpacked(w)
  BY <1>0 DEF WorkerEach
<1>13. /\ Sum(hand'[w]) = Sum(hand[w]) /\ task'[w].held = 0 /\ task[w].held = 0
       /\ task'[w].logs = 1 /\ task[w].logs = 0 /\ At({"push"}, w) = 0 /\ At({"push"}, w)' = 0
       /\ Unpacked(w)' = u
  BY <1>0, <1>3, <1>6, <1>12 DEF At, Unpacked, NoTask
<1>14. WorkerBalance(w)
  <2>0. PICK h \in Nat, k \in Nat, m \in Nat : h = Sum(hand[w]) /\ k = RawTotal' /\ m = raw'
    BY <1>0, <1>7 DEF WorkerEach
  <2>1. /\ ended \in Nat /\ SendLogs \in Nat /\ QueuePool \in Nat /\ Built \in Nat /\ RawTotal \in Nat
        /\ IngressLogs \in Nat /\ Stored \in Nat /\ Queued \in Nat
    BY <1>0 DEF Amounts
  <2>2. Stored = Built + RawTotal /\ Queued = Built + raw + IngressLogs
    BY DEF Stored, Queued
  <2>3. RawTotal = k + RawBytes /\ raw = m + 1
    BY <1>0, <1>7, <2>0
  <2>4. Stored' = Built + k /\ Queued' = Built + m + IngressLogs
    BY <1>11, <2>0 DEF Stored, Queued
  <2>5. /\ QueuePool - RawBytes + Stored + h = QueuePool + (Built + k) + h
        /\ ended + (Built + m + IngressLogs) + SendLogs + 1 + u = ended + Queued + SendLogs + 0 + u
    BY <1>0, <1>8, <2>1, <2>2, <2>3
  <2> QED BY <1>6, <1>8, <1>11, <1>12, <1>13, <2>0, <2>4, <2>5 DEF WorkerBalance
<1>15. SendPool' + ScratchPool' <= SendPool + ScratchPool
       /\ QueuePool' + IngressPool' <= QueuePool + IngressPool
  <2>1. SendPool \in Nat /\ ScratchPool \in Nat /\ QueuePool \in Nat /\ IngressPool \in Nat
    BY <1>0 DEF Amounts
  <2> QED BY <1>0, <1>8, <2>1
<1> QED
  BY <1>9, <1>10, <1>14, <1>15, WorkerDoneNoMore

LEMMA WorkerBlocksStep == ASSUME Inv, NEW w \in Workers, WorkerBlocks(w) PROVE Inv'
  BY BlocksStep DEF WorkerBlocks

(* The task leaves worker w.                                                 *)
LEMMA LeaveMoves ==
    ASSUME Inv, NEW w \in Workers, at[w] \in {"compress", "packed", "push"}, Leave(w), hand' = hand
    PROVE  /\ at' \in [Workers \cup Senders -> WorkerPlaces \cup SenderPlaces]
           /\ task' \in [Workers \cup Senders -> Task]
           /\ \A u \in Workers : at'[u] \in WorkerPlaces
           /\ \A s \in Senders : at'[s] \in SenderPlaces
           /\ OnlyWorker(w) /\ NoSender /\ WorkerOK(w)'
           /\ at'[w] # "gone" /\ task'[w].logs = 0 /\ task'[w].held = 0 /\ hand'[w] = hand[w]
           /\ At({"push"}, w)' = 0 /\ Unpacked(w)' = Unpacked(w)
<1>0. TypeInv /\ WorkerOK(w)
  BY DEF Inv, PlaceInv
<1>1. PICK p \in {"raw", "settle"} :
        at' = [at EXCEPT ![w] = p] /\ (p = "raw" <=> task[w].from = "raw")
  BY DEF Leave
<1>2. PICK x : x = NoTask
  OBVIOUS
<1>3. x \in Task /\ x.logs = 0 /\ x.held = 0 /\ x.from = "none"
  BY <1>2 DEF NoTask, Task
<1>4. p \in WorkerPlaces /\ task' = [task EXCEPT ![w] = x]
  BY <1>1, <1>2 DEF WorkerPlaces, Leave
<1>5. at'[w] = p /\ task'[w] = x
  BY <1>0, <1>1, <1>3, <1>4, AtTypes, TaskTypes
<1>6. WorkerOK(w)'
  BY <1>0, <1>1, <1>2, <1>3, <1>5 DEF WorkerOK
<1>7. OnlyWorker(w) /\ NoSender
  BY <1>0, <1>1, <1>3, <1>4, AtTypes, TaskTypes DEF OnlyWorker, NoSender
<1>8. Unpacked(w)' = Unpacked(w)
  <2>1. CASE p = "raw"
    BY <1>0, <1>1, <1>3, <1>5, <2>1 DEF Unpacked
  <2>2. CASE p = "settle"
    <3>1. task[w].from = "builder"
      BY <1>0, <1>1, <2>2 DEF WorkerOK
    <3> QED BY <1>5, <2>2, <3>1 DEF Unpacked
  <2> QED BY <2>1, <2>2
<1> QED
  BY <1>0, <1>1, <1>3, <1>4, <1>5, <1>6, <1>7, <1>8, AtTypes, TaskTypes DEF At

(* It is dropped: its scratch buffer is released and its callback runs.      *)
LEMMA DropStep ==
    ASSUME Inv, NEW w \in Workers, at[w] \in {"compress", "packed"}, NEW s, Drop(w, s),
           flush' \in BOOLEAN, UNCHANGED <<gates, queues, sendq, adding, hand, inflight>>
    PROVE  Inv'
<1>0. /\ TypeInv /\ PlaceInv /\ Amounts /\ WorkerEach(w) /\ task[w].held <= ScratchPool
      /\ Leave(w) /\ hand' = hand /\ CondMoves(w)
  <2>1. CondMoves(w)
    BY DEF Drop, CondMoves, SignalsIf
  <2> QED BY <2>1, WorkerAmounts DEF Inv, Drop
<1>1. PICK e \in Nat, l \in Nat, h \in Nat, u \in Nat :
        e = task[w].held /\ l = task[w].logs /\ h = Sum(hand[w]) /\ u = Unpacked(w)
  BY <1>0 DEF WorkerEach
<1>2. /\ ScratchPool' = ScratchPool - e /\ e <= ScratchPool /\ QueuePool' = QueuePool
      /\ TlsPool' = TlsPool /\ IngressPool' = IngressPool
      /\ SendPool' = SendPool /\ InflightPool' = InflightPool /\ pool' \in [Pools -> Nat]
  <2>1. ScratchPool \in Nat
    BY <1>0 DEF Amounts
  <2>2. e <= ScratchPool
    BY <1>0, <1>1
  <2>3. Less(ScratchPool, e) = ScratchPool - e /\ ScratchPool - e \in Nat
    BY <2>1, <2>2 DEF Less
  <2>4. pool' = [pool EXCEPT !["scratch"] = ScratchPool - e]
    BY <1>1, <2>3 DEF Drop, Release, ScratchPool
  <2> QED BY <1>0, <2>2, <2>3, <2>4
          DEF TypeInv, Pools, QueuePool, IngressPool, SendPool, InflightPool, ScratchPool, TlsPool
<1>3. ended' = ended + l /\ ended' \in Nat
  BY <1>0, <1>1 DEF Drop, Amounts
<1>4. TypeInv'
  <2>1. CondType'
    BY <1>0, CondSteps DEF TypeInv, CondType
  <2> QED BY <1>0, <1>2, <1>3, <2>1, LeaveMoves DEF TypeInv, CondType, gates, queues, adding
<1>5. WorkerMoves(w)
  BY <1>0, LeaveMoves DEF WorkerMoves, gates, adding
<1>6. /\ Stored' = Stored /\ Queued' = Queued /\ IngressLogs' = IngressLogs
      /\ SendLogs' = SendLogs /\ SendMem' = SendMem
  BY DEF queues, Stored, Queued, IngressLogs, Built, RawTotal, SendLogs, SendMem
<1>7. /\ at'[w] # "gone" /\ task'[w].logs = 0 /\ task'[w].held = 0 /\ hand'[w] = hand[w]
      /\ At({"push"}, w)' = 0 /\ At({"push"}, w) = 0 /\ Unpacked(w)' = u
  BY <1>0, <1>1, LeaveMoves DEF At
<1>8. WorkerBalance(w)
  <2>1. ended \in Nat /\ Queued \in Nat /\ SendLogs \in Nat /\ ScratchPool \in Nat
    BY <1>0 DEF Amounts
  <2>2. ended + l + Queued + SendLogs + 0 + u = ended + Queued + SendLogs + l + u
    BY <2>1
  <2>3. ScratchPool - e + e = ScratchPool + 0
    BY <1>2, <2>1
  <2> QED BY <1>1, <1>2, <1>3, <1>6, <1>7, <2>2, <2>3 DEF WorkerBalance
<1>9. SendPool' + ScratchPool' <= SendPool + ScratchPool
      /\ QueuePool' + IngressPool' <= QueuePool + IngressPool
  <2>1. SendPool \in Nat /\ ScratchPool \in Nat /\ QueuePool \in Nat /\ IngressPool \in Nat
    BY <1>0 DEF Amounts
  <2> QED BY <1>1, <1>2, <2>1
<1> QED
  BY <1>4, <1>5, <1>8, <1>9, WorkerDoneNoMore

LEMMA RejectStep == ASSUME Inv, NEW w \in Workers, Reject(w) PROVE Inv'
<1>1. flush' \in BOOLEAN
  BY DEF Reject, Inv, TypeInv
<1> QED
  BY <1>1, DropStep DEF Reject

LEMMA RefusedStep == ASSUME Inv, NEW w \in Workers, Refused(w) PROVE Inv'
<1>1. flush' \in BOOLEAN
  BY DEF Refused, Inv, TypeInv
<1>2. Drop(w, Expires(w, More(w), TRUE))
  BY DEF Refused
<1> QED
  BY <1>1, <1>2, DropStep DEF Refused

LEMMA PushFailsStep == ASSUME Inv, NEW w \in Workers, PushFails(w) PROVE Inv'
<1>0. /\ TypeInv /\ PlaceInv /\ Amounts /\ WorkerEach(w) /\ At({"push"}, w) <= SendPool
      /\ at[w] = "push" /\ Leave(w) /\ hand' = hand /\ CondMoves(w) /\ task[w].held = 0
      /\ UNCHANGED <<gates, flush, queues, sendq, adding, hand, inflight>>
  BY WorkerAmounts DEF Inv, PlaceInv, WorkerOK, PushFails, CondMoves
<1>1. PICK m \in Nat, l \in Nat, h \in Nat, u \in Nat :
        m = task[w].mem /\ m = At({"push"}, w) /\ l = task[w].logs /\ h = Sum(hand[w]) /\ u = Unpacked(w)
  BY <1>0 DEF WorkerEach, At
<1>2. /\ SendPool' = SendPool - m /\ m <= SendPool /\ QueuePool' = QueuePool
      /\ TlsPool' = TlsPool /\ IngressPool' = IngressPool
      /\ ScratchPool' = ScratchPool /\ InflightPool' = InflightPool /\ pool' \in [Pools -> Nat]
  <2>1. SendPool \in Nat
    BY <1>0 DEF Amounts
  <2>2. m <= SendPool
    BY <1>0, <1>1
  <2>3. Less(SendPool, m) = SendPool - m /\ SendPool - m \in Nat
    BY <2>1, <2>2 DEF Less
  <2>4. pool' = [pool EXCEPT !["send"] = SendPool - m]
    BY <1>1, <2>3 DEF PushFails, Release, SendPool
  <2> QED BY <1>0, <2>2, <2>3, <2>4
          DEF TypeInv, Pools, QueuePool, IngressPool, SendPool, InflightPool, ScratchPool, TlsPool
<1>3. ended' = ended + l /\ ended' \in Nat
  BY <1>0, <1>1 DEF PushFails, Amounts
<1>4. TypeInv'
  <2>1. CondType'
    BY <1>0, CondSteps DEF TypeInv, CondType
  <2> QED BY <1>0, <1>2, <1>3, <2>1, LeaveMoves DEF TypeInv, CondType, gates, queues, adding
<1>5. WorkerMoves(w)
  BY <1>0, LeaveMoves DEF WorkerMoves, gates, adding
<1>6. /\ Stored' = Stored /\ Queued' = Queued /\ IngressLogs' = IngressLogs
      /\ SendLogs' = SendLogs /\ SendMem' = SendMem
  BY <1>0 DEF queues, Stored, Queued, IngressLogs, Built, RawTotal, SendLogs, SendMem
<1>7. /\ at'[w] # "gone" /\ task'[w].logs = 0 /\ task'[w].held = 0 /\ hand'[w] = hand[w]
      /\ At({"push"}, w)' = 0 /\ Unpacked(w)' = u
  BY <1>0, <1>1, LeaveMoves
<1>8. WorkerBalance(w)
  <2>1. /\ ended \in Nat /\ Queued \in Nat /\ SendLogs \in Nat /\ SendPool \in Nat /\ SendMem \in Nat
    BY <1>0 DEF Amounts
  <2>2. ended + l + Queued + SendLogs + 0 + u = ended + Queued + SendLogs + l + u
    BY <2>1
  <2>3. SendPool - m + SendMem + m = SendPool + SendMem + 0
    BY <1>2, <2>1
  <2> QED BY <1>0, <1>1, <1>2, <1>3, <1>6, <1>7, <2>2, <2>3 DEF WorkerBalance
<1>9. SendPool' + ScratchPool' <= SendPool + ScratchPool
      /\ QueuePool' + IngressPool' <= QueuePool + IngressPool
  <2>1. SendPool \in Nat /\ ScratchPool \in Nat /\ QueuePool \in Nat /\ IngressPool \in Nat
    BY <1>0 DEF Amounts
  <2> QED BY <1>1, <1>2, <2>1
<1> QED
  BY <1>4, <1>5, <1>8, <1>9, WorkerDoneNoMore

LEMMA PushStep == ASSUME Inv, NEW w \in Workers, Push(w) PROVE Inv'
<1>0. /\ TypeInv /\ PlaceInv /\ Amounts /\ WorkerEach(w) /\ task[w] \in Task
      /\ at[w] = "push" /\ Leave(w) /\ hand' = hand /\ task[w].held = 0 /\ ~sendStop
      /\ UNCHANGED <<gates, flush, pool, queues, adding, cond, hand, inflight, ended>>
      /\ sendq' = Append(sendq, task[w]) /\ sendq \in Seq(Task)
  BY WorkerAmounts DEF Inv, PlaceInv, WorkerOK, Push, TypeInv
<1>1. PICK m \in Nat, l \in Nat, h \in Nat, u \in Nat :
        m = task[w].mem /\ m = At({"push"}, w) /\ l = task[w].logs /\ h = Sum(hand[w]) /\ u = Unpacked(w)
  BY <1>0 DEF WorkerEach, At
<1>2. /\ QueuePool' = QueuePool /\ TlsPool' = TlsPool /\ IngressPool' = IngressPool /\ SendPool' = SendPool
      /\ ScratchPool' = ScratchPool /\ InflightPool' = InflightPool /\ ended' = ended
      /\ Stored' = Stored /\ Queued' = Queued /\ IngressLogs' = IngressLogs
  BY <1>0 DEF queues, Stored, Queued, IngressLogs, Built, RawTotal,
         QueuePool, IngressPool, SendPool, InflightPool, ScratchPool, TlsPool
<1>3. SendLogs' = SendLogs + l /\ SendMem' = SendMem + m /\ sendq' \in Seq(Task)
  <2>1. \A x \in Task : x.logs \in Nat /\ x.mem \in Nat
    BY DEF Task
  <2>2. Logs(Append(sendq, task[w])) = Logs(sendq) + task[w].logs
    BY <1>0, <2>1, LogsQueue
  <2>3. Mem(Append(sendq, task[w])) = Mem(sendq) + task[w].mem
    BY <1>0, <2>1, MemQueue
  <2>4. Append(sendq, task[w]) \in Seq(Task)
    BY <1>0, AppendProperties
  <2> QED BY <1>0, <1>1, <2>2, <2>3, <2>4 DEF SendLogs, SendMem
<1>4. TypeInv'
  BY <1>0, <1>3, LeaveMoves DEF TypeInv, gates, queues, adding
<1>5. WorkerMoves(w)
  BY <1>0, LeaveMoves DEF WorkerMoves, gates, adding
<1>6. /\ at'[w] # "gone" /\ task'[w].logs = 0 /\ task'[w].held = 0 /\ hand'[w] = hand[w]
      /\ At({"push"}, w)' = 0 /\ Unpacked(w)' = u
  BY <1>0, <1>1, LeaveMoves
<1>7. WorkerBalance(w)
  <2>1. /\ ended \in Nat /\ Queued \in Nat /\ SendLogs \in Nat /\ SendPool \in Nat /\ SendMem \in Nat
    BY <1>0 DEF Amounts
  <2>2. ended + Queued + (SendLogs + l) + 0 + u = ended + Queued + SendLogs + l + u
    BY <2>1
  <2>3. SendPool + SendMem + m = SendPool + (SendMem + m) + 0
    BY <2>1
  <2> QED BY <1>0, <1>1, <1>2, <1>3, <1>6, <2>2, <2>3 DEF WorkerBalance
<1>8. SendPool' + ScratchPool' <= SendPool + ScratchPool
      /\ QueuePool' + IngressPool' <= QueuePool + IngressPool
  <2>1. SendPool \in Nat /\ ScratchPool \in Nat /\ QueuePool \in Nat /\ IngressPool \in Nat
    BY <1>0 DEF Amounts
  <2> QED BY <1>2, <2>1
<1> QED
  BY <1>4, <1>5, <1>7, <1>8, WorkerDoneNoMore

LEMMA SettleStep == ASSUME Inv, NEW w \in Workers, Settle(w) PROVE Inv'
<1>0. /\ TypeInv /\ PlaceInv /\ Amounts /\ WorkerEach(w) /\ Sum(hand[w]) <= QueuePool
      /\ at[w] = "settle" /\ hand[w] # <<>> /\ hand[w] \in Seq(Nat) /\ task[w] = NoTask /\ CondMoves(w)
      /\ UNCHANGED <<gates, flush, queues, sendq, adding, task, inflight, ended>>
      /\ at' = [at EXCEPT ![w] = "hand"]
  BY WorkerAmounts DEF Inv, PlaceInv, WorkerOK, Settle, CondMoves
<1>1. PICK n \in Nat, r \in Nat :
        /\ n = Head(hand[w]) /\ r = Sum(Tail(hand[w])) /\ Sum(hand[w]) = n + r
        /\ Tail(hand[w]) \in Seq(Nat)
  <2>1. Head(hand[w]) \in Nat /\ Sum(hand[w]) = Head(hand[w]) + Sum(Tail(hand[w])) /\ Tail(hand[w]) \in Seq(Nat)
    BY <1>0, SumTail
  <2> QED BY <2>1, SumSeq
<1>2. hand' = [hand EXCEPT ![w] = Tail(hand[w])] /\ hand'[w] = Tail(hand[w])
      /\ hand' \in [Workers -> Seq(Nat)] /\ \A u \in Workers : u # w => hand'[u] = hand[u]
  BY <1>0, <1>1 DEF Settle, TypeInv
<1>3. PICK p : p = "hand"
  OBVIOUS
<1>4. p \in WorkerPlaces /\ at' = [at EXCEPT ![w] = p]
  BY <1>0, <1>3 DEF WorkerPlaces
<1>5. at'[w] = p /\ task'[w] = NoTask
  BY <1>0, <1>4, AtTypes
<1>6. /\ QueuePool' = QueuePool - n /\ n + r <= QueuePool /\ SendPool' = SendPool
      /\ TlsPool' = TlsPool /\ IngressPool' = IngressPool
      /\ ScratchPool' = ScratchPool /\ InflightPool' = InflightPool /\ pool' \in [Pools -> Nat]
  <2>1. QueuePool \in Nat
    BY <1>0 DEF Amounts
  <2>2. n + r <= QueuePool
    BY <1>0, <1>1
  <2>3. Less(QueuePool, n) = QueuePool - n /\ QueuePool - n \in Nat
    BY <2>1, <2>2 DEF Less
  <2>4. pool' = [pool EXCEPT !["queue"] = QueuePool - n]
    BY <1>1, <2>3 DEF Settle, Release, QueuePool
  <2> QED BY <1>0, <2>2, <2>3, <2>4
          DEF TypeInv, Pools, QueuePool, IngressPool, SendPool, InflightPool, ScratchPool, TlsPool
<1>7. TypeInv'
  <2>1. CondType'
    BY <1>0, CondSteps DEF TypeInv, CondType
  <2> QED BY <1>0, <1>2, <1>4, <1>6, <2>1, AtTypes DEF TypeInv, CondType, gates, queues, adding
<1>8. WorkerMoves(w)
  <2>1. WorkerOK(w)'
    BY <1>3, <1>5 DEF WorkerOK, NoTask
  <2> QED BY <1>0, <1>2, <1>4, <2>1, AtTypes DEF WorkerMoves, OnlyWorker, NoSender, gates, adding
<1>9. /\ Stored' = Stored /\ Queued' = Queued /\ IngressLogs' = IngressLogs
      /\ SendLogs' = SendLogs /\ SendMem' = SendMem /\ ended' = ended
  BY <1>0 DEF queues, Stored, Queued, IngressLogs, Built, RawTotal, SendLogs, SendMem
<1>10. /\ Sum(hand'[w]) = r /\ task'[w].held = 0 /\ task[w].held = 0 /\ task'[w].logs = 0
       /\ task[w].logs = 0 /\ At({"push"}, w)' = 0 /\ At({"push"}, w) = 0
       /\ Unpacked(w) = r /\ Unpacked(w)' = r
  BY <1>0, <1>1, <1>2, <1>3, <1>5 DEF At, Unpacked, NoTask
<1>11. WorkerBalance(w)
  <2>1. QueuePool \in Nat /\ Stored \in Nat
    BY <1>0 DEF Amounts
  <2>2. QueuePool - n + Stored + (n + r) = QueuePool + Stored + r
    BY <1>6, <2>1
  <2> QED BY <1>1, <1>3, <1>5, <1>6, <1>9, <1>10, <2>2 DEF WorkerBalance
<1>12. SendPool' + ScratchPool' <= SendPool + ScratchPool
       /\ QueuePool' + IngressPool' <= QueuePool + IngressPool
  <2>1. SendPool \in Nat /\ ScratchPool \in Nat /\ QueuePool \in Nat /\ IngressPool \in Nat
    BY <1>0 DEF Amounts
  <2>2. SendPool + ScratchPool <= SendPool + ScratchPool
    BY <2>1
  <2>3. QueuePool - n + IngressPool <= QueuePool + IngressPool
    BY <1>1, <2>1
  <2> QED BY <1>6, <2>2, <2>3
<1> QED
  BY <1>7, <1>8, <1>11, <1>12, WorkerDoneNoMore

(* Only the scratch bytes, the bytes and the kind of its task change.        *)
TaskGrows(w, p, x) ==
    /\ x \in Task /\ x.logs = task[w].logs /\ x.from = task[w].from
    /\ task' = [task EXCEPT ![w] = x] /\ at' = [at EXCEPT ![w] = p] /\ hand' = hand

LEMMA TaskGrowsMoves ==
    ASSUME Inv, NEW w \in Workers, at[w] \in {"compress", "packed"}, NEW p \in {"packed", "push"},
           NEW x, TaskGrows(w, p, x), p # "packed" => x.held = 0
    PROVE  /\ at' \in [Workers \cup Senders -> WorkerPlaces \cup SenderPlaces]
           /\ task' \in [Workers \cup Senders -> Task]
           /\ \A u \in Workers : at'[u] \in WorkerPlaces
           /\ \A s \in Senders : at'[s] \in SenderPlaces
           /\ OnlyWorker(w) /\ NoSender /\ WorkerOK(w)'
           /\ at'[w] = p /\ task'[w] = x /\ hand'[w] = hand[w] /\ Unpacked(w)' = Unpacked(w)
<1>0. TypeInv /\ WorkerOK(w) /\ p \in WorkerPlaces
  BY DEF Inv, PlaceInv, WorkerPlaces
<1>1. x \in Task /\ x.logs = task[w].logs /\ x.from = task[w].from
      /\ task' = [task EXCEPT ![w] = x] /\ at' = [at EXCEPT ![w] = p] /\ hand' = hand
  BY DEF TaskGrows
<1>2. at'[w] = p /\ task'[w] = x
  BY <1>0, <1>1, AtTypes, TaskTypes
<1>3. WorkerOK(w)'
  BY <1>0, <1>1, <1>2 DEF WorkerOK
<1>4. OnlyWorker(w) /\ NoSender
  BY <1>0, <1>1, AtTypes, TaskTypes DEF OnlyWorker, NoSender
<1>5. Unpacked(w)' = Unpacked(w)
  BY <1>0, <1>1, <1>2 DEF Unpacked
<1> QED
  BY <1>0, <1>1, <1>2, <1>3, <1>4, <1>5, AtTypes, TaskTypes

LEMMA CompressStep == ASSUME Inv, NEW w \in Workers, Compress(w) PROVE Inv'
<1>0. /\ TypeInv /\ PlaceInv /\ Amounts /\ WorkerEach(w) /\ task[w] \in Task
      /\ at[w] = "compress" /\ task[w].held = 0 /\ CondMoves(w)
      /\ BufferedBytes + Bound(w) <= MaxBytes
      /\ UNCHANGED <<gates, flush, queues, sendq, adding, hand, inflight, ended>>
  BY WorkerAmounts DEF Inv, PlaceInv, WorkerOK, Compress, CondMoves, GetsSpace, HasSpace
<1>1. PICK n \in Nat, k \in Nat : n = Bound(w) /\ k = task[w].mem + Packed
  <2>1. PICK m \in Nat : m = task[w].mem
    BY <1>0 DEF Task
  <2>2. m + Slack \in Nat /\ m + Packed \in Nat
    BY Constants
  <2> QED BY <2>1, <2>2 DEF Bound
<1>2. PICK x : x = [task[w] EXCEPT !.held = Bound(w), !.mem = task[w].mem + Packed]
  OBVIOUS
<1>3. TaskGrows(w, "packed", x) /\ x.held = n /\ x.logs = task[w].logs
  <2>1. x \in Task /\ x.held = n /\ x.logs = task[w].logs /\ x.from = task[w].from
    BY <1>0, <1>1, <1>2 DEF Task
  <2>2. task' = [task EXCEPT ![w] = x]
    BY <1>2 DEF Compress
  <2>3. at' = [at EXCEPT ![w] = "packed"]
    BY <1>0 DEF Compress, TypeInv
  <2> QED BY <1>0, <1>2, <2>1, <2>2, <2>3 DEF TaskGrows
<1>4. PICK l \in Nat, h \in Nat, u \in Nat : l = task[w].logs /\ h = Sum(hand[w]) /\ u = Unpacked(w)
  BY <1>0 DEF WorkerEach
<1>5. /\ ScratchPool' = ScratchPool + n /\ QueuePool' = QueuePool /\ SendPool' = SendPool
      /\ TlsPool' = TlsPool /\ IngressPool' = IngressPool
      /\ InflightPool' = InflightPool /\ pool' \in [Pools -> Nat]
  <2>1. pool' = Take("scratch", n)
    BY <1>1 DEF Compress
  <2> QED BY <1>0, <2>1 DEF Take, TypeInv, Pools, QueuePool, IngressPool, SendPool, InflightPool, ScratchPool,
     TlsPool
<1>6. PICK p \in {"packed", "push"} : p = "packed"
  OBVIOUS
<1>7. /\ at' \in [Workers \cup Senders -> WorkerPlaces \cup SenderPlaces]
      /\ task' \in [Workers \cup Senders -> Task]
      /\ \A v \in Workers : at'[v] \in WorkerPlaces
      /\ \A s \in Senders : at'[s] \in SenderPlaces
      /\ OnlyWorker(w) /\ NoSender /\ WorkerOK(w)'
      /\ at'[w] = p /\ task'[w] = x /\ hand'[w] = hand[w] /\ Unpacked(w)' = u
  BY <1>0, <1>3, <1>4, <1>6, TaskGrowsMoves
<1>8. TypeInv'
  <2>1. CondType'
    BY <1>0, CondSteps DEF TypeInv, CondType
  <2> QED BY <1>0, <1>5, <1>7, <2>1 DEF TypeInv, CondType, gates, queues, adding
<1>9. WorkerMoves(w)
  BY <1>0, <1>7 DEF WorkerMoves, gates, adding
<1>10. /\ Stored' = Stored /\ Queued' = Queued /\ IngressLogs' = IngressLogs
       /\ SendLogs' = SendLogs /\ SendMem' = SendMem /\ ended' = ended
  BY <1>0 DEF queues, Stored, Queued, IngressLogs, Built, RawTotal, SendLogs, SendMem
<1>11. At({"push"}, w)' = 0 /\ At({"push"}, w) = 0 /\ task'[w].held = n /\ task'[w].logs = l
  BY <1>0, <1>3, <1>4, <1>6, <1>7 DEF At
<1>12. WorkerBalance(w)
  <2>1. ScratchPool + n + 0 = ScratchPool + n
    BY <1>0 DEF Amounts
  <2> QED BY <1>0, <1>4, <1>5, <1>6, <1>7, <1>10, <1>11, <2>1 DEF WorkerBalance
<1>13. SendPool' + ScratchPool' <= SendPool + ScratchPool + n
       /\ QueuePool' + IngressPool' <= QueuePool + IngressPool
  <2>1. SendPool \in Nat /\ ScratchPool \in Nat /\ QueuePool \in Nat /\ IngressPool \in Nat
    BY <1>0 DEF Amounts
  <2> QED BY <1>5, <2>1
<1> QED
  BY <1>0, <1>1, <1>8, <1>9, <1>12, <1>13, WorkerDone

LEMMA SwapStep == ASSUME Inv, NEW w \in Workers, Swap(w) PROVE Inv'
<1>0. /\ TypeInv /\ PlaceInv /\ Amounts /\ WorkerEach(w) /\ task[w] \in Task
      /\ at[w] = "packed" /\ CondMoves(w) /\ task[w].held <= ScratchPool
      /\ UNCHANGED <<gates, flush, queues, sendq, adding, hand, inflight, ended>>
  BY WorkerAmounts DEF Inv, PlaceInv, WorkerOK, Swap, CondMoves
<1>1. PICK e \in Nat, m \in Nat : e = task[w].held /\ m = task[w].mem
  BY <1>0 DEF Task
<1>2. PICK n \in Nat : n = More(w) /\ m <= e + n /\ (n > 0 => BufferedBytes + n <= MaxBytes)
  <2>1. More(w) = Less(m, e)
    BY <1>0, <1>1 DEF More
  <2>2. PICK k \in Nat : k = Less(m, e) /\ m <= e + k
    <3>1. CASE m < e
      <4>1. Less(m, e) = 0 /\ m <= e + 0
        BY <3>1 DEF Less
      <4> QED BY <4>1
    <3>2. CASE ~(m < e)
      <4>1. Less(m, e) = m - e /\ m - e \in Nat /\ m <= e + (m - e)
        BY <3>2 DEF Less
      <4> QED BY <4>1
    <3> QED BY <3>1, <3>2
  <2>3. More(w) = 0 \/ BufferedBytes + More(w) <= MaxBytes
    BY DEF Swap, GetsSpace, HasSpace
  <2>4. k > 0 => BufferedBytes + k <= MaxBytes
    BY <2>1, <2>2, <2>3
  <2> QED BY <2>1, <2>2, <2>4
<1>3. PICK x : x = [logs |-> task[w].logs, mem |-> m, held |-> 0, kind |-> task[w].kind, from |-> task[w].from]
  OBVIOUS
<1>4. TaskGrows(w, "push", x) /\ x.held = 0 /\ x.logs = task[w].logs /\ x.mem = m
  <2>1. x \in Task
    BY <1>0, <1>3 DEF Task
  <2>2. task' = [task EXCEPT ![w] = x]
    <3>1. task' = [task EXCEPT ![w] = [task[w] EXCEPT !.held = 0]]
      BY <1>0, <1>1 DEF Swap, TypeInv
    <3>2. [task[w] EXCEPT !.held = 0] = x
      BY <1>0, <1>1, <1>3 DEF Task
    <3> QED BY <3>1, <3>2
  <2>3. at' = [at EXCEPT ![w] = "push"]
    BY <1>0 DEF Swap, TypeInv
  <2> QED BY <1>0, <1>3, <2>1, <2>2, <2>3 DEF TaskGrows
<1>5. PICK l \in Nat, h \in Nat, u \in Nat : l = task[w].logs /\ h = Sum(hand[w]) /\ u = Unpacked(w)
  BY <1>0 DEF WorkerEach
<1>6. /\ ScratchPool' = ScratchPool - e /\ e <= ScratchPool /\ SendPool' = SendPool + m
      /\ QueuePool' = QueuePool /\ TlsPool' = TlsPool /\ IngressPool' = IngressPool
      /\ InflightPool' = InflightPool /\ pool' \in [Pools -> Nat]
  <2>1. ScratchPool \in Nat /\ SendPool \in Nat
    BY <1>0 DEF Amounts
  <2>2. e <= ScratchPool
    BY <1>0, <1>1
  <2>3. Less(ScratchPool, e) = ScratchPool - e /\ ScratchPool - e \in Nat /\ SendPool + m \in Nat
    BY <2>1, <2>2 DEF Less
  <2>4. pool' = [pool EXCEPT !["scratch"] = ScratchPool - e, !["send"] = SendPool + m]
    BY <1>0, <1>1, <2>3 DEF Swap, ScratchPool, SendPool, TypeInv, Pools
  <2> QED BY <1>0, <2>2, <2>3, <2>4
          DEF TypeInv, Pools, QueuePool, IngressPool, SendPool, InflightPool, ScratchPool, TlsPool
<1>7. PICK p \in {"packed", "push"} : p = "push"
  OBVIOUS
<1>8. /\ at' \in [Workers \cup Senders -> WorkerPlaces \cup SenderPlaces]
      /\ task' \in [Workers \cup Senders -> Task]
      /\ \A v \in Workers : at'[v] \in WorkerPlaces
      /\ \A s \in Senders : at'[s] \in SenderPlaces
      /\ OnlyWorker(w) /\ NoSender /\ WorkerOK(w)'
      /\ at'[w] = p /\ task'[w] = x /\ hand'[w] = hand[w] /\ Unpacked(w)' = u
  BY <1>0, <1>4, <1>5, <1>7, TaskGrowsMoves
<1>9. TypeInv'
  <2>1. CondType'
    BY <1>0, CondSteps DEF TypeInv, CondType
  <2> QED BY <1>0, <1>6, <1>8, <2>1 DEF TypeInv, CondType, gates, queues, adding
<1>10. WorkerMoves(w)
  BY <1>0, <1>8 DEF WorkerMoves, gates, adding
<1>11. /\ Stored' = Stored /\ Queued' = Queued /\ IngressLogs' = IngressLogs
       /\ SendLogs' = SendLogs /\ SendMem' = SendMem /\ ended' = ended
  BY <1>0 DEF queues, Stored, Queued, IngressLogs, Built, RawTotal, SendLogs, SendMem
<1>12. At({"push"}, w)' = m /\ At({"push"}, w) = 0 /\ task'[w].held = 0 /\ task'[w].logs = l
  BY <1>0, <1>4, <1>5, <1>7, <1>8 DEF At
<1>13. WorkerBalance(w)
  <2>1. ScratchPool \in Nat /\ SendPool \in Nat /\ SendMem \in Nat
    BY <1>0 DEF Amounts
  <2>2. ScratchPool - e + e = ScratchPool + 0 /\ SendPool + m + SendMem + 0 = SendPool + SendMem + m
    BY <1>6, <2>1
  <2> QED BY <1>0, <1>1, <1>5, <1>6, <1>7, <1>8, <1>11, <1>12, <2>2 DEF WorkerBalance
<1>14. SendPool' + ScratchPool' <= SendPool + ScratchPool + n
       /\ QueuePool' + IngressPool' <= QueuePool + IngressPool
  <2>1. SendPool \in Nat /\ ScratchPool \in Nat /\ QueuePool \in Nat /\ IngressPool \in Nat
    BY <1>0 DEF Amounts
  <2> QED BY <1>2, <1>6, <2>1
<1> QED
  BY <1>0, <1>2, <1>9, <1>10, <1>13, <1>14, WorkerDone

(* What a pass of the worker takes and what it leaves in the builders.       *)
LEMMA CollectSums ==
    ASSUME Inv, NEW w \in Workers, Collect(w)
    PROVE  /\ builder' \in [{"default", "keyed"} -> Nat] /\ hand' \in [Workers -> Seq(Nat)]
           /\ \A u \in Workers : u # w => hand'[u] = hand[u]
           /\ Sum(hand'[w]) + Built' = Built + IngressLogs
<1>0. TypeInv /\ builder["default"] \in Nat /\ builder["keyed"] \in Nat /\ Sum(sealed) \in Nat /\ sealed' = <<>>
  BY SumSeq DEF Inv, TypeInv, Collect
<1>1. PICK M : M = Merged
  OBVIOUS
<1>2. /\ M.open \in Nat /\ M.sealed \in Seq(Nat)
      /\ M.open + Sum(M.sealed) = builder["default"] + Sum(sealed) + Logs(ingress)
  BY <1>0, <1>1, MergedSums DEF TypeInv, Merging
<1>3. PICK open : open = Opened
  OBVIOUS
<1>4. /\ open \in [{"default", "keyed"} -> Nat] /\ open["default"] = M.open
      /\ open["keyed"] = builder["keyed"] /\ DOMAIN open = {"default", "keyed"}
  BY <1>0, <1>1, <1>2, <1>3 DEF TypeInv, Opened
<1>5. PICK seals :
        /\ hand' = [hand EXCEPT ![w] = Merged.sealed
                      \o (IF "default" \in seals THEN <<open["default"]>> ELSE <<>>)
                      \o (IF "keyed" \in seals THEN <<open["keyed"]>> ELSE <<>>)]
        /\ builder' = [b \in DOMAIN open |-> IF b \in seals THEN 0 ELSE open[b]]
  <2>1. PICK seals : Seal(w, seals)
    BY DEF Collect
  <2> QED BY <1>3, <2>1 DEF Seal
<1>6. PICK p, q :
        /\ p = IF "default" \in seals THEN <<open["default"]>> ELSE <<>>
        /\ q = IF "keyed" \in seals THEN <<open["keyed"]>> ELSE <<>>
  OBVIOUS
<1>7. ASSUME NEW b \in {"default", "keyed"}, NEW x, x = IF b \in seals THEN <<open[b]>> ELSE <<>>
      PROVE  x \in Seq(Nat) /\ Sum(x) \in Nat /\ Sum(x) + builder'[b] = open[b] /\ builder'[b] \in Nat
  <2>0. open[b] \in Nat /\ builder'[b] = IF b \in seals THEN 0 ELSE open[b]
    BY <1>4, <1>5, <1>7
  <2>1. CASE b \in seals
    <3>1. x = <<open[b]>> /\ x \in Seq(Nat)
      BY <1>7, <2>0, <2>1
    <3>2. Sum(x) = open[b]
      BY <2>0, <3>1, SumSingle
    <3> QED BY <2>0, <2>1, <3>1, <3>2
  <2>2. CASE b \notin seals
    <3>1. x = <<>> /\ x \in Seq(Nat)
      BY <1>7, <2>2
    <3>2. Sum(x) = 0
      BY <3>1, SumEmpty
    <3> QED BY <2>0, <2>2, <3>1, <3>2
  <2> QED BY <2>1, <2>2
<1>8. /\ p \in Seq(Nat) /\ Sum(p) \in Nat /\ Sum(p) + builder'["default"] = M.open
      /\ builder'["default"] \in Nat
  BY <1>4, <1>6, <1>7
<1>9. /\ q \in Seq(Nat) /\ Sum(q) \in Nat /\ Sum(q) + builder'["keyed"] = builder["keyed"]
      /\ builder'["keyed"] \in Nat
  BY <1>4, <1>6, <1>7
<1>10. builder' \in [{"default", "keyed"} -> Nat]
  BY <1>4, <1>5, <1>8, <1>9
<1>11. M.sealed \o p \in Seq(Nat) /\ M.sealed \o p \o q \in Seq(Nat)
  BY <1>2, <1>8, <1>9, ConcatProperties
<1>12. hand' = [hand EXCEPT ![w] = M.sealed \o p \o q]
  BY <1>1, <1>5, <1>6
<1>13. /\ hand' \in [Workers -> Seq(Nat)] /\ hand'[w] = M.sealed \o p \o q
       /\ \A u \in Workers : u # w => hand'[u] = hand[u]
  BY <1>0, <1>11, <1>12 DEF TypeInv
<1>14. Sum(hand'[w]) = Sum(M.sealed) + Sum(p) + Sum(q)
  <2>1. Sum(M.sealed \o p) = Sum(M.sealed) + Sum(p)
    BY <1>2, <1>8, SumConcat
  <2>2. Sum(M.sealed \o p \o q) = Sum(M.sealed \o p) + Sum(q)
    BY <1>9, <1>11, SumConcat
  <2> QED BY <1>13, <2>1, <2>2
<1>15. Sum(hand'[w]) + Built' = Built + IngressLogs
  <2>1. PICK d \in Nat, k \in Nat, z \in Nat, d1 \in Nat, k1 \in Nat, s \in Nat, a \in Nat, c \in Nat, o \in Nat,
             i \in Nat :
          /\ d = builder["default"] /\ k = builder["keyed"] /\ z = Sum(sealed) /\ d1 = builder'["default"]
          /\ k1 = builder'["keyed"] /\ s = Sum(M.sealed) /\ a = Sum(p) /\ c = Sum(q) /\ o = M.open
          /\ i = Logs(ingress)
    <3>1. Sum(M.sealed) \in Nat
      BY <1>2, SumSeq
    <3>2. Logs(ingress) \in Nat
      BY <1>0, AmountsNat DEF Amounts, IngressLogs
    <3> QED BY <1>0, <1>2, <1>8, <1>9, <3>1, <3>2
  <2>2. o + s = d + z + i
    BY <1>2, <2>1
  <2>3. a + d1 = o
    BY <1>8, <2>1
  <2>4. c + k1 = k
    BY <1>9, <2>1
  <2>5. Sum(hand'[w]) = s + a + c
    BY <1>14, <2>1
  <2>6. Built' = d1 + k1 + 0
    BY <1>0, <2>1, SumEmpty DEF Built
  <2>7. Built + IngressLogs = d + k + z + i
    BY <2>1 DEF Built, IngressLogs
  <2>8. s + a + c + (d1 + k1 + 0) = d + k + z + i
    BY <2>2, <2>3, <2>4
  <2> QED BY <2>5, <2>6, <2>7, <2>8
<1> QED
  BY <1>10, <1>13, <1>15

LEMMA CollectStep == ASSUME Inv, NEW w \in Workers, Collect(w) PROVE Inv'
<1>0. /\ TypeInv /\ PlaceInv /\ Amounts /\ WorkerEach(w) /\ IngressPool = IngressLogs
      /\ at[w] \in {"look", "linger", "due"} /\ task[w] = NoTask /\ hand[w] = <<>>
      /\ UNCHANGED <<gates, raw, sendq, adding, task, inflight, ended>> /\ CondMoves(w)
      /\ sealed' = <<>> /\ ingress' = <<>> /\ flush' = FALSE
      /\ pool' = Move("ingress", "queue", Logs(ingress))
  BY WorkerAmounts DEF Inv, PlaceInv, WorkerOK, Collect, CondMoves
<1>1. /\ builder' \in [{"default", "keyed"} -> Nat] /\ hand' \in [Workers -> Seq(Nat)]
      /\ \A u \in Workers : u # w => hand'[u] = hand[u]
      /\ Sum(hand'[w]) + Built' = Built + IngressLogs
  BY CollectSums
<1>2. PICK p : p = "raw"
  OBVIOUS
<1>3. p \in WorkerPlaces /\ at' = [at EXCEPT ![w] = p]
  BY <1>2 DEF WorkerPlaces, Collect
<1>4. at'[w] = p /\ task'[w] = NoTask
  BY <1>0, <1>3, AtTypes
<1>5. /\ QueuePool' = QueuePool + IngressLogs /\ IngressPool' = 0 /\ SendPool' = SendPool
      /\ TlsPool' = TlsPool /\ ScratchPool' = ScratchPool /\ InflightPool' = InflightPool
      /\ pool' \in [Pools -> Nat]
  <2>1. QueuePool \in Nat /\ IngressLogs \in Nat
    BY <1>0 DEF Amounts
  <2>2. Less(IngressPool, IngressLogs) = 0 /\ QueuePool + IngressLogs \in Nat
    BY <1>0, <2>1 DEF Less
  <2>3. pool' = [pool EXCEPT !["ingress"] = 0, !["queue"] = QueuePool + IngressLogs]
    BY <1>0, <2>2 DEF Move, IngressPool, QueuePool, IngressLogs, TypeInv, Pools
  <2> QED BY <1>0, <2>2, <2>3
          DEF TypeInv, Pools, QueuePool, IngressPool, SendPool, InflightPool, ScratchPool, TlsPool
<1>6. TypeInv'
  <2>1. CondType'
    BY <1>0, CondSteps DEF TypeInv, CondType
  <2>2. sealed' \in Seq(Nat) /\ ingress' \in Seq(Item)
    BY <1>0
  <2> QED BY <1>0, <1>1, <1>3, <1>5, <2>1, <2>2, AtTypes DEF TypeInv, CondType, gates, adding
<1>7. WorkerMoves(w)
  <2>1. WorkerOK(w)'
    BY <1>2, <1>4 DEF WorkerOK, NoTask
  <2> QED BY <1>0, <1>1, <1>3, <2>1, AtTypes DEF WorkerMoves, OnlyWorker, NoSender, gates, adding
<1>8. PICK h \in Nat, b \in Nat : h = Sum(hand'[w]) /\ b = Built' /\ h + b = Built + IngressLogs
  <2>1. Sum(hand'[w]) \in Nat
    BY <1>1, SumSeq
  <2>2. Built' \in Nat
    BY <1>0, <1>1, SumEmpty DEF Built
  <2> QED BY <1>1, <2>1, <2>2
<1>9. /\ Stored' = b + RawTotal /\ Queued' = b + raw + 0 /\ IngressLogs' = 0
      /\ SendLogs' = SendLogs /\ SendMem' = SendMem /\ ended' = ended
  BY <1>0, <1>8, LogsEmpty DEF Stored, Queued, IngressLogs, RawTotal, SendLogs, SendMem
<1>10. /\ Sum(hand[w]) = 0 /\ task'[w].held = 0 /\ task[w].held = 0 /\ task'[w].logs = 0
       /\ task[w].logs = 0 /\ At({"push"}, w)' = 0 /\ At({"push"}, w) = 0
       /\ Unpacked(w) = 0 /\ Unpacked(w)' = h
  BY <1>0, <1>2, <1>4, <1>8, SumEmpty DEF At, Unpacked, NoTask
<1>11. WorkerBalance(w)
  <2>1. /\ QueuePool \in Nat /\ Stored \in Nat /\ Built \in Nat /\ RawTotal \in Nat /\ IngressLogs \in Nat
        /\ IngressPool \in Nat /\ raw \in Nat /\ ended \in Nat /\ SendLogs \in Nat /\ Queued \in Nat
    BY <1>0 DEF Amounts
  <2>2. Stored = Built + RawTotal /\ Queued = Built + raw + IngressLogs
    BY DEF Stored, Queued
  <2>3. QueuePool + IngressLogs + Stored + 0 = QueuePool + (b + RawTotal) + h
    BY <1>8, <2>1, <2>2
  <2>4. ended + (b + raw + 0) + SendLogs + 0 + h = ended + Queued + SendLogs + 0 + 0
    BY <1>8, <2>1, <2>2
  <2>5. 0 + IngressLogs = IngressPool + 0
    BY <1>0, <2>1
  <2> QED BY <1>2, <1>4, <1>5, <1>8, <1>9, <1>10, <2>3, <2>4, <2>5 DEF WorkerBalance
<1>12. SendPool' + ScratchPool' <= SendPool + ScratchPool
       /\ QueuePool' + IngressPool' <= QueuePool + IngressPool
  <2>1. SendPool \in Nat /\ ScratchPool \in Nat /\ QueuePool \in Nat /\ IngressPool \in Nat
    BY <1>0 DEF Amounts
  <2>2. QueuePool' + IngressPool' = QueuePool + IngressPool + 0
    BY <1>0, <1>5
  <2> QED BY <1>5, <2>1, <2>2
<1> QED
  BY <1>6, <1>7, <1>11, <1>12, WorkerDoneNoMore

-------------------------------------------------------------------------------
(* The steps of a sender *)

SenderMoves(s) ==
    /\ UNCHANGED <<gates, queues, adding>> /\ OnlySender(s) /\ NoWorker /\ SenderOK(s)'
    /\ sendq = <<>> => sendq' = sendq

SenderLedger(s) ==
    /\ Numbers /\ Numbers' /\ SenderChange(s) /\ SenderEach(s) /\ SenderEach(s)'
    /\ AdderStill /\ WorkerStill /\ SendReserved' = SendReserved
    /\ WorkersGone' = WorkersGone
    /\ Stored' = Stored /\ Queued' = Queued /\ IngressLogs' = IngressLogs

LEMMA SenderStep ==
    ASSUME Inv, TypeInv', NEW s \in Senders, SenderMoves(s)
    PROVE  PlaceInv' /\ SenderLedger(s)
<1>1. \A u \in Senders : SenderOK(u)'
  <2>1. ASSUME NEW u \in Senders, u # s PROVE SenderOK(u)'
    BY <2>1 DEF Inv, PlaceInv, SenderMoves, OnlySender, SenderOK, gates
  <2> QED BY <2>1 DEF SenderMoves
<1>2. \A t \in Adders : AdderOK(t)'
  BY DEF Inv, PlaceInv, SenderMoves, AdderOK, gates, adding
<1>3. \A w \in Workers : WorkerOK(w)'
  BY DEF Inv, PlaceInv, SenderMoves, NoWorker, WorkerOK, gates
<1>4. PlaceInv'
  <2>1. sendStop' => phase' = "stopped"
    BY DEF Inv, PlaceInv, SenderMoves, gates
  <2> QED BY <1>1, <1>2, <1>3, <2>1 DEF PlaceInv
<1>5. NoAdder /\ NoWorker /\ OnlySender(s)
  BY DEF SenderMoves, NoAdder, adding
<1>6. Amounts /\ Amounts'
  <2>1. TypeInv' => Amounts'
    BY AmountsNat, PTL
  <2> QED BY <2>1, AmountsNat DEF Inv
<1>7. SenderChange(s) /\ SenderSums /\ SenderSums'
  BY <1>5, SenderChanges DEF Inv
<1>8. AdderStill /\ AdderSums /\ AdderSums'
  BY <1>5, AdderStays DEF Inv
<1>9. WorkerStill /\ WorkerSums /\ WorkerSums'
  BY <1>4, <1>5, WorkerStays DEF Inv
<1>10. /\ SendReserved' = SendReserved /\ WorkersGone' = WorkersGone
       /\ Stored' = Stored /\ Queued' = Queued /\ IngressLogs' = IngressLogs
  BY <1>5 DEF SendReserved, WorkersGone, NoWorker, SenderMoves, queues,
              Stored, Queued, IngressLogs, Built, RawTotal
<1>11. Numbers /\ Numbers' /\ SenderEach(s) /\ SenderEach(s)'
  BY <1>6, <1>7, <1>8, <1>9 DEF Numbers, AdderSums, WorkerSums, SenderSums
<1> QED
  BY <1>4, <1>7, <1>8, <1>9, <1>10, <1>11 DEF SenderLedger

(* What a step of sender s has to balance, in its own terms.                  *)
SenderBalance(s) ==
    /\ TlsPool' = TlsPool /\ QueuePool' = QueuePool /\ IngressPool' = IngressPool
    /\ ScratchPool' = ScratchPool
    /\ SendPool' + SendMem + At({"popped"}, s) = SendPool + SendMem' + At({"popped"}, s)'
    /\ InflightPool' + At({"sending"}, s) = InflightPool + At({"sending"}, s)'
    /\ inflight' + IsSending(s) = inflight + IsSending(s)'
    /\ ended' + SendLogs' + task'[s].logs = ended + SendLogs + task[s].logs

LEMMA SenderBooks ==
    ASSUME Exact, Counted, NEW s \in Senders, SenderMoves(s), SenderLedger(s), SenderBalance(s)
    PROVE  Exact' /\ Counted'
<1>1. Numbers /\ Numbers' /\ AdderStill /\ WorkerStill
  BY DEF SenderLedger
<1>2. /\ SendPool \in Nat /\ SendMem \in Nat /\ PushTotal \in Nat /\ PoppedTotal \in Nat
      /\ InflightPool \in Nat /\ SendingTotal \in Nat /\ inflight \in Nat /\ SendingCount \in Nat
      /\ accepted \in Nat /\ ended \in Nat /\ late \in Nat /\ Queued \in Nat /\ SendLogs \in Nat
      /\ BatchTotal \in Nat /\ PendingTotal \in Nat /\ WorkTotal \in Nat /\ UnpackedTotal \in Nat
      /\ SentTotal \in Nat
  BY <1>1 DEF Numbers, Amounts, AdderNat, WorkerNat, SenderNat
<1>3. PICK a \in Nat, a1 \in Nat, b \in Nat, b1 \in Nat, l \in Nat, l1 \in Nat, i \in Nat, i1 \in Nat :
        /\ a = At({"popped"}, s) /\ a1 = At({"popped"}, s)'
        /\ b = At({"sending"}, s) /\ b1 = At({"sending"}, s)'
        /\ l = task[s].logs /\ l1 = task'[s].logs /\ i = IsSending(s) /\ i1 = IsSending(s)'
  BY DEF SenderLedger, SenderEach
<1>4. PICK pt \in Nat, gt \in Nat, lt \in Nat, ct \in Nat :
        pt = PoppedTotal' /\ gt = SendingTotal' /\ lt = SentTotal' /\ ct = SendingCount'
  BY <1>1 DEF Numbers, SenderNat
<1>5. PICK sp \in Nat, ip \in Nat, sm \in Nat, sl \in Nat, en \in Nat, fl \in Nat :
        /\ sp = SendPool' /\ ip = InflightPool' /\ sm = SendMem' /\ sl = SendLogs'
        /\ en = ended' /\ fl = inflight'
  BY <1>1 DEF Numbers, Amounts
<1>6. /\ pt + a = PoppedTotal + a1 /\ gt + b = SendingTotal + b1
      /\ lt + l = SentTotal + l1 /\ ct + i = SendingCount + i1
  BY <1>3, <1>4 DEF SenderLedger, SenderChange
<1>7. /\ sp + SendMem + a = SendPool + sm + a1 /\ ip + b = InflightPool + b1
      /\ fl + i = inflight + i1 /\ en + sl + l1 = ended + SendLogs + l
  BY <1>3, <1>5 DEF SenderBalance
<1>8. /\ TlsPool' = TlsPool /\ QueuePool' = QueuePool /\ IngressPool' = IngressPool
      /\ ScratchPool' = ScratchPool /\ accepted' = accepted /\ late' = late
  BY DEF SenderBalance, SenderMoves, adding
<1>9. /\ Stored' = Stored /\ Queued' = Queued /\ IngressLogs' = IngressLogs
      /\ WorkersGone' = WorkersGone
  BY DEF SenderLedger
<1>10. /\ SendPool = SendMem + PushTotal + PoppedTotal /\ InflightPool = SendingTotal
       /\ inflight = SendingCount
  BY DEF Exact, Counted
<1>11. accepted + PendingTotal
          = ended + BatchTotal + Queued + (SendLogs + WorkTotal + UnpackedTotal + SentTotal)
  BY DEF Counted, Taken
<1>12. sp = sm + PushTotal + pt /\ ip = gt /\ fl = ct
  BY <1>2, <1>6, <1>7, <1>10
<1>13. accepted + PendingTotal = en + BatchTotal + Queued + (sl + WorkTotal + UnpackedTotal + lt)
  BY <1>2, <1>6, <1>7, <1>11
<1>14. Exact'
  BY <1>1, <1>4, <1>5, <1>8, <1>9, <1>12 DEF Exact, AdderStill, WorkerStill
<1>15. accepted' + PendingTotal' = ended' + BatchTotal' + Queued' + Taken'
  BY <1>1, <1>4, <1>5, <1>8, <1>9, <1>13 DEF AdderStill, WorkerStill, Taken
<1>16. Counted'
  BY <1>1, <1>4, <1>5, <1>8, <1>9, <1>12, <1>15 DEF Counted, AdderStill
<1> QED
  BY <1>14, <1>16

(* A sender takes nothing: it moves bytes and gives them back.               *)
LEMMA SenderBudget ==
    ASSUME WithinBudget, NEW s, SenderLedger(s),
           TlsPool' = TlsPool, QueuePool' = QueuePool, IngressPool' = IngressPool,
           ScratchPool' = ScratchPool, SendPool' + InflightPool' <= SendPool + InflightPool
    PROVE  WithinBudget'
<1>1. /\ QueuePool \in Nat /\ IngressPool \in Nat /\ TlsPool \in Nat /\ SendPool \in Nat
      /\ InflightPool \in Nat /\ ScratchPool \in Nat /\ SendReserved \in Nat /\ MaxBytes \in Nat
  BY Reserved, Constants DEF SenderLedger, Numbers, Amounts
<1>2. PICK sp \in Nat, ip \in Nat : sp = SendPool' /\ ip = InflightPool'
  BY DEF SenderLedger, Numbers, Amounts
<1>3. /\ IngressBytes = QueuePool + IngressPool + TlsPool
      /\ BufferedBytes = QueuePool + IngressPool + TlsPool + SendPool + InflightPool + ScratchPool
      /\ IngressBytes' = QueuePool + IngressPool + TlsPool
      /\ BufferedBytes' = QueuePool + IngressPool + TlsPool + sp + ip + ScratchPool
  BY <1>2 DEF IngressBytes, BufferedBytes, QueuePool, IngressPool, TlsPool, SendPool, InflightPool, ScratchPool
<1>4. IngressBytes <= MaxBytes - SendReserved /\ BufferedBytes - IngressBytes <= MaxBytes
  BY DEF WithinBudget
<1>5. /\ QueuePool + IngressPool + TlsPool <= MaxBytes - SendReserved
      /\ SendPool + InflightPool + ScratchPool <= MaxBytes
  BY <1>1, <1>3, <1>4
<1>6. sp + ip <= SendPool + InflightPool
  BY <1>2
<1>7. sp + ip + ScratchPool <= MaxBytes
  BY <1>1, <1>5, <1>6
<1>8. PICK ib \in Nat, bb \in Nat :
        /\ ib = QueuePool + IngressPool + TlsPool
        /\ bb = QueuePool + IngressPool + TlsPool + sp + ip + ScratchPool
  <2>1. /\ QueuePool + IngressPool + TlsPool \in Nat
        /\ QueuePool + IngressPool + TlsPool + sp + ip + ScratchPool \in Nat
    BY <1>1
  <2> QED BY <2>1
<1>9. ib <= MaxBytes - SendReserved /\ bb - ib <= MaxBytes
  BY <1>1, <1>5, <1>7, <1>8
<1>10. IngressBytes' = ib /\ BufferedBytes' = bb
  BY <1>3, <1>8
<1> QED
  BY <1>9, <1>10 DEF WithinBudget, SenderLedger

LEMMA SenderDone ==
    ASSUME Inv, TypeInv', NEW s \in Senders, SenderMoves(s), SenderBalance(s),
           SendPool' + InflightPool' <= SendPool + InflightPool
    PROVE  Inv'
<1>0. Exact /\ Counted /\ WithinBudget
  BY DEF Inv
<1>1. PlaceInv' /\ SenderLedger(s)
  BY SenderStep
<1>2. Exact' /\ Counted'
  BY <1>0, <1>1, SenderBooks
<1>3. WithinBudget'
  BY <1>0, <1>1, SenderBudget DEF SenderBalance
<1> QED
  BY <1>1, <1>2, <1>3 DEF Inv

(* The amounts before a step of sender s.                                    *)
LEMMA SenderAmounts ==
    ASSUME Inv, NEW s \in Senders
    PROVE  /\ TypeInv /\ PlaceInv /\ Amounts /\ SenderEach(s) /\ task[s] \in Task
           /\ At({"popped"}, s) <= SendPool /\ At({"sending"}, s) <= InflightPool
           /\ IsSending(s) <= inflight
<1>1. WorkerSums /\ SenderSums /\ Amounts
  BY WorkerSumsNat, SenderSumsNat, AmountsNat DEF Inv
<1>2. /\ SendPool = SendMem + PushTotal + PoppedTotal /\ InflightPool = SendingTotal
      /\ inflight = SendingCount
  BY DEF Inv, Exact, Counted
<1>3. PICK a \in Nat : a = At({"popped"}, s) /\ a <= PoppedTotal
  BY <1>1 DEF SenderSums, SenderEach
<1>4. SendMem \in Nat /\ PushTotal \in Nat /\ PoppedTotal \in Nat /\ SendPool \in Nat
  BY <1>1 DEF WorkerSums, WorkerNat, SenderSums, SenderNat, Amounts
<1>5. a <= SendPool
  BY <1>2, <1>3, <1>4
<1> QED
  BY <1>1, <1>2, <1>3, <1>5 DEF SenderSums, SenderEach, Inv, TypeInv

LEMMA SenderTypes ==
    ASSUME TypeInv, NEW s \in Senders, NEW p \in SenderPlaces, at' = [at EXCEPT ![s] = p],
           NEW x \in Task, task' = [task EXCEPT ![s] = x], sendq' \in Seq(Task),
           pool' \in [Pools -> Nat], inflight' \in Nat, ended' \in Nat, CondType',
           UNCHANGED <<gates, flush, queues, adding, hand>>
    PROVE  /\ TypeInv' /\ at'[s] = p /\ task'[s] = x /\ OnlySender(s) /\ NoWorker
<1>1. /\ at' \in [Workers \cup Senders -> WorkerPlaces \cup SenderPlaces]
      /\ \A u \in Senders : at'[u] \in SenderPlaces
      /\ \A w \in Workers : at'[w] \in WorkerPlaces /\ at'[w] = at[w]
      /\ at'[s] = p /\ \A u \in Senders : u # s => at'[u] = at[u]
  BY Constants DEF TypeInv
<1>2. /\ task' \in [Workers \cup Senders -> Task]
      /\ \A w \in Workers : task'[w] = task[w]
      /\ task'[s] = x /\ \A u \in Senders : u # s => task'[u] = task[u]
  BY Constants DEF TypeInv
<1>3. TypeInv'
  BY <1>1, <1>2 DEF TypeInv, CondType, gates, queues, adding
<1> QED
  BY <1>1, <1>2, <1>3 DEF OnlySender, NoWorker

LEMMA PopStep == ASSUME Inv, NEW s \in Senders, Pop(s) PROVE Inv'
<1>0. /\ TypeInv /\ PlaceInv /\ Amounts /\ SenderEach(s) /\ task[s] \in Task
      /\ at[s] = "pop" /\ task[s] = NoTask
      /\ UNCHANGED <<gates, flush, pool, queues, adding, cond, hand, inflight, ended>>
  BY SenderAmounts DEF PlaceInv, SenderOK, Pop
<1>1. /\ TlsPool' = TlsPool /\ QueuePool' = QueuePool /\ IngressPool' = IngressPool
      /\ ScratchPool' = ScratchPool /\ SendPool' = SendPool /\ InflightPool' = InflightPool
      /\ inflight' = inflight /\ ended' = ended
  BY <1>0 DEF QueuePool, IngressPool, SendPool, InflightPool, ScratchPool, TlsPool
<1>2. /\ pool' \in [Pools -> Nat] /\ inflight' \in Nat /\ ended' \in Nat /\ CondType'
      /\ UNCHANGED <<gates, flush, queues, adding, hand>>
  BY <1>0 DEF TypeInv, CondType
<1>3. /\ SendPool \in Nat /\ InflightPool \in Nat /\ SendMem \in Nat /\ inflight \in Nat
      /\ ended \in Nat /\ SendLogs \in Nat
  BY <1>0 DEF Amounts
<1>4. At({"popped"}, s) = 0 /\ At({"sending"}, s) = 0 /\ IsSending(s) = 0 /\ task[s].logs = 0
  BY <1>0 DEF At, IsSending, NoTask
<1>5. SendPool' + InflightPool' <= SendPool + InflightPool
  BY <1>1, <1>3
<1>6. CASE sendq # <<>>
  <2>1. PICK x : x = Head(sendq)
    OBVIOUS
  <2>2. x \in Task /\ Tail(sendq) \in Seq(Task)
    BY <1>0, <1>6, <2>1, HeadTailProperties DEF TypeInv
  <2>3. PICK m \in Nat, l \in Nat : m = x.mem /\ l = x.logs
    BY <2>2 DEF Task
  <2>4. PICK p : p = "popped"
    OBVIOUS
  <2>5. /\ at' = [at EXCEPT ![s] = p] /\ task' = [task EXCEPT ![s] = x]
        /\ sendq' = Tail(sendq) /\ p \in SenderPlaces
    BY <1>6, <2>1, <2>4 DEF Pop, SenderPlaces
  <2>6. TypeInv' /\ at'[s] = p /\ task'[s] = x /\ OnlySender(s) /\ NoWorker
    BY <1>0, <1>2, <2>2, <2>5, SenderTypes
  <2>7. SendLogs = l + SendLogs' /\ SendMem = m + SendMem'
    <3>1. \A y \in Task : y.logs \in Nat /\ y.mem \in Nat
      BY DEF Task
    <3>2. sendq \in Seq(Task)
      BY <1>0 DEF TypeInv
    <3>3. Logs(sendq) = Head(sendq).logs + Logs(Tail(sendq))
      BY <1>6, <3>1, <3>2, LogsQueue
    <3>4. Mem(sendq) = Head(sendq).mem + Mem(Tail(sendq))
      BY <1>6, <3>1, <3>2, MemQueue
    <3> QED BY <2>1, <2>3, <2>5, <3>3, <3>4 DEF SendLogs, SendMem
  <2>8. PICK sl \in Nat, sm \in Nat : sl = SendLogs' /\ sm = SendMem'
    <3>1. TypeInv' => Amounts'
      BY AmountsNat, PTL
    <3> QED BY <2>6, <3>1 DEF Amounts
  <2>9. SenderMoves(s)
    <3>1. SenderOK(s)'
      BY <2>4, <2>6 DEF SenderOK
    <3> QED BY <1>2, <1>6, <2>6, <3>1 DEF SenderMoves
  <2>10. At({"popped"}, s)' = m /\ At({"sending"}, s)' = 0 /\ IsSending(s)' = 0 /\ task'[s].logs = l
    BY <2>3, <2>4, <2>6 DEF At, IsSending
  <2>11. SenderBalance(s)
    <3>1. SendLogs = l + sl /\ SendMem = m + sm
      BY <2>7, <2>8
    <3>2. SendPool + SendMem + 0 = SendPool + sm + m
      BY <1>3, <3>1
    <3>3. ended + sl + l = ended + SendLogs + 0
      BY <1>3, <3>1
    <3> QED BY <1>1, <1>4, <2>8, <2>10, <3>2, <3>3 DEF SenderBalance
  <2> QED BY <1>5, <2>6, <2>9, <2>11, SenderDone
<1>7. CASE sendq = <<>>
  <2>1. PICK p, x : p = "gone" /\ x = NoTask
    OBVIOUS
  <2>2. p \in SenderPlaces /\ x \in Task
    BY <2>1 DEF SenderPlaces, Task, NoTask
  <2>3. /\ at' = [at EXCEPT ![s] = p] /\ task' = [task EXCEPT ![s] = x]
        /\ sendq' = sendq /\ sendStop /\ sendq' \in Seq(Task)
    BY <1>0, <1>7, <2>1 DEF Pop, TypeInv
  <2>4. TypeInv' /\ at'[s] = p /\ task'[s] = x /\ OnlySender(s) /\ NoWorker
    BY <1>0, <1>2, <2>2, <2>3, SenderTypes
  <2>5. SenderMoves(s)
    <3>1. SenderOK(s)'
      BY <1>2, <1>7, <2>1, <2>3, <2>4 DEF SenderOK, gates
    <3> QED BY <1>2, <2>3, <2>4, <3>1 DEF SenderMoves
  <2>6. At({"popped"}, s)' = 0 /\ At({"sending"}, s)' = 0 /\ IsSending(s)' = 0 /\ task'[s].logs = 0
    BY <2>1, <2>4 DEF At, IsSending, NoTask
  <2>7. SendLogs' = SendLogs /\ SendMem' = SendMem
    BY <2>3 DEF SendLogs, SendMem
  <2>8. SenderBalance(s)
    BY <1>1, <1>4, <2>6, <2>7 DEF SenderBalance
  <2> QED BY <1>5, <2>4, <2>5, <2>8, SenderDone
<1> QED
  BY <1>6, <1>7

LEMMA StartStep == ASSUME Inv, NEW s \in Senders, Start(s) PROVE Inv'
<1>0. /\ TypeInv /\ PlaceInv /\ Amounts /\ SenderEach(s) /\ task[s] \in Task
      /\ At({"popped"}, s) <= SendPool /\ at[s] = "popped"
      /\ UNCHANGED <<gates, flush, queues, sendq, adding, cond, hand, task, ended>>
      /\ pool' = Move("send", "inflight", task[s].mem) /\ inflight' = inflight + 1
  BY SenderAmounts DEF Start
<1>1. PICK m \in Nat, l \in Nat : m = task[s].mem /\ l = task[s].logs
  BY <1>0 DEF Task
<1>2. /\ At({"popped"}, s) = m /\ At({"sending"}, s) = 0 /\ IsSending(s) = 0
  BY <1>0, <1>1 DEF At, IsSending
<1>3. /\ SendPool \in Nat /\ InflightPool \in Nat /\ SendMem \in Nat /\ inflight \in Nat
  BY <1>0 DEF Amounts
<1>4. m <= SendPool
  BY <1>0, <1>2
<1>5. /\ SendPool' = SendPool - m /\ InflightPool' = InflightPool + m /\ TlsPool' = TlsPool
      /\ QueuePool' = QueuePool /\ IngressPool' = IngressPool /\ ScratchPool' = ScratchPool
      /\ pool' \in [Pools -> Nat]
  <2>1. Less(SendPool, m) = SendPool - m /\ SendPool - m \in Nat /\ InflightPool + m \in Nat
    BY <1>3, <1>4 DEF Less
  <2>2. pool' = [pool EXCEPT !["send"] = SendPool - m, !["inflight"] = InflightPool + m]
    BY <1>0, <1>1, <2>1 DEF Move, SendPool, InflightPool, TypeInv, Pools
  <2> QED BY <1>0, <2>1, <2>2
          DEF TypeInv, Pools, QueuePool, IngressPool, SendPool, InflightPool, ScratchPool, TlsPool
<1>6. PICK p, x : p = "sending" /\ x = task[s]
  OBVIOUS
<1>7. /\ p \in SenderPlaces /\ x \in Task /\ at' = [at EXCEPT ![s] = p]
      /\ task' = [task EXCEPT ![s] = x]
  BY <1>0, <1>6 DEF SenderPlaces, Start, TypeInv
<1>8. /\ UNCHANGED <<gates, flush, queues, adding, hand>> /\ CondType' /\ sendq' \in Seq(Task)
      /\ inflight' \in Nat /\ ended' \in Nat /\ sendq' = sendq /\ ended' = ended
  BY <1>0, <1>3 DEF TypeInv, CondType
<1>9. TypeInv' /\ at'[s] = p /\ task'[s] = x /\ OnlySender(s) /\ NoWorker
  BY <1>0, <1>5, <1>7, <1>8, SenderTypes
<1>10. SenderMoves(s)
  <2>1. SenderOK(s)'
    BY <1>6, <1>9 DEF SenderOK
  <2> QED BY <1>8, <1>9, <2>1 DEF SenderMoves
<1>11. At({"popped"}, s)' = 0 /\ At({"sending"}, s)' = m /\ IsSending(s)' = 1 /\ task'[s].logs = l
  BY <1>1, <1>6, <1>9 DEF At, IsSending
<1>12. SendLogs' = SendLogs /\ SendMem' = SendMem
  BY <1>8 DEF SendLogs, SendMem
<1>13. SenderBalance(s)
  <2>1. SendPool - m + SendMem + m = SendPool + SendMem + 0
    BY <1>3, <1>4
  <2>2. InflightPool + m + 0 = InflightPool + m
    BY <1>3
  <2>3. inflight + 1 + 0 = inflight + 1
    BY <1>3
  <2> QED BY <1>0, <1>1, <1>2, <1>5, <1>8, <1>11, <1>12, <2>1, <2>2, <2>3 DEF SenderBalance
<1>14. SendPool' + InflightPool' <= SendPool + InflightPool
  <2>1. SendPool - m + (InflightPool + m) <= SendPool + InflightPool
    BY <1>3
  <2> QED BY <1>5, <2>1
<1> QED
  BY <1>9, <1>10, <1>13, <1>14, SenderDone

LEMMA FinishStep == ASSUME Inv, NEW s \in Senders, Finish(s) PROVE Inv'
<1>0. /\ TypeInv /\ PlaceInv /\ Amounts /\ SenderEach(s) /\ task[s] \in Task
      /\ At({"sending"}, s) <= InflightPool /\ IsSending(s) <= inflight /\ at[s] = "sending"
      /\ UNCHANGED <<gates, flush, queues, sendq, adding, hand>> /\ CondMoves(s)
      /\ pool' = Release("inflight", task[s].mem) /\ inflight' = inflight - 1
      /\ ended' = ended + task[s].logs
  BY SenderAmounts DEF Finish, CondMoves
<1>1. PICK m \in Nat, l \in Nat : m = task[s].mem /\ l = task[s].logs
  BY <1>0 DEF Task
<1>2. /\ At({"popped"}, s) = 0 /\ At({"sending"}, s) = m /\ IsSending(s) = 1
  BY <1>0, <1>1 DEF At, IsSending
<1>3. /\ SendPool \in Nat /\ InflightPool \in Nat /\ SendMem \in Nat /\ inflight \in Nat
      /\ ended \in Nat /\ SendLogs \in Nat
  BY <1>0 DEF Amounts
<1>4. m <= InflightPool /\ 1 <= inflight
  BY <1>0, <1>2
<1>5. /\ InflightPool' = InflightPool - m /\ SendPool' = SendPool /\ TlsPool' = TlsPool
      /\ QueuePool' = QueuePool /\ IngressPool' = IngressPool /\ ScratchPool' = ScratchPool
      /\ pool' \in [Pools -> Nat]
  <2>1. Less(InflightPool, m) = InflightPool - m /\ InflightPool - m \in Nat
    BY <1>3, <1>4 DEF Less
  <2>2. pool' = [pool EXCEPT !["inflight"] = InflightPool - m]
    BY <1>0, <1>1, <2>1 DEF Release, InflightPool
  <2> QED BY <1>0, <2>1, <2>2
          DEF TypeInv, Pools, QueuePool, IngressPool, SendPool, InflightPool, ScratchPool, TlsPool
<1>6. PICK p, x : p = "pop" /\ x = NoTask
  OBVIOUS
<1>7. /\ p \in SenderPlaces /\ x \in Task /\ at' = [at EXCEPT ![s] = p]
      /\ task' = [task EXCEPT ![s] = x]
  BY <1>6 DEF SenderPlaces, Finish, Task, NoTask
<1>8. /\ UNCHANGED <<gates, flush, queues, adding, hand>> /\ sendq' \in Seq(Task)
      /\ inflight' \in Nat /\ ended' \in Nat /\ sendq' = sendq /\ ended' = ended + l
  BY <1>0, <1>1, <1>3, <1>4 DEF TypeInv
<1>9. TypeInv' /\ at'[s] = p /\ task'[s] = x /\ OnlySender(s) /\ NoWorker
  <2>1. CondType'
    BY <1>0, CondSteps DEF TypeInv, CondType
  <2> QED BY <1>0, <1>5, <1>7, <1>8, <2>1, SenderTypes
<1>10. SenderMoves(s)
  <2>1. SenderOK(s)'
    BY <1>6, <1>9 DEF SenderOK
  <2> QED BY <1>8, <1>9, <2>1 DEF SenderMoves
<1>11. At({"popped"}, s)' = 0 /\ At({"sending"}, s)' = 0 /\ IsSending(s)' = 0 /\ task'[s].logs = 0
  BY <1>6, <1>9 DEF At, IsSending, NoTask
<1>12. SendLogs' = SendLogs /\ SendMem' = SendMem
  BY <1>8 DEF SendLogs, SendMem
<1>13. SenderBalance(s)
  <2>1. InflightPool - m + m = InflightPool + 0
    BY <1>3, <1>4
  <2>2. inflight - 1 + 1 = inflight + 0
    BY <1>3
  <2>3. ended + l + SendLogs + 0 = ended + SendLogs + l
    BY <1>3
  <2> QED BY <1>0, <1>1, <1>2, <1>5, <1>8, <1>11, <1>12, <2>1, <2>2, <2>3 DEF SenderBalance
<1>14. SendPool' + InflightPool' <= SendPool + InflightPool
  <2>1. SendPool + (InflightPool - m) <= SendPool + InflightPool
    BY <1>1, <1>3
  <2> QED BY <1>5, <2>1
<1> QED
  BY <1>9, <1>10, <1>13, <1>14, SenderDone

-------------------------------------------------------------------------------
(* The end of the producer *)

LEMMA NoCloser == ASSUME Inv, phase # "open" PROVE closer = {}
  BY DEF Inv, TypeInv, PlaceInv, AdderOK

LEMMA StopTypes == ASSUME Inv, Stop PROVE CondType' /\ flush' \in BOOLEAN
  BY WakeType DEF Stop, Inv, TypeInv, CondType

LEMMA FinishCloseStep == ASSUME Inv, FinishClose PROVE Inv'
<1>1. closer = {} /\ phase' = "stopped"
  BY NoCloser DEF FinishClose, Stop
<1>2. /\ CondType' /\ flush' \in BOOLEAN /\ sendStop' = sendStop /\ sendStop' \in BOOLEAN
      /\ UNCHANGED <<pool, queues, sendq, call, force, closer, batch, accepted, late, running>>
  BY StopTypes DEF FinishClose, Stop, adding, Inv, TypeInv
<1> QED
  BY <1>1, <1>2, GatesMove

LEMMA StopSendingStep == ASSUME Inv, StopSending PROVE Inv'
<1>1. /\ phase = "stopped" /\ phase' = phase /\ ~sendStop /\ sendStop' = TRUE /\ CondType'
      /\ flush' \in BOOLEAN
      /\ UNCHANGED <<pool, queues, sendq, call, force, closer, batch, accepted, late, running>>
  BY DEF StopSending, Inv, TypeInv, CondType, adding
<1> QED
  BY <1>1, GatesMove

(* No thread is in a call, and the log of a batch is an accepted one.        *)
LEMMA IdleBatches ==
    ASSUME Inv, \A t \in Adders : call[t] = "idle", NEW t \in Adders
    PROVE  batch[t] \in Nat /\ batch[t] <= accepted /\ batch[t] <= TlsPool /\ Amounts /\ AdderEach(t)
<1>1. AdderSums /\ Amounts /\ AdderMaps
  BY AdderSumsNat, AmountsNat, AdderMapsNat DEF Inv
<1>2. PendingTotal = 0
  <2>1. PICK F : F = [u \in Adders |-> Pending(u)]
    OBVIOUS
  <2>2. F \in [Adders -> Nat] /\ \A u \in Adders : F[u] = 0
    BY <1>1, <2>1 DEF AdderMaps, Pending
  <2>3. Sum(F) = 0
    BY <2>2, SumZero
  <2> QED BY <2>1, <2>3 DEF PendingTotal
<1>3. BatchTotal \in Nat /\ accepted \in Nat /\ late \in Nat /\ TlsPool \in Nat
  BY <1>1 DEF AdderSums, AdderNat, Amounts
<1>4. PICK b \in Nat, x \in Nat : b = batch[t] /\ b <= BatchTotal /\ x = TlsBytes(t)
  BY <1>1 DEF AdderSums, AdderEach
<1>5. late + BatchTotal <= accepted + 0
  BY <1>2 DEF Inv, Counted
<1>6. b <= accepted
  BY <1>3, <1>4, <1>5
<1>7. x = b /\ x <= TlsPool
  BY <1>1, <1>4 DEF TlsBytes, Inv, Exact, AdderSums, AdderEach
<1> QED
  BY <1>1, <1>4, <1>6, <1>7 DEF AdderSums

LEMMA DestroyStep == ASSUME Inv, Destroy PROVE Inv'
<1>0. TypeInv /\ closer = {}
  BY DEF Inv, TypeInv, PlaceInv, AdderOK, Destroy
<1>1. PICK t \in Adders :
        /\ pool' = Release("tls", batch[t]) /\ batch' = [batch EXCEPT ![t] = 0]
        /\ accepted' = accepted - batch[t]
  BY DEF Destroy
<1>2. /\ call[t] = "idle" /\ phase' = "stopped"
      /\ UNCHANGED <<policy, sendStop, flush, queues, sendq, running, call, force, closer, calls, late>>
  BY DEF Destroy, Stop
<1>3. /\ batch[t] \in Nat /\ batch[t] <= accepted /\ batch[t] <= TlsPool
      /\ Amounts /\ AdderEach(t)
  BY IdleBatches DEF Destroy
<1>4. PICK b \in Nat : b = batch[t]
  BY <1>3
<1>5. /\ TlsPool \in Nat /\ accepted \in Nat /\ late \in Nat /\ Queued \in Nat
      /\ QueuePool \in Nat /\ IngressPool \in Nat
  BY <1>3 DEF Amounts
<1>6. b <= accepted /\ b <= TlsPool
  BY <1>3, <1>4
<1>7. /\ TlsPool' = TlsPool - b /\ QueuePool' = QueuePool /\ IngressPool' = IngressPool
      /\ SendPool' = SendPool /\ InflightPool' = InflightPool /\ ScratchPool' = ScratchPool
      /\ pool' \in [Pools -> Nat] /\ batch'[t] = 0 /\ accepted' = accepted - b /\ accepted' \in Nat
  <2>1. Less(TlsPool, b) = TlsPool - b /\ TlsPool - b \in Nat /\ accepted - b \in Nat
    BY <1>5, <1>6 DEF Less
  <2>2. pool' = [pool EXCEPT !["tls"] = TlsPool - b]
    BY <1>1, <1>4, <2>1 DEF Release, TlsPool
  <2> QED BY <1>0, <1>1, <1>4, <2>1, <2>2
          DEF TypeInv, Pools, QueuePool, IngressPool, SendPool, InflightPool, ScratchPool, TlsPool
<1>8. TypeInv'
  <2>1. CondType'
    BY StopTypes DEF Destroy
  <2>2. batch' \in [Adders -> Nat]
    BY <1>0, <1>1 DEF TypeInv
  <2> QED BY <1>0, <1>2, <1>7, <2>1, <2>2 DEF TypeInv, CondType, queues, running
<1>9. AdderMoves(t)
  BY <1>0, <1>1, <1>2 DEF AdderMoves, OnlyAdder, AdderOK, TypeInv
<1>10. /\ TlsBytes(t) = b /\ TlsBytes(t)' = 0 /\ Copying(t) = 0 /\ Copying(t)' = 0
       /\ Pending(t) = 0 /\ Pending(t)' = 0
  BY <1>2, <1>4, <1>7 DEF TlsBytes, Copying, Pending
<1>11. /\ Stored' = Stored /\ Queued' = Queued /\ IngressLogs' = IngressLogs
       /\ inflight' = inflight /\ ended' = ended /\ late' = late
  BY <1>2 DEF queues, running, Stored, Queued, IngressLogs, Built, RawTotal
<1>12. AdderBalance(t)
  <2>1. TlsPool - b + b = TlsPool + 0
    BY <1>5, <1>6
  <2>2. accepted - b + 0 + b + Queued = accepted + 0 + 0 + Queued
    BY <1>5, <1>6
  <2>3. late + 0 + accepted + 0 <= late + b + (accepted - b) + 0
    BY <1>5, <1>6
  <2>4. late <= late /\ Queued <= Queued
    BY <1>5
  <2>5. Queued + late <= Queued + late
    BY <1>5
  <2> QED BY <1>4, <1>7, <1>10, <1>11, <2>1, <2>2, <2>3, <2>5 DEF AdderBalance
<1>13. QueuePool' + IngressPool' + TlsPool' <= QueuePool + IngressPool + TlsPool
  <2>1. QueuePool + IngressPool + (TlsPool - b) <= QueuePool + IngressPool + TlsPool
    BY <1>4, <1>5
  <2> QED BY <1>7, <2>1
<1> QED
  BY <1>8, <1>9, <1>12, <1>13, AdderDoneNoMore

-------------------------------------------------------------------------------
(* The invariant holds *)

LEMMA AddingStep == ASSUME Inv, NEW t \in Adders, Adding(t) PROVE Inv'
<1>1. CASE Closed(t)
  BY <1>1, ClosedStep
<1>2. CASE Rejected(t)
  BY <1>2, RejectedStep
<1>3. CASE AdderBlocks(t)
  BY <1>3, AdderBlocksStep
<1>4. CASE AddKeyed(t)
  BY <1>4, AddKeyedStep
<1>5. CASE Reserve(t)
  BY <1>5, ReserveStep
<1>6. CASE Enqueue(t)
  BY <1>6, EnqueueStep
<1>7. CASE Appends(t)
  BY <1>7, AppendsStep
<1>8. CASE MergeBatch(t)
  BY <1>8, MergeBatchStep
<1>9. CASE FlushBatch(t)
  BY <1>9, FlushBatchStep
<1>10. CASE IngressFull(t)
  BY <1>10, IngressFullStep
<1>11. CASE WaitEnds(t)
  BY <1>11, WaitEndsStep
<1> QED
  BY <1>1, <1>2, <1>3, <1>4, <1>5, <1>6, <1>7, <1>8, <1>9, <1>10, <1>11 DEF Adding

LEMMA WorkingStep == ASSUME Inv, NEW w \in Workers, Working(w) PROVE Inv'
<1>1. CASE Look(w)
  BY <1>1, LookStep
<1>2. CASE LingerOver(w)
  BY <1>2, LingerOverStep
<1>3. CASE Collect(w)
  BY <1>3, CollectStep
<1>4. CASE RawPop(w)
  BY <1>4, RawPopStep
<1>5. CASE RawDone(w)
  BY <1>5, RawDoneStep
<1>6. CASE TakeSealed(w)
  BY <1>6, TakeSealedStep
<1>7. CASE Compress(w)
  BY <1>7, CompressStep
<1>8. CASE Reject(w)
  BY <1>8, RejectStep
<1>9. CASE Swap(w)
  BY <1>9, SwapStep
<1>10. CASE Refused(w)
  BY <1>10, RefusedStep
<1>11. CASE WorkerBlocks(w)
  BY <1>11, WorkerBlocksStep
<1>12. CASE WaitEnds(w)
  BY <1>12, WaitEndsStep
<1>13. CASE Push(w)
  BY <1>13, PushStep
<1>14. CASE PushFails(w)
  BY <1>14, PushFailsStep
<1>15. CASE Settle(w)
  BY <1>15, SettleStep
<1> QED
  BY <1>1, <1>2, <1>3, <1>4, <1>5, <1>6, <1>7, <1>8, <1>9, <1>10, <1>11, <1>12, <1>13,
     <1>14, <1>15 DEF Working

LEMMA NextInv == ASSUME Inv, Next PROVE Inv'
<1>1. ASSUME NEW t \in Adders, Add(t) \/ Flush(t) \/ StartClose(t) PROVE Inv'
  BY <1>1, AddStep, FlushStep, StartCloseStep
<1>2. ASSUME NEW t \in Adders, Adding(t) PROVE Inv'
  BY <1>2, AddingStep
<1>3. ASSUME NEW w \in Workers, Working(w) PROVE Inv'
  BY <1>3, WorkingStep
<1>4. ASSUME NEW s \in Senders, Sending(s) PROVE Inv'
  BY <1>4, PopStep, StartStep, FinishStep DEF Sending
<1>5. CASE Ending
  BY <1>5, FinishCloseStep, StopSendingStep DEF Ending
<1>6. CASE Destroy
  BY <1>6, DestroyStep
<1> QED
  BY <1>1, <1>2, <1>3, <1>4, <1>5, <1>6 DEF Next

LEMMA InvStutters == ASSUME Inv, UNCHANGED vars PROVE Inv'
<1>1. CondType'
  BY DEF Inv, TypeInv, CondType, vars
<1> QED
  BY <1>1, NothingMoves DEF vars, gates, adding, Inv, TypeInv

(* The invariant of every state: types and places, the counters as sums of   *)
(* what the threads and queues hold, the ledger of logs, and the bounds.     *)
THEOREM Invariance == Spec => []Inv
<1>1. Inv /\ [Next]_vars => Inv'
  BY NextInv, InvStutters
<1> QED
  BY <1>1, InitInv, PTL DEF Spec

-------------------------------------------------------------------------------
(* What follows from it *)

LEMMA SendersCounted == ASSUME TypeInv PROVE SendingCount <= Cardinality(Senders)
<1>1. PICK F, ones : F = [s \in Senders |-> IsSending(s)] /\ ones = [s \in Senders |-> 1]
  OBVIOUS
<1>2. /\ F \in [Senders -> Nat] /\ ones \in [Senders -> Nat]
      /\ \A s \in Senders : F[s] <= ones[s]
  BY <1>1 DEF IsSending
<1>3. Sum(F) <= Sum(ones)
  BY <1>2, Finite, SumPointwise
<1>4. Sum(ones) = Cardinality(Senders)
  <2>1. Units(ones) = Senders \X {1}
    BY <1>1 DEF Units
  <2>2. IsFiniteSet({1}) /\ Cardinality({1}) = 1
    BY FS_Singleton
  <2>3. Cardinality(Senders \X {1}) = Cardinality(Senders) * 1 /\ Cardinality(Senders) \in Nat
    BY <2>2, Finite, FS_Product, FS_CardinalityType
  <2> QED BY <2>1, <2>3 DEF Sum
<1> QED
  BY <1>1, <1>3, <1>4 DEF SendingCount

LEMMA PendingBatched == ASSUME TypeInv, PlaceInv PROVE PendingTotal <= BatchTotal
<1>1. AdderMaps
  BY AdderMapsNat
<1>2. PICK F, G : F = [t \in Adders |-> Pending(t)] /\ G = [t \in Adders |-> batch[t]]
  OBVIOUS
<1>3. \A t \in Adders : F[t] <= G[t]
  <2>1. \A t \in Adders : F[t] = Pending(t) /\ G[t] = batch[t] /\ batch[t] \in Nat /\ AdderOK(t)
    BY <1>2 DEF TypeInv, PlaceInv
  <2> QED BY <2>1 DEF Pending, AdderOK
<1>4. Sum(F) <= Sum(G)
  BY <1>1, <1>2, <1>3, Finite, SumPointwise DEF AdderMaps
<1> QED
  BY <1>2, <1>4 DEF PendingTotal, BatchTotal

LEMMA InvTypeOK == Inv => TypeOK
<1> SUFFICES ASSUME Inv PROVE TypeOK
  OBVIOUS
<1>1. TypeInv /\ PlaceInv /\ Counted
  BY DEF Inv
<1>2. inflight \in 0 .. Cardinality(Senders)
  <2>1. inflight \in Nat /\ Cardinality(Senders) \in Nat
    BY <1>1, Finite, FS_CardinalityType DEF TypeInv
  <2>2. inflight <= Cardinality(Senders)
    BY <1>1, SendersCounted DEF Counted
  <2> QED BY <2>1, <2>2
<1>3. late \in 0 .. accepted
  <2>1. late \in Nat /\ accepted \in Nat /\ BatchTotal \in Nat /\ PendingTotal \in Nat
    BY <1>1, AdderSumsNat DEF TypeInv, AdderSums, AdderNat
  <2>2. late + BatchTotal <= accepted + PendingTotal /\ PendingTotal <= BatchTotal
    BY <1>1, PendingBatched DEF Counted
  <2>3. late <= accepted
    BY <2>1, <2>2
  <2> QED BY <2>1, <2>3
<1> QED
  BY <1>1, <1>2, <1>3 DEF TypeInv, TypeOK

LEMMA InvPoolsExact == Inv => PoolsExact
  BY DEF Inv, Exact, PoolsExact, Stored, Built, RawTotal, IngressLogs, SendMem, QueuePool,
         IngressPool, SendPool, InflightPool, ScratchPool, TlsPool, TlsTotal, CopyTotal,
         HandTotal, HeldTotal, PushTotal, PoppedTotal, SendingTotal

LEMMA InvResultsComplete == Inv => ResultsComplete
<1> SUFFICES ASSUME Inv, Gone, \A t \in Adders : call[t] = "idle"
             PROVE  accepted = ended + Batched + Left /\ sendq = <<>> /\ Left <= late
  BY DEF ResultsComplete
<1>1. TypeInv /\ PlaceInv /\ Counted
  BY DEF Inv
<1>2. sendq = <<>>
  BY <1>1, Constants DEF PlaceInv, SenderOK, Gone
<1>3. \A t \in Workers \cup Senders : task[t] = NoTask
  BY <1>1 DEF PlaceInv, SenderOK, WorkerOK, Gone
<1>4. \A w \in Workers : hand[w] = <<>>
  BY <1>1 DEF PlaceInv, WorkerOK, Gone
<1>5. AdderMaps /\ WorkerMaps /\ SenderMaps
  BY <1>1, AdderMapsNat, WorkerMapsNat, SenderMapsNat
<1>6. PendingTotal = 0
  <2>1. PICK F : F = [t \in Adders |-> Pending(t)]
    OBVIOUS
  <2>2. F \in [Adders -> Nat] /\ \A t \in Adders : F[t] = 0
    BY <1>5, <2>1 DEF AdderMaps, Pending
  <2> QED BY <2>1, <2>2, SumZero DEF PendingTotal
<1>7. WorkTotal = 0
  <2>1. PICK F : F = [w \in Workers |-> task[w].logs]
    OBVIOUS
  <2>2. F \in [Workers -> Nat] /\ \A w \in Workers : F[w] = 0
    BY <1>3, <1>5, <2>1 DEF WorkerMaps, NoTask
  <2> QED BY <2>1, <2>2, SumZero DEF WorkTotal
<1>8. UnpackedTotal = 0
  <2>1. PICK F : F = [w \in Workers |-> Unpacked(w)]
    OBVIOUS
  <2>2. F \in [Workers -> Nat] /\ \A w \in Workers : F[w] = 0
    <3>1. \A w \in Workers : Unpacked(w) = 0
      BY <1>3, <1>4, SumEmpty DEF Unpacked, NoTask, Gone
    <3> QED BY <1>5, <2>1, <3>1 DEF WorkerMaps
  <2> QED BY <2>1, <2>2, SumZero DEF UnpackedTotal
<1>9. SentTotal = 0
  <2>1. PICK F : F = [s \in Senders |-> task[s].logs]
    OBVIOUS
  <2>2. F \in [Senders -> Nat] /\ \A s \in Senders : F[s] = 0
    BY <1>3, <1>5, <2>1 DEF SenderMaps, NoTask
  <2> QED BY <2>1, <2>2, SumZero DEF SentTotal
<1>10. SendLogs = 0
  BY <1>2, LogsEmpty DEF SendLogs
<1>11. BatchTotal \in Nat /\ accepted \in Nat /\ ended \in Nat /\ Queued \in Nat
  BY <1>1, AdderSumsNat, AmountsNat DEF AdderSums, AdderNat, Amounts
<1>12. accepted = ended + BatchTotal + Queued
  BY <1>1, <1>6, <1>7, <1>8, <1>9, <1>10, <1>11 DEF Counted, Taken
<1>13. Queued <= late
  BY <1>1 DEF Counted, WorkersGone, Gone
<1>14. Batched = BatchTotal
  <2>1. batch = [t \in Adders |-> batch[t]]
    BY <1>1 DEF TypeInv
  <2> QED BY <2>1 DEF Batched, BatchTotal
<1>15. Left = Queued
  <2>1. PICK d \in Nat, k \in Nat, z \in Nat, r \in Nat, i \in Nat :
          d = builder["default"] /\ k = builder["keyed"] /\ z = Sum(sealed) /\ r = raw /\ i = Logs(ingress)
    BY <1>1, AmountsNat, SumSeq DEF TypeInv, Amounts, IngressLogs
  <2>2. Left = d + k + r + z + i /\ Queued = d + k + z + r + i
    BY <2>1 DEF Left, Queued, Built, IngressLogs
  <2> QED BY <2>1, <2>2
<1> QED
  BY <1>2, <1>12, <1>13, <1>14, <1>15

(* The counters and flags have their types, fast_inflight never exceeds the  *)
(* number of senders, and only accepted logs count as handed in late.        *)
THEOREM TypeCorrect == Spec => []TypeOK
  BY Invariance, InvTypeOK, PTL

(* Each of the six byte counters is at every moment the sum of what the      *)
(* batches, builders, queues and tasks hold under it: no failing path of an   *)
(* add, a merge, a compression, a push or a wait releases twice or never.    *)
THEOREM PoolsExactAlways == Spec => []PoolsExact
  BY Invariance, InvPoolsExact, PTL

(* What adds hold stays below the buffer less the share of the senders, what *)
(* workers and senders hold below the buffer.                                *)
THEOREM WithinBudgetAlways == Spec => []WithinBudget
<1>1. Inv => WithinBudget
  BY DEF Inv
<1> QED
  BY <1>1, Invariance, PTL

(* After the end every accepted log got its final callback, except those in  *)
(* batches nobody flushed and those a late hand-in left behind.              *)
THEOREM ResultsCompleteAlways == Spec => []ResultsComplete
  BY Invariance, InvResultsComplete, PTL
===============================================================================
