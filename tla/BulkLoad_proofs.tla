-------------------------- MODULE BulkLoad_proofs --------------------------
(***************************************************************************)
(* Proofs about BulkLoad, for any files, archives, heaps, orders, batches  *)
(* of requests and capacity of the queue: its types; no call comes in a    *)
(* state that does not allow it and no work item finds the deque empty;    *)
(* and what is drawn is intact.                                            *)
(*                                                                         *)
(* The last needs to know where everything is.  What the heaps hand out    *)
(* lies beyond all that they handed out before, so the places of the files *)
(* that are active are apart.  A file that failed is not active, and its   *)
(* places may be handed out again while its own reads are under way.  But  *)
(* events are set in the order of the GPU queue: a file has its event only *)
(* when all that was enqueued before its own batch is read, and what was   *)
(* enqueued after it is of files that were given their places after it.    *)
(***************************************************************************)
EXTENDS BulkLoad, GroupSearch_proofs, SequenceTheorems

------------------------------------------------------------------------------
\* Heaps.

Heap == {e \in [size : Nat, next : Nat] : e.next <= e.size}

\* An offset is moved up, never down.
LEMMA AlignUpIs ==
  ASSUME NEW n \in Nat
  PROVE  AlignUp(n) \in Nat /\ n <= AlignUp(n)
<1> DEFINE m == n + Alignment - 1
<1>1. Alignment \in Nat \ {0} /\ m \in Nat
  BY AlignmentAssumption
<1> HIDE DEF m
<1>2. m \div Alignment \in Nat /\ m < (m \div Alignment) * Alignment + Alignment
  BY <1>1, Quotient
<1>3. (m \div Alignment) * Alignment \in Nat
  BY <1>1, <1>2, Multiples
<1>4. AlignUp(n) = (m \div Alignment) * Alignment /\ m = n + Alignment - 1
  BY DEF AlignUp, m
<1> QED BY <1>1, <1>2, <1>3, <1>4

\* The first of the heaps that have room is one of them.
LEMMA MinIs ==
  ASSUME NEW T \in SUBSET Nat, T # {}
  PROVE  Min(T) \in T
<1>1. \E n \in T : \A m \in T : n <= m
  BY Least
<1> QED BY <1>1 DEF Min

\* The last of some of the numbers 1 to n is one of them.
LEMMA MaxIs ==
  ASSUME NEW n \in Nat, NEW T \in SUBSET (1 .. n), T # {}
  PROVE  Max(T) \in T
<1> DEFINE Above == {m \in Nat : \A y \in T : y <= m}
<1>1. PICK m \in Above : \A k \in Above : m <= k
  <2>1. n \in Above /\ Above \in SUBSET Nat
    OBVIOUS
  <2> QED BY <2>1, Least
<1>2. m \in T
  <2>1. SUFFICES ASSUME m \notin T PROVE FALSE
    OBVIOUS
  <2>2. m \in Nat /\ \A y \in T : y \in Nat /\ y >= 1 /\ y <= m
    OBVIOUS
  <2>3. \A y \in T : y <= m - 1
    <3>1. \A y \in T : y # m
      BY <2>1
    <3> QED BY <2>2, <3>1
  <2>4. m - 1 \in Nat
    <3>1. PICK y \in T : TRUE
      OBVIOUS
    <3> QED BY <2>2, <3>1
  <2>5. m - 1 \in Above
    BY <2>3, <2>4
  <2> QED BY <1>1, <2>2, <2>5
<1>3. \E x \in T : \A y \in T : x >= y
  BY <1>2
<1> QED BY <1>3 DEF Max

\* What FoldLeft takes last, and what it folds before.
LEMMA UptoWithoutLast ==
  ASSUME NEW n \in Nat \ {0}
  PROVE  Max(1 .. n) = n /\ (1 .. n) \ {n} = 1 .. n - 1
<1>1. \E x \in 1 .. n : \A y \in 1 .. n : x >= y
  OBVIOUS
<1>2. Max(1 .. n) \in 1 .. n /\ \A y \in 1 .. n : Max(1 .. n) >= y
  BY <1>1 DEF Max
<1> QED BY <1>2

\* The numbers that are folded by then.
LEMMA UptoIn ==
  ASSUME NEW n \in Nat, NEW m \in 1 .. n
  PROVE  /\ m \in Nat \ {0} /\ 1 .. m \in SUBSET (1 .. n) /\ 1 .. m # {}
         /\ m - 1 \in 0 .. n /\ m \in 0 .. n
<1>1. m \in Nat \ {0} /\ m - 1 \in 0 .. n /\ m \in 0 .. n
  OBVIOUS
<1>2. 1 .. m \in SUBSET (1 .. n)
  OBVIOUS
<1>3. m \in 1 .. m
  OBVIOUS
<1> QED BY <1>1, <1>2, <1>3

------------------------------------------------------------------------------
\* Allocations, one after the other.

AllocateStep(base, sizes, f, s) ==
  IF s = {} THEN base ELSE TryAllocate(f[s \ {Max(s)}], sizes[Max(s)])

IsFold(base, sizes, f) ==
  f = [s \in SUBSET DOMAIN sizes |-> AllocateStep(base, sizes, f, s)]

\* The fold exists: a step on the sets of more and more numbers.
LEMMA FoldExists ==
  ASSUME NEW sizes \in Seq(Nat), NEW base
  PROVE  \E f : IsFold(base, sizes, f)
<1> DEFINE S == 1 .. Len(sizes)
           Partial(n, f) == f = [s \in Small(S, n) |-> AllocateStep(base, sizes, f, s)]
           Bad == {n \in Nat : ~ \E f : Partial(n, f)}
<1>0. DOMAIN sizes = S /\ Len(sizes) \in Nat /\ IsFiniteSet(S)
  BY LenProperties, FS_Interval
<1> HIDE DEF S
<1>1. Bad = {}
  <2>1. SUFFICES ASSUME Bad # {} PROVE FALSE
    OBVIOUS
  <2>2. PICK n \in Bad : \A m \in Bad : n <= m
    <3>1. Bad \in SUBSET Nat
      OBVIOUS
    <3> QED BY <2>1, <3>1, Least
  <2>3. n \in Nat /\ ~ \E f : Partial(n, f)
    OBVIOUS
  <2>4. CASE n = 0
    <3> DEFINE f == [s \in Small(S, 0) |-> base]
    <3>1. ASSUME NEW s \in Small(S, 0) PROVE s = {}
      <4>1. IsFiniteSet(s) /\ Cardinality(s) <= 0
        BY <1>0, FS_Subset DEF Small
      <4> QED BY <4>1, FS_CardinalityType, FS_EmptySet
    <3>2. \A s \in Small(S, 0) : AllocateStep(base, sizes, f, s) = base
      BY <3>1 DEF AllocateStep
    <3> QED BY <2>3, <2>4, <3>2
  <2>5. CASE n > 0
    <3>1. PICK g : Partial(n - 1, g)
      <4>1. n - 1 \in Nat /\ n - 1 \notin Bad
        BY <2>2, <2>3, <2>5
      <4> QED BY <4>1
    <3> DEFINE f == [s \in Small(S, n) |-> AllocateStep(base, sizes, g, s)]
    <3>2. ASSUME NEW s \in Small(S, n)
          PROVE  AllocateStep(base, sizes, f, s) = AllocateStep(base, sizes, g, s)
      <4>1. CASE s = {}
        BY <4>1 DEF AllocateStep
      <4>2. CASE s # {}
        <5> DEFINE x == Max(s)
                   r == s \ {x}
        <5>1. x \in s
          BY <1>0, <4>2, MaxIs DEF Small, S
        <5>2. IsFiniteSet(s) /\ s \in SUBSET S /\ Cardinality(s) <= n
          BY <1>0, FS_Subset DEF Small
        <5>3. Cardinality(r) = Cardinality(s) - 1 /\ Cardinality(s) \in Nat \ {0}
          BY <5>1, <5>2, OneLess
        <5>4. r \in Small(S, n - 1) /\ r \in Small(S, n)
          BY <2>3, <5>2, <5>3 DEF Small
        <5>5. g[r] = AllocateStep(base, sizes, g, r)
          BY <3>1, <5>4
        <5>6. f[r] = g[r]
          BY <5>4, <5>5
        <5> QED BY <4>2, <5>6 DEF AllocateStep
      <4> QED BY <4>1, <4>2
    <3>3. Partial(n, f)
      BY <3>2
    <3> QED BY <2>3, <3>3
  <2> QED BY <2>3, <2>4, <2>5
<1>2. Cardinality(S) \in Nat /\ Small(S, Cardinality(S)) = SUBSET S
  BY <1>0, FS_CardinalityType, FS_Subset DEF Small
<1>3. PICK f : Partial(Cardinality(S), f)
  BY <1>1, <1>2
<1>4. f = [s \in SUBSET S |-> AllocateStep(base, sizes, f, s)]
  BY <1>2, <1>3
<1> QED BY <1>0, <1>4 DEF IsFold

Base(h) == [heaps |-> h, at |-> <<>>, ok |-> TRUE]

\* What is done after each allocation.
LEMMA AllocateUnfolds ==
  ASSUME NEW h, NEW sizes \in Seq(Nat)
  PROVE  \E d : /\ d[0] = Base(h) /\ Allocate(h, sizes) = d[Len(sizes)]
               /\ \A m \in 1 .. Len(sizes) : d[m] = TryAllocate(d[m - 1], sizes[m])
<1> DEFINE F(f) == f = [s \in SUBSET DOMAIN sizes |->
                          IF s = {} THEN Base(h)
                          ELSE LET x == Max(s) IN TryAllocate(f[s \ {x}], sizes[x])]
           g == CHOOSE f : F(f)
           n == Len(sizes)
           d == [m \in 0 .. n |-> g[1 .. m]]
<1>1. \A f : F(f) <=> IsFold(Base(h), sizes, f)
  BY DEF IsFold, AllocateStep
<1>2. Allocate(h, sizes) = g[DOMAIN sizes]
  BY DEF Allocate, FoldLeft, MapThenFoldSet, Base
<1> HIDE DEF F
<1>3. IsFold(Base(h), sizes, g)
  <2>1. \E f : F(f)
    BY <1>1, FoldExists
  <2>2. F(g)
    BY <2>1, Zenon
  <2> QED BY <1>1, <2>2
<1> HIDE DEF g
<1>4. DOMAIN sizes = 1 .. n /\ n \in Nat
  BY LenProperties
<1>5. \A s \in SUBSET (1 .. n) : g[s] = AllocateStep(Base(h), sizes, g, s)
  BY <1>3, <1>4 DEF IsFold
<1>6. d[0] = Base(h)
  <2>1. 1 .. 0 = {} /\ {} \in SUBSET (1 .. n)
    OBVIOUS
  <2>2. g[{}] = Base(h)
    BY <1>5, <2>1 DEF AllocateStep
  <2> QED BY <1>4, <2>1, <2>2
<1>7. ASSUME NEW m \in 1 .. n PROVE d[m] = TryAllocate(d[m - 1], sizes[m])
  <2>1. /\ m \in Nat \ {0} /\ 1 .. m \in SUBSET (1 .. n) /\ 1 .. m # {}
        /\ m - 1 \in 0 .. n /\ m \in 0 .. n
    BY <1>4, UptoIn
  <2>2. Max(1 .. m) = m /\ (1 .. m) \ {m} = 1 .. m - 1
    BY <2>1, UptoWithoutLast
  <2>3. g[1 .. m] = TryAllocate(g[1 .. m - 1], sizes[m])
    BY <1>5, <2>1, <2>2 DEF AllocateStep
  <2> QED BY <2>1, <2>3
<1>8. Allocate(h, sizes) = d[n]
  BY <1>2, <1>4
<1> QED BY <1>6, <1>7, <1>8

\* The heaps g hold no less than the heaps h.
Grown(h, g) ==
  /\ DOMAIN g = DOMAIN h
  /\ \A i \in DOMAIN h : g[i].size = h[i].size /\ h[i].next <= g[i].next

\* What p took lies beyond what h held, and within what g holds.
TakenFrom(p, h, g) ==
  /\ p.heap \in DOMAIN h /\ p.offs \in Nat /\ p.size \in Nat
  /\ h[p.heap].next <= p.offs /\ p.offs + p.size <= g[p.heap].next

Place == [heap : Nat, offs : Nat, size : Nat]

\* One allocation lies in front of another.
InFront(p, q) == p.heap = q.heap => p.offs + p.size <= q.offs

Allocated(h, d, m) ==
  /\ d.ok \in BOOLEAN /\ d.heaps \in Seq(Heap) /\ d.at \in Seq(Place)
  /\ Grown(h, d.heaps)
  /\ \A j \in DOMAIN d.at : TakenFrom(d.at[j], h, d.heaps)
  /\ \A j, l \in DOMAIN d.at : j < l => InFront(d.at[j], d.at[l])
  /\ d.ok => Len(d.at) = m

\* A heap holds no more than its size.
LEMMA HeapsAre ==
  ASSUME NEW h \in Seq(Heap)
  PROVE  /\ Len(h) \in Nat /\ DOMAIN h = 1 .. Len(h)
         /\ \A i \in DOMAIN h : /\ h[i] \in Heap /\ h[i].size \in Nat /\ h[i].next \in Nat
                               /\ h[i].next <= h[i].size
<1>1. Len(h) \in Nat /\ DOMAIN h = 1 .. Len(h)
  BY LenProperties
<1>2. \A i \in DOMAIN h : h[i] \in Heap
  BY <1>1, ElementOfSeq
<1> QED BY <1>1, <1>2 DEF Heap

\* What was taken in one of two steps is taken in both together.
LEMMA GrownOn ==
  ASSUME NEW h \in Seq(Heap), NEW g \in Seq(Heap), NEW u \in Seq(Heap),
         Grown(h, g), Grown(g, u)
  PROVE  /\ Grown(h, u)
         /\ \A p : TakenFrom(p, h, g) => TakenFrom(p, h, u)
         /\ \A p : TakenFrom(p, g, u) => TakenFrom(p, h, u)
<1>1. DOMAIN g = DOMAIN h /\ DOMAIN u = DOMAIN h
  BY DEF Grown
<1>2. \A i \in DOMAIN h : /\ h[i].next \in Nat /\ g[i].next \in Nat /\ u[i].next \in Nat
                        /\ h[i].next <= g[i].next /\ g[i].next <= u[i].next
                        /\ g[i].size = h[i].size /\ u[i].size = h[i].size
  BY <1>1, HeapsAre DEF Grown
<1>3. Grown(h, u)
  BY <1>1, <1>2 DEF Grown
<1>4. ASSUME NEW p, TakenFrom(p, h, g) PROVE TakenFrom(p, h, u)
  BY <1>2, <1>4 DEF TakenFrom
<1>5. ASSUME NEW p, TakenFrom(p, g, u) PROVE TakenFrom(p, h, u)
  BY <1>1, <1>2, <1>5 DEF TakenFrom
<1> QED BY <1>3, <1>4, <1>5

\* The heap i is filled up to o.
LEMMA HeapFilled ==
  ASSUME NEW g \in Seq(Heap), NEW i \in DOMAIN g, NEW o \in Nat,
         g[i].next <= o, o <= g[i].size
  PROVE  LET u == [g EXCEPT ![i].next = o]
         IN u \in Seq(Heap) /\ Grown(g, u) /\ u[i].next = o
<1> DEFINE ee == [g[i] EXCEPT !.next = o]
           u == [g EXCEPT ![i].next = o]
<1>1. /\ Len(g) \in Nat /\ DOMAIN g = 1 .. Len(g) /\ g[i] \in Heap
      /\ g[i].size \in Nat /\ g[i].next \in Nat
      /\ \A j \in DOMAIN g : g[j].next \in Nat
  BY HeapsAre
<1>2. ee \in Heap /\ ee.next = o /\ ee.size = g[i].size
  BY <1>1 DEF Heap
<1>3. u = [g EXCEPT ![i] = ee]
  OBVIOUS
<1> HIDE DEF ee
<1>4. /\ [g EXCEPT ![i] = ee] \in Seq(Heap)
      /\ Len([g EXCEPT ![i] = ee]) = Len(g)
      /\ \A j \in 1 .. Len(g) : [g EXCEPT ![i] = ee][j] = IF j = i THEN ee ELSE g[j]
  BY <1>1, <1>2, ExceptSeq
<1> HIDE DEF u
<1>5. u \in Seq(Heap) /\ Len(u) = Len(g) /\ \A j \in DOMAIN g : u[j] = IF j = i THEN ee ELSE g[j]
  BY <1>1, <1>3, <1>4
<1>6. DOMAIN u = DOMAIN g
  BY <1>1, <1>5, LenProperties
<1>7. Grown(g, u)
  BY <1>1, <1>2, <1>5, <1>6 DEF Grown
<1> QED BY <1>2, <1>5, <1>7 DEF u

\* Another place, behind all that were taken from its heap.
LEMMA PlaceAdded ==
  ASSUME NEW h, NEW u, NEW s \in Seq(Place), NEW p \in Place, TakenFrom(p, h, u),
         \A j \in DOMAIN s : TakenFrom(s[j], h, u) /\ InFront(s[j], p),
         \A j, l \in DOMAIN s : j < l => InFront(s[j], s[l])
  PROVE  LET t == Append(s, p)
         IN /\ t \in Seq(Place) /\ Len(t) = Len(s) + 1
            /\ \A j \in DOMAIN t : TakenFrom(t[j], h, u)
            /\ \A j, l \in DOMAIN t : j < l => InFront(t[j], t[l])
<1> DEFINE t == Append(s, p)
           n == Len(s)
<1>1. n \in Nat /\ DOMAIN s = 1 .. n
  BY LenProperties
<1>2. /\ t \in Seq(Place) /\ Len(t) = n + 1
      /\ \A j \in 1 .. n : t[j] = s[j]
  BY AppendProperties
<1>3. t[n + 1] = p
  BY AppendProperties
<1> HIDE DEF t
<1>4. DOMAIN t = 1 .. n + 1
  BY <1>2, LenProperties
<1> HIDE DEF n
<1>5. \A j \in DOMAIN t : j \in 1 .. n \/ j = n + 1
  BY <1>1, <1>4
<1>6. \A j \in DOMAIN t : TakenFrom(t[j], h, u)
  BY <1>1, <1>2, <1>3, <1>5
<1>7. ASSUME NEW j \in DOMAIN t, NEW l \in DOMAIN t, j < l
      PROVE  InFront(t[j], t[l])
  <2>1. j \in 1 .. n
    BY <1>1, <1>4, <1>7
  <2>2. CASE l = n + 1
    BY <1>1, <1>2, <1>3, <2>1, <2>2
  <2>3. CASE l # n + 1
    BY <1>1, <1>2, <1>5, <1>7, <2>1, <2>3
  <2> QED BY <2>2, <2>3
<1> QED BY <1>2, <1>6, <1>7 DEF t, n

\* One more allocation, or one that fails.
LEMMA TryAllocateKeeps ==
  ASSUME NEW h \in Seq(Heap), NEW d, NEW m \in Nat, Allocated(h, d, m), NEW n \in Nat
  PROVE  Allocated(h, TryAllocate(d, n), m + 1)
<1> DEFINE g == d.heaps
           room == HeapsWithRoom(g, n)
           i == Min(room)
           o == NextOffset(g[i], n)
           u == [g EXCEPT ![i].next = o]
           p == [heap |-> i, offs |-> g[i].next, size |-> n]
<1>1. CASE ~ d.ok \/ room = {}
  <2>1. TryAllocate(d, n) = [d EXCEPT !.ok = FALSE]
    BY <1>1 DEF TryAllocate
  <2> QED BY <2>1 DEF Allocated
<1>2. CASE d.ok /\ room # {}
  <2>1. TryAllocate(d, n) = [heaps |-> u, at |-> Append(d.at, p), ok |-> TRUE]
    BY <1>2 DEF TryAllocate
  <2>2. g \in Seq(Heap) /\ d.at \in Seq(Place) /\ Len(d.at) = m /\ Grown(h, g)
    BY <1>2 DEF Allocated
  <2> HIDE DEF g
  <2>3. i \in room
    <3>1. room \in SUBSET Nat
      BY <2>2, HeapsAre DEF HeapsWithRoom
    <3> HIDE DEF room
    <3> QED BY <1>2, <3>1, MinIs
  <2> HIDE DEF i
  <2>4. i \in DOMAIN g /\ AlignUp(g[i].next + n) < g[i].size
    BY <2>3 DEF HeapsWithRoom
  <2>5. g[i].next \in Nat /\ g[i].size \in Nat
    BY <2>2, <2>4, HeapsAre
  <2>6. o \in Nat /\ g[i].next + n <= o /\ o <= g[i].size
    <3>1. g[i].next + n \in Nat
      BY <2>5
    <3>2. AlignUp(g[i].next + n) \in Nat /\ g[i].next + n <= AlignUp(g[i].next + n)
      BY <3>1, AlignUpIs
    <3>3. o = AlignUp(g[i].next + n)
      BY DEF NextOffset
    <3> HIDE DEF o
    <3> QED BY <2>4, <2>5, <3>2, <3>3
  <2> HIDE DEF o
  <2>7. g[i].next <= o
    BY <2>5, <2>6
  <2>8. u \in Seq(Heap) /\ Grown(g, u) /\ u[i].next = o
    BY <2>2, <2>4, <2>6, <2>7, HeapFilled
  <2> HIDE DEF u
  <2>9. i \in Nat
    BY <2>2, <2>4, HeapsAre
  <2>10. p \in Place /\ p.heap = i /\ p.offs = g[i].next /\ p.size = n
    BY <2>5, <2>9 DEF Place
  <2> HIDE DEF p
  <2>11. TakenFrom(p, g, u)
    BY <2>4, <2>5, <2>6, <2>8, <2>10 DEF TakenFrom
  <2>12. Grown(h, u) /\ TakenFrom(p, h, u)
    BY <2>2, <2>8, <2>11, GrownOn
  <2>13. ASSUME NEW j \in DOMAIN d.at
         PROVE  TakenFrom(d.at[j], h, u) /\ InFront(d.at[j], p)
    <3>1. TakenFrom(d.at[j], h, g)
      BY DEF Allocated, g
    <3>2. TakenFrom(d.at[j], h, u)
      BY <2>2, <2>8, <3>1, GrownOn
    <3> QED BY <2>10, <3>1, <3>2 DEF TakenFrom, InFront
  <2>14. \A j, l \in DOMAIN d.at : j < l => InFront(d.at[j], d.at[l])
    BY DEF Allocated
  <2> DEFINE t == Append(d.at, p)
  <2>15. /\ t \in Seq(Place) /\ Len(t) = m + 1
         /\ \A j \in DOMAIN t : TakenFrom(t[j], h, u)
         /\ \A j, l \in DOMAIN t : j < l => InFront(t[j], t[l])
    BY <2>2, <2>10, <2>12, <2>13, <2>14, PlaceAdded
  <2>16. TryAllocate(d, n) = [heaps |-> u, at |-> t, ok |-> TRUE]
    BY <2>1
  <2> HIDE DEF t
  <2> QED BY <2>8, <2>12, <2>15, <2>16 DEF Allocated
<1>3. d.ok \in BOOLEAN
  BY DEF Allocated
<1> QED BY <1>1, <1>2, <1>3

\* CanAllocate and Allocate: when there is room, a file is given as many places
\* as it asks for, beyond all that the heaps hold, within them, and apart.
THEOREM AllocationsApart ==
  ASSUME NEW h \in Seq(Heap), NEW sizes \in Seq(Nat)
  PROVE  Allocated(h, Allocate(h, sizes), Len(sizes))
<1>1. PICK d : /\ d[0] = Base(h) /\ Allocate(h, sizes) = d[Len(sizes)]
               /\ \A m \in 1 .. Len(sizes) : d[m] = TryAllocate(d[m - 1], sizes[m])
  BY AllocateUnfolds
<1> DEFINE Bad == {m \in 0 .. Len(sizes) : ~ Allocated(h, d[m], m)}
<1>2. Len(sizes) \in Nat /\ \A m \in 1 .. Len(sizes) : sizes[m] \in Nat
  BY LenProperties, ElementOfSeq
<1>3. Allocated(h, Base(h), 0)
  <2>1. <<>> \in Seq(Place) /\ Len(<<>>) = 0 /\ DOMAIN <<>> = {}
    BY EmptySeq
  <2>2. \A i \in DOMAIN h : h[i].next \in Nat
    BY LenProperties, ElementOfSeq DEF Heap
  <2>3. Grown(h, h)
    BY <2>2 DEF Grown
  <2> QED BY <2>1, <2>3 DEF Allocated, Base
<1>4. Bad = {}
  <2>1. SUFFICES ASSUME Bad # {} PROVE FALSE
    OBVIOUS
  <2>2. PICK m \in Bad : \A k \in Bad : m <= k
    <3>1. Bad \in SUBSET Nat
      BY <1>2
    <3> QED BY <2>1, <3>1, Least
  <2>3. m # 0
    BY <1>1, <1>3
  <2>4. m - 1 \in Nat /\ m - 1 \in 0 .. Len(sizes) /\ m \in 1 .. Len(sizes) /\ m - 1 \notin Bad
        /\ (m - 1) + 1 = m
    BY <1>2, <2>2, <2>3
  <2>5. Allocated(h, d[m - 1], m - 1)
    BY <2>4
  <2>6. Allocated(h, TryAllocate(d[m - 1], sizes[m]), m)
    BY <1>2, <2>4, <2>5, TryAllocateKeeps
  <2> QED BY <1>1, <2>4, <2>6
<1> QED BY <1>1, <1>2, <1>4

------------------------------------------------------------------------------
\* The loader's own invariant.

Owner    == Files \cup {NoEntry}
Requests == Owner \X Int

LoaderOK ==
  /\ custom \in Seq(Requests) /\ deque \in Seq(Requests) /\ works \in Nat
  /\ callback \in [at    : {"waiting", "pulling", "pushing", "submitting", "rearming"},
                   batch : Seq(Requests), left : Nat]
  /\ callback.left <= BatchSize
  /\ callback.at = "pushing" => Len(callback.batch) \in 1 .. BatchSize
  /\ callback.at = "submitting" <=> callback.left > 0
  /\ works + callback.left = Len(deque)

\* Nothing is queued yet.
LEMMA LoaderInitOK == LoaderInit => LoaderOK
<1>1. <<>> \in Seq(Requests) /\ Len(<<>>) = 0
  BY EmptySeq
<1> QED BY <1>1, BatchAssumption DEF LoaderInit, LoaderOK

\* What DirectStorage and the work items do leaves the deque alone.
LEMMA RequestKeeps ==
  ASSUME LoaderOK, NEW r \in Requests, QueueRequest(r) \/ EndWork(r)
  PROVE  LoaderOK'
<1>1. custom \in Seq(Requests) /\ Append(custom, r) \in Seq(Requests)
  BY AppendProperties DEF LoaderOK
<1>2. CASE QueueRequest(r)
  BY <1>1, <1>2 DEF LoaderOK, QueueRequest
<1>3. CASE EndWork(r)
  BY <1>1, <1>3 DEF LoaderOK, EndWork
<1> QED BY <1>2, <1>3

\* The callback and the work items.
LEMMA LoaderStepKeeps ==
  ASSUME LoaderOK, LoaderStep
  PROVE  LoaderOK'
<1>1. /\ custom \in Seq(Requests) /\ Len(custom) \in Nat
      /\ deque \in Seq(Requests) /\ Len(deque) \in Nat
      /\ callback.batch \in Seq(Requests) /\ Len(callback.batch) \in Nat
      /\ callback.left \in Nat /\ callback.left <= BatchSize /\ BatchSize \in Nat \ {0} /\ works \in Nat
      /\ works + callback.left = Len(deque)
  BY LenProperties, BatchAssumption DEF LoaderOK
<1>2. CASE StartCallback
  BY <1>1, <1>2 DEF LoaderOK, StartCallback
<1>3. CASE GetRequests1
  <2> DEFINE n == IF Len(custom) < BatchSize THEN Len(custom) ELSE BatchSize
             taken == SubSeq(custom, 1, n)
             rest == SubSeq(custom, n + 1, Len(custom))
  <2>1. n \in 0 .. BatchSize /\ n \in 0 .. Len(custom)
    BY <1>1
  <2>2. \A i \in 1 .. Len(custom) : custom[i] \in Requests
    BY <1>1, ElementOfSeq
  <2>3. custom' = rest /\ callback.at = "pulling"
        /\ callback' = [callback EXCEPT !.at = IF n = 0 THEN "rearming" ELSE "pushing",
                                        !.batch = taken]
        /\ deque' = deque /\ works' = works
    BY <1>3 DEF GetRequests1
  <2> HIDE DEF n
  <2>4. taken \in Seq(Requests) /\ Len(taken) = IF 1 <= n THEN n - 1 + 1 ELSE 0
    <3>1. \A i \in 1 .. n : custom[i] \in Requests
      BY <2>1, <2>2, <1>1
    <3>2. 1 \in Int /\ n \in Int
      BY <2>1
    <3> QED BY <3>1, <3>2, SubSeqProperties
  <2>5. rest \in Seq(Requests)
    <3>1. \A i \in n + 1 .. Len(custom) : custom[i] \in Requests
      BY <2>1, <2>2, <1>1
    <3>2. n + 1 \in Int /\ Len(custom) \in Int
      BY <2>1, <1>1
    <3> QED BY <3>1, <3>2, SubSeqProperties
  <2> HIDE DEF taken, rest
  <2>6. n = 0 \/ Len(taken) \in 1 .. BatchSize
    BY <2>1, <2>4
  <2> QED BY <1>1, <2>3, <2>4, <2>5, <2>6 DEF LoaderOK
<1>4. CASE PushBatch
  <2>1. deque' \in Seq(Requests) /\ Len(deque') = Len(deque) + Len(callback.batch)
    BY <1>1, <1>4, ConcatProperties DEF PushBatch
  <2>2. callback.left = 0 /\ Len(callback.batch) \in 1 .. BatchSize
    BY <1>1, <1>4 DEF PushBatch, LoaderOK
  <2>3. /\ callback' = [at |-> "submitting", batch |-> <<>>, left |-> Len(callback.batch)]
        /\ custom' = custom /\ works' = works
    BY <1>4 DEF PushBatch
  <2>4. <<>> \in Seq(Requests)
    BY EmptySeq
  <2>5. callback'.at = "submitting" /\ callback'.left = Len(callback.batch) /\ callback'.left \in Nat
        /\ callback' \in [at : {"waiting", "pulling", "pushing", "submitting", "rearming"},
                         batch : Seq(Requests), left : Nat]
    BY <2>2, <2>3, <2>4
  <2>6. works' + callback'.left = Len(deque') /\ callback'.left <= BatchSize /\ callback'.left > 0
    BY <1>1, <2>1, <2>2, <2>3, <2>5
  <2> QED BY <1>1, <2>1, <2>3, <2>5, <2>6 DEF LoaderOK
<1>5. CASE SubmitWork
  <2>1. /\ callback.at = "submitting" /\ works' = works + 1
        /\ callback' = [callback EXCEPT !.left = callback.left - 1,
                                        !.at = IF callback.left = 1 THEN "pulling" ELSE callback.at]
        /\ custom' = custom /\ deque' = deque
    BY <1>5 DEF SubmitWork
  <2>2. callback.left > 0
    BY <2>1 DEF LoaderOK
  <2> DEFINE a == IF callback.left = 1 THEN "pulling" ELSE "submitting"
             b == callback.left - 1
             Callback == [at : {"waiting", "pulling", "pushing", "submitting", "rearming"},
                          batch : Seq(Requests), left : Nat]
  <2>3. a \in {"pulling", "submitting"} /\ b \in Nat
    BY <1>1, <2>2
  <2>4. callback \in Callback
    BY DEF LoaderOK
  <2>5. callback' = [callback EXCEPT !.left = b, !.at = a]
    BY <2>1
  <2> HIDE DEF a, b
  <2>6. /\ callback'.at = a /\ callback'.left = b /\ callback'.batch = callback.batch
        /\ callback' \in Callback
    BY <2>3, <2>4, <2>5
  <2>7. /\ callback'.at = IF callback.left = 1 THEN "pulling" ELSE "submitting"
        /\ callback'.left = callback.left - 1 /\ callback'.batch = callback.batch
        /\ callback' \in Callback
    BY <2>6 DEF a, b
  <2>8. works' + callback'.left = Len(deque') /\ works' \in Nat
    BY <1>1, <2>1, <2>7
  <2>9. callback'.left <= BatchSize
    BY <1>1, <2>7
  <2>10. callback'.at = "submitting" <=> callback'.left > 0
    <3>1. CASE callback.left = 1
      BY <2>7, <3>1
    <3>2. CASE callback.left # 1
      BY <1>1, <2>2, <2>7, <3>2
    <3> QED BY <3>1, <3>2
  <2> QED BY <1>1, <2>1, <2>7, <2>8, <2>9, <2>10 DEF LoaderOK
<1>6. CASE Rearm
  BY <1>1, <1>6 DEF LoaderOK, Rearm
<1>7. CASE StartWork
  <2>1. /\ works > 0 /\ works' = works - 1 /\ deque # <<>> /\ deque' = Tail(deque)
        /\ custom' = custom /\ callback' = callback
    BY <1>7 DEF StartWork
  <2>2. Tail(deque) \in Seq(Requests) /\ Len(Tail(deque)) = Len(deque) - 1
    BY <1>1, <2>1, HeadTailProperties
  <2>3. works' \in Nat /\ works' + callback'.left = Len(deque')
    BY <1>1, <2>1, <2>2
  <2> QED BY <2>1, <2>2, <2>3 DEF LoaderOK
<1> QED BY <1>2, <1>3, <1>4, <1>5, <1>6, <1>7 DEF LoaderStep

\* There is a request for every work item that was submitted, and more for
\* those that are to be.
LEMMA LoaderFindsRequest ==
  ASSUME LoaderOK
  PROVE  WorkFindsRequest
<1>1. works \in Nat /\ callback.left \in Nat /\ works + callback.left = Len(deque)
  BY BatchAssumption DEF LoaderOK
<1>2. deque = <<>> => Len(deque) = 0
  BY EmptySeq
<1> QED BY <1>1, <1>2 DEF WorkFindsRequest

------------------------------------------------------------------------------
\* The invariant.

Kinds == {Textures, Buffers}

\* A file that has places for its content, and is not an error.
ActiveStates == {"LoadingContent", "CpuDataLoaded", "GpuDataLoaded", "ContentLoaded"}
Active == {f \in Files : file[f] \in ActiveStates}

\* Before the metadata is there.
Begun == {"FileOpen", "LoadingHeader", "LoadingCpuMetadata"}

Event == Files \X {"header", "metadata", "cpuData", "gpuData"}
GpuEvent(f) == <<f, "gpuData">>

BatchSet ==
  [file : Owner, reads : SUBSET Int, ok : BOOLEAN,
   entry : {NoEntry, "Metadata", "CpuData", "GpuData"}, event : Event \cup {LoadComplete}]

Types ==
  /\ file \in [Files -> States] /\ shown \subseteq Files /\ armed \subseteq Event
  /\ DOMAIN queue = {"system", "gpu"}
  /\ queue["system"] \in Seq(BatchSet) /\ queue["gpu"] \in Seq(BatchSet)
  /\ DOMAIN heaps = Kinds /\ \A k \in Kinds : heaps[k] \in Seq(Heap)
  /\ ids \in Seq(Files) /\ thrown = FALSE

\* In which states an event may be waited for.
ArmedOK ==
  \A f \in Files :
    /\ <<f, "header">> \in armed => file[f] = "LoadingHeader"
    /\ <<f, "metadata">> \in armed => file[f] = "LoadingCpuMetadata"
    /\ <<f, "cpuData">> \in armed => file[f] \in {"LoadingContent", "GpuDataLoaded"}
    /\ GpuEvent(f) \in armed => file[f] \in {"LoadingContent", "CpuDataLoaded", "Error"}

\* A batch of the GPU queue is that of a file that waits for its event, which is
\* to come, or the one of the manager.
Marker(b) == b.reads = {} /\ b.event = LoadComplete
OfFile(b) ==
  /\ b.file \in Files /\ b.reads \subseteq GpuReads(b.file)
  /\ b.event = GpuEvent(b.file) /\ b.event \in armed \ signalled

QueueOK ==
  /\ \A i \in DOMAIN queue["system"] :
       LET b == queue["system"][i]
       IN /\ b.file \in Files /\ b.reads \subseteq {Header, Metadata, CpuData}
          /\ \A f \in Files : b.event # GpuEvent(f)
  /\ \A i \in DOMAIN queue["gpu"] : Marker(queue["gpu"][i]) \/ OfFile(queue["gpu"][i])
  /\ \A i, j \in DOMAIN queue["gpu"] :
       queue["gpu"][i].event = queue["gpu"][j].event /\ i # j => queue["gpu"][i].event = LoadComplete

PlacesOK ==
  /\ DOMAIN places = Files /\ DOMAIN data = Files
  /\ \A f \in Files :
       /\ DOMAIN places[f] = 1 .. Len(places[f]) /\ DOMAIN data[f] = DOMAIN places[f]
       /\ Len(places[f]) \in {0, Len(Archive[f].textures) + 1}
       /\ f \in Active => Len(places[f]) = Len(Archive[f].textures) + 1

\* A place lies within what its heap holds.
Inside(p) ==
  /\ p.kind \in Kinds /\ p.heap \in DOMAIN heaps[p.kind] /\ p.offs \in Nat /\ p.size \in Nat
  /\ p.offs + p.size <= heaps[p.kind][p.heap].next

Within == \A f \in Active : \A k \in GpuReads(f) : Inside(places[f][k])

Apart ==
  \A f, g \in Active : \A k \in GpuReads(f), l \in GpuReads(g) :
    <<f, k>> # <<g, l>> => ~ Overlap(places[f][k], places[g][l])

\* The batch i of the GPU queue is behind that of the file f, if it has any.
Behind(f, i) == \A j \in DOMAIN queue["gpu"] : queue["gpu"][j].event = GpuEvent(f) => j < i

\* What has yet to be read when a file has all of its own reads is elsewhere.
LateApart ==
  \A f \in Active : \A i \in DOMAIN queue["gpu"] : Behind(f, i) =>
    \A r \in queue["gpu"][i].reads, k \in GpuReads(f) :
      ~ Overlap(places[queue["gpu"][i].file][r], places[f][k])

UnderWay(f, k) ==
  \E i \in DOMAIN queue["gpu"] : queue["gpu"][i].event = GpuEvent(f) /\ k \in queue["gpu"][i].reads

DataOK ==
  \A f \in Active : \A k \in GpuReads(f) :
    data[f][k] \in {"own", "stray"} \/ (data[f][k] = "nothing" /\ UnderWay(f, k))

\* What the main thread, the demo and the manager are at, and the states the
\* files have then.
PhaseOK ==
  /\ \/ loop = "Add" /\ app = "Idle" /\ manager = "LoadingMetadata"
     \/ loop = "SetNextSet" /\ app = "Idle" /\ manager = "ReadyToLoad"
     \/ loop = "none" /\ app = "Idle" /\ manager \in {"LoadingMetadata", "ReadyToLoad"}
     \/ loop = "none" /\ app = "LoadingASet" /\ manager = "Loading"
     \/ loop = "none" /\ app \in {"ShowingASet", "Unloading"} /\ manager = "Loaded"
  /\ loop = "Add" => IsInjective(ids) /\ \A i \in DOMAIN ids : file[ids[i]] = "FileOpen"
  /\ manager # "LoadingMetadata" => \A f \in Files : file[f] \notin Begun
  /\ app = "Idle" /\ loop # "SetNextSet" => Active = {}
  /\ app \in {"ShowingASet", "Unloading"} =>
       \A f \in Files : file[f] \in {"MetadataReady", "ContentLoaded", "Error"}
  /\ \A f \in shown : file[f] = "ContentLoaded" /\ app \in {"ShowingASet", "Unloading"}

ContentOK == PlacesOK /\ Within /\ Apart /\ LateApart /\ DataOK
BulkOK == Types /\ ArmedOK /\ QueueOK /\ ContentOK /\ PhaseOK
IInv == BulkOK /\ LoaderOK

------------------------------------------------------------------------------
\* What the invariant means.

\* A file that does not wait for its GPU data has no batch in the GPU queue.
LEMMA Quiet ==
  ASSUME BulkOK, NEW f \in Files, GpuEvent(f) \notin armed, NEW i \in DOMAIN queue["gpu"]
  PROVE  queue["gpu"][i].event # GpuEvent(f)
<1>1. LoadComplete # GpuEvent(f)
  BY DEF LoadComplete, GpuEvent
<1>2. Marker(queue["gpu"][i]) \/ OfFile(queue["gpu"][i])
  BY DEF BulkOK, QueueOK
<1> QED BY <1>1, <1>2 DEF Marker, OfFile

\* The reads of a file are counted from 1.
LEMMA TexturesAre ==
  ASSUME NEW f \in Files
  PROVE  /\ Archive[f].textures \in Seq(Nat) /\ Len(Archive[f].textures) \in Nat
         /\ GpuReads(f) = 1 .. Len(Archive[f].textures) + 1 /\ GpuReads(f) \subseteq Int
<1>1. Archive[f].textures \in Seq(Nat) /\ Len(Archive[f].textures) \in Nat
  BY SizesAssumption, LenProperties
<1> QED BY <1>1 DEF GpuReads

\* A file that is shown has its content, so its batch has left the queue and all
\* that is still in it is elsewhere.
LEMMA IInvImpliesShownSettled ==
  ASSUME IInv
  PROVE  ShownSettled
<1>1. BulkOK
  BY DEF IInv
<1>2. SUFFICES ASSUME NEW f \in shown, NEW k \in DOMAIN places[f]
               PROVE  /\ data[f][k] \in {"own", "stray"}
                      /\ \A i \in DOMAIN queue["gpu"] : \A r \in queue["gpu"][i].reads :
                           ~ Overlap(places[queue["gpu"][i].file][r], places[f][k])
  BY DEF ShownSettled
<1>3. f \in Files /\ file[f] = "ContentLoaded" /\ f \in Active
  BY <1>1 DEF BulkOK, Types, PhaseOK, Active, ActiveStates
<1>4. GpuEvent(f) \notin armed
  BY <1>1, <1>3 DEF BulkOK, ArmedOK
<1>5. \A i \in DOMAIN queue["gpu"] : queue["gpu"][i].event # GpuEvent(f)
  BY <1>1, <1>3, <1>4, Quiet
<1>6. k \in GpuReads(f)
  BY <1>1, <1>3, TexturesAre DEF BulkOK, ContentOK, PlacesOK
<1>7. data[f][k] \in {"own", "stray"}
  BY <1>1, <1>3, <1>5, <1>6 DEF BulkOK, ContentOK, DataOK, UnderWay
<1>8. \A i \in DOMAIN queue["gpu"] : Behind(f, i)
  BY <1>5 DEF Behind
<1> QED BY <1>1, <1>3, <1>6, <1>7, <1>8 DEF BulkOK, ContentOK, LateApart

\* The types are part of the invariant.
LEMMA IInvImpliesTypeOK ==
  ASSUME IInv
  PROVE  TypeOK
<1>1. \A k \in Kinds : \A i \in DOMAIN heaps[k] : heaps[k][i].next \in 0 .. heaps[k][i].size
  BY HeapsAre DEF IInv, BulkOK, Types
<1>2. manager \in {"LoadingMetadata", "ReadyToLoad", "Loading", "Loaded"}
      /\ app \in {"Idle", "LoadingASet", "ShowingASet", "Unloading"}
  BY DEF IInv, BulkOK, PhaseOK
<1>3. callback.left \in 0 .. BatchSize
  BY BatchAssumption DEF IInv, LoaderOK
<1>4. /\ file \in [Files -> States] /\ shown \subseteq Files
      /\ \A f \in Files : Len(places[f]) \in {0, Len(Archive[f].textures) + 1}
  BY DEF IInv, BulkOK, Types, ContentOK, PlacesOK
<1> QED BY <1>1, <1>2, <1>3, <1>4 DEF TypeOK, Kinds

\* So is that nothing was thrown.
LEMMA IInvImpliesNothingFails ==
  ASSUME IInv
  PROVE  NothingFails
BY LoaderFindsRequest DEF IInv, BulkOK, Types, NothingFails

------------------------------------------------------------------------------
\* The initial states.

\* No file is active.
LEMMA InitBulkOK == ASSUME Init PROVE BulkOK
<1>1. /\ DOMAIN <<>> = {} /\ Len(<<>>) = 0 /\ 1 .. 0 = {}
      /\ <<>> \in Seq(BatchSet)
  BY EmptySeq
<1>2. ids \in Seq(Files) /\ IsInjective(ids)
  BY OrdersAssumption DEF Init
<1>3. ASSUME NEW k \in Kinds PROVE heaps[k] \in Seq(Heap)
  <2> DEFINE h == [i \in DOMAIN HeapSizes[k] |-> [size |-> HeapSizes[k][i], next |-> 0]]
  <2>1. HeapSizes[k] \in Seq(Nat)
    BY SizesAssumption DEF Kinds
  <2>2. /\ Len(HeapSizes[k]) \in Nat /\ DOMAIN HeapSizes[k] = 1 .. Len(HeapSizes[k])
        /\ \A i \in DOMAIN HeapSizes[k] : HeapSizes[k][i] \in Nat
    BY <2>1, LenProperties, ElementOfSeq
  <2>3. h \in [1 .. Len(HeapSizes[k]) -> Heap]
    BY <2>2 DEF Heap
  <2>4. h \in Seq(Heap)
    BY <2>2, <2>3, SeqDef
  <2>5. heaps[k] = h
    BY DEF Init, Kinds
  <2> QED BY <2>4, <2>5
<1>4. Types
  BY <1>1, <1>2, <1>3 DEF Init, Types, States, Kinds
<1>5. Active = {}
  BY DEF Init, Active, ActiveStates
<1>6. ArmedOK /\ QueueOK
  BY <1>1 DEF Init, ArmedOK, QueueOK
<1>7. ContentOK
  BY <1>1, <1>5 DEF Init, ContentOK, PlacesOK, Within, Apart, LateApart, DataOK
<1>8. PhaseOK
  <2>1. ids \in Seq(Files) /\ DOMAIN ids = 1 .. Len(ids)
    BY <1>2, LenProperties
  <2>2. \A i \in DOMAIN ids : ids[i] \in Files
    BY <2>1, ElementOfSeq
  <2> QED BY <1>2, <1>5, <2>2 DEF Init, PhaseOK
<1> QED BY <1>4, <1>6, <1>7, <1>8 DEF BulkOK

------------------------------------------------------------------------------
\* Steps that leave most of it alone.

\* Fewer files are active, and their content is as it was.
LEMMA FewerActive ==
  ASSUME BulkOK, Active' \subseteq Active, queue'["gpu"] = queue["gpu"],
         UNCHANGED <<places, data, heaps>>
  PROVE  ContentOK'
<1>1. \A f \in Files, i \in DOMAIN queue'["gpu"] : Behind(f, i)' <=> Behind(f, i)
  BY DEF Behind
<1>2. \A f \in Files : \A k \in GpuReads(f) : UnderWay(f, k)' <=> UnderWay(f, k)
  BY DEF UnderWay
<1>3. \A f \in Active' : f \in Files
  BY DEF Active
<1>4. PlacesOK /\ Within /\ Apart /\ LateApart /\ DataOK
  BY DEF BulkOK, ContentOK
<1>5. PlacesOK'
  BY <1>4 DEF PlacesOK
<1>6. Within' /\ Apart'
  BY <1>4 DEF Within, Apart, Inside
<1>7. LateApart'
  BY <1>1, <1>3, <1>4 DEF LateApart
<1>8. DataOK'
  BY <1>2, <1>3, <1>4 DEF DataOK
<1> QED BY <1>5, <1>6, <1>7, <1>8 DEF ContentOK

\* Nothing is active: what is under way does not matter.
LEMMA NoneActive ==
  ASSUME PlacesOK', Active' = {}
  PROVE  ContentOK'
BY DEF ContentOK, Within, Apart, LateApart, DataOK

\* One file goes from one state to another, not back, and not from one that it
\* rests in.
LEMMA StateMoves ==
  ASSUME BulkOK, NEW f \in Files, NEW s \in States, file' = [file EXCEPT ![f] = s],
         file[f] # "FileOpen",
         s \in ActiveStates => file[f] \in ActiveStates,
         s \in Begun => file[f] \in Begun,
         file[f] \in {"MetadataReady", "ContentLoaded", "Error"} => s = file[f],
         queue'["gpu"] = queue["gpu"],
         UNCHANGED <<places, data, heaps, manager, app, loop, ids, shown, thrown>>
  PROVE  ContentOK' /\ PhaseOK'
<1>1. file \in [Files -> States] /\ shown \subseteq Files /\ ids \in Seq(Files)
  BY DEF BulkOK, Types
<1>2. \A g \in Files : file'[g] = IF g = f THEN s ELSE file[g]
  BY <1>1
<1>3. Active' \subseteq Active
  BY <1>2 DEF Active
<1>4. ContentOK'
  BY <1>3, FewerActive
<1>5. PhaseOK
  BY DEF BulkOK
<1>6. \A i \in DOMAIN ids : ids[i] \in Files
  BY <1>1, LenProperties, ElementOfSeq
<1>7. loop = "Add" => \A i \in DOMAIN ids : file'[ids[i]] = "FileOpen"
  BY <1>2, <1>5, <1>6 DEF PhaseOK
<1>8. manager # "LoadingMetadata" => \A g \in Files : file'[g] \notin Begun
  BY <1>2, <1>5 DEF PhaseOK
<1>9. app = "Idle" /\ loop # "SetNextSet" => Active' = {}
  BY <1>3, <1>5 DEF PhaseOK
<1>10. app \in {"ShowingASet", "Unloading"} =>
         \A g \in Files : file'[g] \in {"MetadataReady", "ContentLoaded", "Error"}
  BY <1>2, <1>5 DEF PhaseOK
<1>11. \A g \in shown : file'[g] = "ContentLoaded" /\ app \in {"ShowingASet", "Unloading"}
  BY <1>1, <1>2, <1>5 DEF PhaseOK
<1>12. PhaseOK'
  BY <1>5, <1>7, <1>8, <1>9, <1>10, <1>11 DEF PhaseOK
<1> QED BY <1>4, <1>12

\* What Batch makes.
LEMMA BatchIs ==
  ASSUME NEW f \in Owner, NEW reads \in SUBSET Int, NEW ev \in Event \cup {LoadComplete},
         NEW entry \in {NoEntry, "Metadata", "CpuData", "GpuData"}
  PROVE  LET b == Batch(f, reads, entry, ev)
         IN b \in BatchSet /\ b.file = f /\ b.reads = reads /\ b.event = ev
BY DEF Batch, BatchSet

\* A sequence with one more element, position by position.
LEMMA AppendIs ==
  ASSUME NEW S, NEW s \in Seq(S), NEW x \in S
  PROVE  LET t == Append(s, x)
         IN /\ t \in Seq(S) /\ Len(s) \in Nat /\ Len(t) = Len(s) + 1
            /\ DOMAIN s = 1 .. Len(s) /\ DOMAIN t = 1 .. Len(s) + 1
            /\ \A i \in DOMAIN s : t[i] = s[i]
            /\ t[Len(s) + 1] = x
            /\ \A i \in DOMAIN t : i \in DOMAIN s \/ i = Len(s) + 1
<1> DEFINE t == Append(s, x)
<1>1. DOMAIN s = 1 .. Len(s) /\ Len(s) \in Nat
  BY LenProperties
<1>2. t \in Seq(S) /\ Len(t) = Len(s) + 1 /\ \A i \in 1 .. Len(s) : t[i] = s[i]
  BY AppendProperties
<1>3. t[Len(s) + 1] = x
  BY AppendProperties
<1> HIDE DEF t
<1>4. DOMAIN t = 1 .. Len(s) + 1
  BY <1>2, LenProperties
<1> QED BY <1>1, <1>2, <1>3, <1>4 DEF t

\* A sequence without its first, position by position.
LEMMA TailIs ==
  ASSUME NEW S, NEW s \in Seq(S), s # <<>>
  PROVE  LET t == Tail(s)
         IN /\ t \in Seq(S) /\ Len(s) \in Nat /\ Head(s) = s[1] /\ 1 \in DOMAIN s /\ s[1] \in S
            /\ DOMAIN s = 1 .. Len(s) /\ DOMAIN t = 1 .. Len(s) - 1
            /\ \A i \in DOMAIN t : t[i] = s[i + 1] /\ i + 1 \in DOMAIN s /\ i \in Nat \ {0}
<1> DEFINE t == Tail(s)
<1>1. DOMAIN s = 1 .. Len(s) /\ Len(s) \in Nat \ {0}
  BY LenProperties, EmptySeq
<1>2. t \in Seq(S) /\ Len(t) = Len(s) - 1 /\ \A i \in 1 .. Len(t) : t[i] = s[i + 1]
  BY HeadTailProperties
<1>3. Head(s) = s[1] /\ s[1] \in S
  BY <1>1, ElementOfSeq
<1> HIDE DEF t
<1>4. DOMAIN t = 1 .. Len(s) - 1
  BY <1>2, LenProperties
<1> QED BY <1>1, <1>2, <1>3, <1>4 DEF t

\* The event of a batch is as it was armed, and not set, when what is armed
\* and set changes elsewhere.
LEMMA QueueStays ==
  ASSUME BulkOK, queue' = queue,
         \A f \in Files : GpuEvent(f) \in armed \ signalled => GpuEvent(f) \in armed' \ signalled'
  PROVE  QueueOK'
<1>1. QueueOK
  BY DEF BulkOK
<1>2. \A i \in DOMAIN queue["gpu"] : OfFile(queue["gpu"][i]) => OfFile(queue["gpu"][i])'
  BY DEF OfFile
<1> QED BY <1>1, <1>2 DEF QueueOK, Marker

\* The same, and a batch is added to the queue for system memory.
LEMMA SystemAppends ==
  ASSUME BulkOK, NEW b \in BatchSet, b.file \in Files, b.reads \subseteq {Header, Metadata, CpuData},
         \A f \in Files : b.event # GpuEvent(f),
         queue'["system"] = Append(queue["system"], b), queue'["gpu"] = queue["gpu"],
         DOMAIN queue' = {"system", "gpu"},
         \A f \in Files : GpuEvent(f) \in armed \ signalled => GpuEvent(f) \in armed' \ signalled'
  PROVE  /\ QueueOK' /\ queue'["system"] \in Seq(BatchSet)
<1>1. QueueOK /\ queue["system"] \in Seq(BatchSet)
  BY DEF BulkOK, Types
<1>2. \A i \in DOMAIN queue["gpu"] : OfFile(queue["gpu"][i]) => OfFile(queue["gpu"][i])'
  BY DEF OfFile
<1> DEFINE s == queue["system"]
           t == Append(s, b)
<1>3. /\ t \in Seq(BatchSet) /\ \A i \in DOMAIN s : t[i] = s[i]
      /\ t[Len(s) + 1] = b /\ \A i \in DOMAIN t : i \in DOMAIN s \/ i = Len(s) + 1
  BY <1>1, AppendIs
<1>4. queue'["system"] = t
  OBVIOUS
<1> HIDE DEF t
<1>5. \A i \in DOMAIN t : t[i] = b \/ (i \in DOMAIN s /\ t[i] = s[i])
  BY <1>3
<1> QED BY <1>1, <1>2, <1>3, <1>4, <1>5 DEF QueueOK, Marker

------------------------------------------------------------------------------
\* The handlers.

\* A header that is good starts the read of the metadata.
LEMMA OnHeaderLoadedKeeps ==
  ASSUME BulkOK, NEW f \in Files, OnHeaderLoaded(f)
  PROVE  BulkOK'
<1> DEFINE bad == ~ Archive[f].version \/ ~ status[f]["Metadata"]
           s == IF bad THEN "Error" ELSE "LoadingCpuMetadata"
           b == Batch(f, {Metadata}, NoEntry, <<f, "metadata">>)
<1>1. /\ <<f, "header">> \in armed /\ Validate(f, {"LoadingHeader"})
      /\ file' = [file EXCEPT ![f] = s]
      /\ UNCHANGED <<places, data, heaps, manager, app, loop, ids, shown>>
  BY DEF OnHeaderLoaded
<1>2. Types /\ ArmedOK /\ QueueOK
  BY DEF BulkOK
<1>3. file[f] = "LoadingHeader" /\ thrown' = thrown /\ s \in {"Error", "LoadingCpuMetadata"}
  BY <1>1, <1>2 DEF ArmedOK, Validate, Types
<1>4. \/ /\ s = "Error" /\ armed' = armed \ {<<f, "header">>}
         /\ signalled' = signalled /\ queue' = queue
      \/ /\ s = "LoadingCpuMetadata"
         /\ armed' = (armed \ {<<f, "header">>}) \cup {<<f, "metadata">>}
         /\ signalled' = signalled \ {<<f, "metadata">>}
         /\ queue' = [queue EXCEPT !["system"] = Append(queue["system"], b)]
  BY DEF OnHeaderLoaded, Runs
<1> HIDE DEF s
<1>5. s \in States /\ s \notin ActiveStates /\ (s \in Begun => file[f] \in Begun)
  BY <1>3 DEF States, ActiveStates, Begun
<1>6. queue'["gpu"] = queue["gpu"] /\ DOMAIN queue' = {"system", "gpu"}
  BY <1>2, <1>4 DEF Types
<1>7. ContentOK' /\ PhaseOK'
  BY <1>1, <1>3, <1>5, <1>6, StateMoves
<1>8. \A g \in Files : file'[g] = IF g = f THEN s ELSE file[g]
  BY <1>1, <1>2 DEF Types
<1>9. ArmedOK' /\ armed' \subseteq Event
  BY <1>2, <1>3, <1>4, <1>8 DEF ArmedOK, GpuEvent, Types, Event
<1>10. \A g \in Files : GpuEvent(g) \in armed \ signalled => GpuEvent(g) \in armed' \ signalled'
  BY <1>4 DEF GpuEvent
<1>11. QueueOK' /\ queue'["system"] \in Seq(BatchSet)
  <2>1. CASE queue' = queue
    BY <1>2, <1>10, <2>1, QueueStays DEF Types
  <2>2. CASE queue' = [queue EXCEPT !["system"] = Append(queue["system"], b)]
    <3>1. b \in BatchSet /\ b.file = f /\ b.reads = {Metadata} /\ b.event = <<f, "metadata">>
      BY BatchIs DEF Owner, Event, Metadata
    <3>2. queue'["system"] = Append(queue["system"], b)
      BY <1>2, <2>2 DEF Types
    <3>3. \A g \in Files : b.event # GpuEvent(g)
      BY <3>1 DEF GpuEvent
    <3> HIDE DEF b
    <3> QED BY <1>6, <1>10, <3>1, <3>2, <3>3, SystemAppends
  <2> QED BY <1>4, <2>1, <2>2
<1>12. Types'
  BY <1>1, <1>2, <1>3, <1>5, <1>6, <1>9, <1>11 DEF Types
<1> QED BY <1>7, <1>9, <1>11, <1>12 DEF BulkOK

\* The other handlers: a file goes on to a state in which nothing waits for what
\* is handled, and an event is no longer waited for.
LEMMA HandlerKeeps ==
  ASSUME BulkOK, NEW f \in Files, NEW s \in States, file' = [file EXCEPT ![f] = s],
         NEW e \in {"metadata", "cpuData", "gpuData"}, Runs(<<f, e>>),
         \/ e = "metadata" /\ s \in {"MetadataReady", "Error"}
         \/ e = "cpuData" /\ s \in {"Error", "CpuDataLoaded"} /\ file[f] = "LoadingContent"
         \/ e = "cpuData" /\ s \in {"Error", "ContentLoaded"} /\ file[f] = "GpuDataLoaded"
         \/ e = "gpuData" /\ s = "Error" /\ file[f] = "Error"
         \/ e = "gpuData" /\ s = "GpuDataLoaded" /\ file[f] = "LoadingContent"
         \/ e = "gpuData" /\ s \in {"Error", "ContentLoaded"} /\ file[f] = "CpuDataLoaded",
         UNCHANGED <<places, data, signalled, queue, heaps, manager, app, loop, ids, shown, thrown>>
  PROVE  BulkOK'
<1>1. Types /\ ArmedOK /\ QueueOK
  BY DEF BulkOK
<1>2. <<f, e>> \in armed \cap signalled /\ armed' = armed \ {<<f, e>>}
  BY DEF Runs
<1>3. e = "metadata" => file[f] = "LoadingCpuMetadata"
  BY <1>1, <1>2 DEF ArmedOK
<1>4. /\ s \in ActiveStates => file[f] \in ActiveStates
      /\ s \in Begun => file[f] \in Begun
      /\ file[f] \in {"MetadataReady", "ContentLoaded", "Error"} => s = file[f]
      /\ file[f] # "FileOpen"
  BY <1>3 DEF ActiveStates, Begun
<1>5. ContentOK' /\ PhaseOK'
  BY <1>4, StateMoves
<1>6. \A g \in Files : file'[g] = IF g = f THEN s ELSE file[g]
  BY <1>1 DEF Types
<1>7. ArmedOK'
  BY <1>1, <1>2, <1>3, <1>6 DEF ArmedOK, GpuEvent
<1>8. \A g \in Files : GpuEvent(g) \in armed \ signalled => GpuEvent(g) \in armed' \ signalled'
  BY <1>2
<1>9. QueueOK'
  BY <1>8, QueueStays
<1>10. Types'
  BY <1>1, <1>2 DEF Types
<1> QED BY <1>5, <1>7, <1>9, <1>10 DEF BulkOK

\* Then the file can be loaded, if the device will do.
LEMMA OnCpuMetadataLoadedKeeps ==
  ASSUME BulkOK, NEW f \in Files, OnCpuMetadataLoaded(f)
  PROVE  BulkOK'
<1> DEFINE s == IF Device4 THEN "MetadataReady" ELSE "Error"
<1>1. /\ Runs(<<f, "metadata">>) /\ Validate(f, {"LoadingCpuMetadata"})
      /\ file' = [file EXCEPT ![f] = s]
      /\ UNCHANGED <<places, data, signalled, queue, heaps, manager, app, loop, ids, shown>>
  BY DEF OnCpuMetadataLoaded
<1>2. file[f] = "LoadingCpuMetadata"
  BY <1>1 DEF BulkOK, ArmedOK, Runs
<1>3. thrown' = thrown
  BY <1>1, <1>2 DEF BulkOK, Types, Validate
<1>4. s \in {"MetadataReady", "Error"} /\ s \in States
  BY DEF States
<1> HIDE DEF s
<1> QED BY <1>1, <1>3, <1>4, HandlerKeeps

\* The CPU data is there, before the GPU data or after it.
LEMMA OnCpuDataLoadedKeeps ==
  ASSUME BulkOK, NEW f \in Files, OnCpuDataLoaded(f)
  PROVE  BulkOK'
<1>1. Runs(<<f, "cpuData">>)
      /\ UNCHANGED <<places, data, signalled, queue, heaps, manager, app, loop, ids, shown>>
  BY DEF OnCpuDataLoaded
<1>2. file[f] \in {"LoadingContent", "GpuDataLoaded"} /\ thrown = FALSE
  BY <1>1 DEF BulkOK, ArmedOK, Runs, Types
<1>3. PICK blend \in BlendShapes(f) :
        file' = [file EXCEPT ![f] = IF blend THEN "Error"
                                    ELSE IF file[f] = "GpuDataLoaded" THEN WithAllData(f)
                                    ELSE "CpuDataLoaded"]
  BY <1>2 DEF OnCpuDataLoaded
<1>4. thrown' = thrown
  BY <1>2 DEF OnCpuDataLoaded, Validate
<1> DEFINE s == IF blend THEN "Error"
                ELSE IF file[f] = "GpuDataLoaded" THEN WithAllData(f)
                ELSE "CpuDataLoaded"
<1>5. \/ s \in {"Error", "CpuDataLoaded"} /\ file[f] = "LoadingContent"
      \/ s \in {"Error", "ContentLoaded"} /\ file[f] = "GpuDataLoaded"
  BY <1>2 DEF WithAllData
<1>6. file' = [file EXCEPT ![f] = s]
  BY <1>3
<1> HIDE DEF s
<1>7. s \in States
  BY <1>5 DEF States
<1> QED BY <1>1, <1>4, <1>5, <1>6, <1>7, HandlerKeeps

\* The GPU data is there: also of a file that failed in the meantime.
LEMMA OnGpuDataLoadedKeeps ==
  ASSUME BulkOK, NEW f \in Files, OnGpuDataLoaded(f)
  PROVE  BulkOK'
<1>1. Runs(<<f, "gpuData">>)
      /\ UNCHANGED <<places, data, signalled, queue, heaps, manager, app, loop, ids, shown>>
  BY DEF OnGpuDataLoaded
<1>2. /\ file[f] \in {"LoadingContent", "CpuDataLoaded", "Error"} /\ thrown = FALSE
      /\ file \in [Files -> States]
  BY <1>1 DEF BulkOK, ArmedOK, Runs, Types, GpuEvent
<1>3. CASE file[f] = "Error"
  <2>1. file' = file /\ thrown' = thrown
    BY <1>3 DEF OnGpuDataLoaded
  <2>2. file' = [file EXCEPT ![f] = "Error"]
    BY <1>2, <1>3, <2>1
  <2>3. "Error" \in States
    BY DEF States
  <2> QED BY <1>1, <1>3, <2>1, <2>2, <2>3, HandlerKeeps
<1>4. CASE file[f] # "Error"
  <2> DEFINE s == IF file[f] = "CpuDataLoaded" THEN WithAllData(f) ELSE "GpuDataLoaded"
  <2>1. file' = [file EXCEPT ![f] = s] /\ thrown' = thrown
    BY <1>2, <1>4 DEF OnGpuDataLoaded, Validate
  <2>2. \/ s = "GpuDataLoaded" /\ file[f] = "LoadingContent"
        \/ s \in {"Error", "ContentLoaded"} /\ file[f] = "CpuDataLoaded"
    BY <1>2, <1>4 DEF WithAllData
  <2> HIDE DEF s
  <2>3. s \in States
    BY <2>2 DEF States
  <2> QED BY <1>1, <2>1, <2>2, <2>3, HandlerKeeps
<1> QED BY <1>3, <1>4

------------------------------------------------------------------------------
\* The main thread, but for the start of a load.

\* A file that was not added before is added.
LEMMA AddKeeps ==
  ASSUME BulkOK, Add
  PROVE  BulkOK'
<1> DEFINE f == Head(ids)
           b == Batch(f, {Header}, "Metadata", <<f, "header">>)
<1>1. Types /\ ArmedOK /\ QueueOK /\ PhaseOK
  BY DEF BulkOK
<1>2. /\ loop = "Add" /\ ids # <<>> /\ ids' = Tail(ids)
      /\ Validate(f, {"FileOpen"})
      /\ armed' = armed \cup {<<f, "header">>} /\ signalled' = signalled \ {<<f, "header">>}
      /\ queue' = [queue EXCEPT !["system"] = Append(queue["system"], b)]
      /\ file' = [file EXCEPT ![f] = "LoadingHeader"]
      /\ UNCHANGED <<places, data, heaps, manager, app, loop, shown>>
  BY DEF Add, Looping, Arm
<1>3. /\ ids' \in Seq(Files) /\ f = ids[1] /\ 1 \in DOMAIN ids /\ f \in Files
      /\ \A i \in DOMAIN ids' : ids'[i] = ids[i + 1] /\ i + 1 \in DOMAIN ids /\ i \in Nat \ {0}
  BY <1>1, <1>2, TailIs DEF Types
<1>4. IsInjective(ids) /\ \A i \in DOMAIN ids : file[ids[i]] = "FileOpen"
  BY <1>1, <1>2 DEF PhaseOK
<1>5. file[f] = "FileOpen" /\ thrown' = thrown
  BY <1>1, <1>2, <1>3, <1>4 DEF Validate, Types
<1>6. queue'["system"] = Append(queue["system"], b) /\ queue'["gpu"] = queue["gpu"]
      /\ DOMAIN queue' = {"system", "gpu"}
  BY <1>1, <1>2 DEF Types
<1>7. b \in BatchSet /\ b.file = f /\ b.reads = {Header} /\ b.event = <<f, "header">>
  BY <1>3, BatchIs DEF Owner, Event, Header
<1> HIDE DEF b, f
<1>8. \A g \in Files : file'[g] = IF g = f THEN "LoadingHeader" ELSE file[g]
  BY <1>1, <1>2 DEF Types
<1>9. Active' \subseteq Active
  BY <1>8 DEF Active, ActiveStates
<1>10. ContentOK'
  BY <1>2, <1>6, <1>9, FewerActive
<1>11. ArmedOK' /\ armed' \subseteq Event
  BY <1>1, <1>2, <1>3, <1>5, <1>8 DEF ArmedOK, GpuEvent, Types, Event
<1>12. QueueOK' /\ queue'["system"] \in Seq(BatchSet)
  <2>1. \A g \in Files : GpuEvent(g) \in armed \ signalled => GpuEvent(g) \in armed' \ signalled'
    BY <1>2 DEF GpuEvent
  <2>2. \A g \in Files : b.event # GpuEvent(g)
    BY <1>7 DEF GpuEvent
  <2> QED BY <1>3, <1>6, <1>7, <2>1, <2>2, SystemAppends
<1>13. Types'
  <2>1. "LoadingHeader" \in States
    BY DEF States
  <2> QED BY <1>1, <1>2, <1>3, <1>5, <1>6, <1>11, <1>12, <2>1 DEF Types
<1>14. PhaseOK'
  <2>1. IsInjective(ids')
    BY <1>3, <1>4 DEF IsInjective
  <2>2. \A i \in DOMAIN ids' : file'[ids'[i]] = "FileOpen"
    <3>1. ASSUME NEW i \in DOMAIN ids' PROVE ids'[i] # f /\ ids'[i] \in Files
      <4>1. i + 1 # 1 /\ i + 1 \in DOMAIN ids /\ ids'[i] = ids[i + 1]
        BY <1>3
      <4>2. ids[i + 1] # ids[1]
        BY <1>3, <1>4, <4>1 DEF IsInjective
      <4>3. ids[i + 1] \in Files
        BY <1>1, <4>1, LenProperties, ElementOfSeq DEF Types
      <4> QED BY <1>3, <4>1, <4>2, <4>3
    <3> QED BY <1>3, <1>4, <1>8, <3>1
  <2>3. loop' = "Add" /\ app' = "Idle" /\ manager' = "LoadingMetadata"
    BY <1>1, <1>2 DEF PhaseOK
  <2>4. Active' = {} /\ shown' = {}
    BY <1>1, <1>2, <1>9, <2>3 DEF PhaseOK
  <2> QED BY <2>1, <2>2, <2>3, <2>4 DEF PhaseOK
<1> QED BY <1>10, <1>11, <1>12, <1>13, <1>14 DEF BulkOK

\* Steps of the main thread that touch no file.
LEMMA MainKeeps ==
  ASSUME BulkOK, EndAdd \/ SkipFile \/ ShowSet \/ StopShowing
  PROVE  BulkOK'
<1>1. Types /\ ArmedOK /\ QueueOK /\ PhaseOK
  BY DEF BulkOK
<1>2. UNCHANGED <<file, places, data, armed, signalled, queue, heaps, thrown>>
  BY DEF EndAdd, SkipFile, ShowSet, StopShowing
<1>3. Active' = Active
  BY <1>2 DEF Active
<1>4. ContentOK' /\ ArmedOK' /\ QueueOK'
  BY <1>1, <1>2, <1>3, FewerActive, QueueStays DEF ArmedOK
<1>5. ids' \in Seq(Files) /\ shown' \subseteq Files
  <2>1. CASE ids' = Tail(ids) /\ ids # <<>> /\ shown' = shown
    BY <1>1, <2>1, TailIs DEF Types
  <2>2. CASE ids' = ids /\ (shown' = shown \/ shown' \subseteq Files)
    BY <1>1, <2>2 DEF Types
  <2> QED BY <2>1, <2>2 DEF EndAdd, SkipFile, Looping, ShowSet, StopShowing
<1>6. Types'
  BY <1>1, <1>2, <1>5 DEF Types
<1>7. PhaseOK'
  <2>1. CASE EndAdd
    BY <1>1, <1>2, <1>3, <2>1 DEF EndAdd, PhaseOK
  <2>2. CASE SkipFile
    BY <1>1, <1>2, <1>3, <2>2 DEF SkipFile, Looping, PhaseOK
  <2>3. CASE ShowSet
    <3>1. loop = "none" /\ app = "LoadingASet" /\ manager = "Loading" /\ ManagerAfter = "Loaded"
      BY <1>1, <2>3 DEF ShowSet, Updates, PhaseOK
    <3>2. AllLoaded
      BY <3>1 DEF ManagerAfter
    <3>3. \A f \in Files : file[f] \in {"MetadataReady", "ContentLoaded", "Error"}
      BY <1>1, <3>2 DEF AllLoaded, GetState, Types, States
    <3>4. /\ manager' = "Loaded" /\ app' = "ShowingASet" /\ loop' = "none" /\ ids' = ids
          /\ shown' = {f \in Files : file[f] = "ContentLoaded"}
      BY <2>3, <3>1 DEF ShowSet
    <3> QED BY <1>2, <3>3, <3>4 DEF PhaseOK, Begun
  <2>4. CASE StopShowing
    BY <1>1, <1>2, <1>3, <2>4 DEF StopShowing, Updates, PhaseOK
  <2> QED BY <2>1, <2>2, <2>3, <2>4
<1> QED BY <1>4, <1>6, <1>7 DEF BulkOK

\* The heaps are cleared when no file is active.
LEMMA SetNextSetKeeps ==
  ASSUME BulkOK, SetNextSet
  PROVE  BulkOK'
<1>1. Types /\ ArmedOK /\ QueueOK /\ ContentOK /\ PhaseOK
  BY DEF BulkOK
<1>2. /\ loop = "none" /\ app = "Idle" /\ ManagerAfter = "ReadyToLoad" /\ AskSizes
      /\ manager' = "ReadyToLoad" /\ loop' = "SetNextSet" /\ ids' \in Orders
      /\ heaps' = [k \in DOMAIN heaps |-> Clear(heaps[k])]
      /\ UNCHANGED <<file, places, data, armed, signalled, queue, app, shown>>
  BY DEF SetNextSet, Updates
<1>3. Active = {} /\ Active' = {}
  BY <1>1, <1>2 DEF PhaseOK, Active
<1>4. manager \in {"LoadingMetadata", "ReadyToLoad"}
  BY <1>1, <1>2 DEF PhaseOK
<1>5. \A f \in Files : file[f] \notin Begun
  <2>1. CASE manager = "ReadyToLoad"
    BY <1>1, <2>1 DEF PhaseOK
  <2>2. CASE manager = "LoadingMetadata"
    <3>1. AllMetadataReady
      BY <1>2, <2>2 DEF ManagerAfter
    <3> QED BY <3>1 DEF AllMetadataReady, GetState, Begun
  <2> QED BY <1>4, <2>1, <2>2
<1>6. \A f \in Files : file[f] \in {"MetadataReady", "Error"}
  BY <1>1, <1>3, <1>5 DEF Types, States, Begun, Active, ActiveStates
<1>7. thrown' = FALSE
  BY <1>1, <1>2, <1>6 DEF AskSizes, Types
<1>8. PlacesOK'
  BY <1>1, <1>2, <1>3 DEF ContentOK, PlacesOK
<1>9. ContentOK'
  BY <1>3, <1>8, NoneActive
<1>10. ASSUME NEW k \in Kinds PROVE heaps'[k] \in Seq(Heap)
  <2> DEFINE h == heaps[k]
  <2>1. h \in Seq(Heap) /\ heaps'[k] = Clear(h)
    BY <1>1, <1>2 DEF Types
  <2> HIDE DEF h
  <2>2. /\ Len(h) \in Nat /\ DOMAIN h = 1 .. Len(h)
        /\ \A i \in DOMAIN h : h[i] \in Heap
    BY <2>1, HeapsAre
  <2>3. Clear(h) \in [1 .. Len(h) -> Heap]
    BY <2>2 DEF Clear, Heap
  <2> QED BY <2>1, <2>2, <2>3, SeqDef
<1>11. Types'
  BY <1>1, <1>2, <1>7, <1>10, OrdersAssumption DEF Types
<1>12. ArmedOK' /\ QueueOK'
  BY <1>1, <1>2, QueueStays DEF ArmedOK
<1>13. PhaseOK'
  BY <1>1, <1>2, <1>5 DEF PhaseOK
<1> QED BY <1>9, <1>11, <1>12, <1>13 DEF BulkOK

\* What was shown gives up its places.
LEMMA UnloadSetKeeps ==
  ASSUME BulkOK, UnloadSet
  PROVE  BulkOK'
<1>1. Types /\ ArmedOK /\ QueueOK /\ ContentOK /\ PhaseOK
  BY DEF BulkOK
<1> DEFINE held == {f \in Files : file[f] # "Error"}
<1>2. /\ loop = "none" /\ app = "Unloading"
      /\ thrown' = (thrown \/ \E f \in held : file[f] \notin {"MetadataReady", "ContentLoaded"})
      /\ file' = [f \in Files |-> IF f \in held THEN "MetadataReady" ELSE file[f]]
      /\ places' = [f \in Files |-> IF f \in held THEN <<>> ELSE places[f]]
      /\ data' = [f \in Files |-> IF f \in held THEN <<>> ELSE data[f]]
      /\ shown' = {} /\ manager' = "ReadyToLoad" /\ app' = "Idle"
      /\ UNCHANGED <<armed, signalled, queue, heaps, loop, ids>>
  BY DEF UnloadSet, Updates
<1>3. \A f \in Files : file[f] \in {"MetadataReady", "ContentLoaded", "Error"}
  BY <1>1, <1>2 DEF PhaseOK
<1>4. thrown' = FALSE
  BY <1>1, <1>2, <1>3 DEF Types
<1>5. \A f \in Files : file'[f] \in {"MetadataReady", "Error"} /\ (file[f] = "Error" <=> file'[f] = "Error")
  BY <1>2, <1>3
<1>6. Active' = {}
  BY <1>5 DEF Active, ActiveStates
<1>7. PlacesOK'
  <2>1. DOMAIN <<>> = {} /\ Len(<<>>) = 0 /\ 1 .. 0 = {}
    BY EmptySeq
  <2> QED BY <1>1, <1>2, <1>6, <2>1 DEF ContentOK, PlacesOK
<1>8. ContentOK'
  BY <1>6, <1>7, NoneActive
<1>9. ArmedOK'
  BY <1>1, <1>2, <1>3, <1>5 DEF ArmedOK
<1>10. QueueOK'
  BY <1>2, QueueStays
<1>11. file' \in [Files -> States]
  BY <1>2, <1>5 DEF States
<1>12. Types'
  BY <1>1, <1>2, <1>4, <1>11 DEF Types
<1>13. PhaseOK'
  BY <1>2, <1>5, <1>6 DEF PhaseOK, Begun
<1> QED BY <1>8, <1>9, <1>10, <1>12, <1>13 DEF BulkOK

------------------------------------------------------------------------------
\* The queues.

\* The end of SetNextSet enqueues what has no reads.
LEMMA EndSetNextSetKeeps ==
  ASSUME BulkOK, EndSetNextSet
  PROVE  BulkOK'
<1> PICK b, s, t, n : /\ b = Batch(NoEntry, {}, NoEntry, LoadComplete)
                      /\ s = queue["gpu"] /\ t = Append(s, b) /\ n = Len(s) + 1
  OBVIOUS
<1>1. Types /\ ArmedOK /\ QueueOK /\ ContentOK /\ PhaseOK
  BY DEF BulkOK
<1>2. /\ loop = "SetNextSet" /\ loop' = "none" /\ manager' = "Loading" /\ app' = "LoadingASet"
      /\ queue' = [queue EXCEPT !["gpu"] = t]
      /\ UNCHANGED <<file, places, data, armed, signalled, heaps, ids, shown, thrown>>
  BY DEF EndSetNextSet
<1>3. b \in BatchSet /\ b.reads = {} /\ b.event = LoadComplete
  BY BatchIs DEF Owner
<1>4. /\ t \in Seq(BatchSet) /\ Len(s) \in Nat /\ DOMAIN s = 1 .. Len(s)
      /\ DOMAIN t = 1 .. n /\ t[n] = b
      /\ \A i \in DOMAIN s : t[i] = s[i]
      /\ \A i \in DOMAIN t : i \in DOMAIN s \/ i = n
  BY <1>1, <1>3, AppendIs DEF Types
<1>5. queue'["system"] = queue["system"] /\ queue'["gpu"] = t /\ DOMAIN queue' = {"system", "gpu"}
  BY <1>1, <1>2 DEF Types
<1>6. \A f \in Files : b.event # GpuEvent(f)
  BY <1>3 DEF GpuEvent, LoadComplete
<1>7. Active' = Active
  BY <1>2 DEF Active
<1>8. QueueOK'
  <2>1. \A i \in DOMAIN t : Marker(t[i]) \/ OfFile(t[i])'
    <3>1. \A i \in DOMAIN s : Marker(s[i]) \/ OfFile(s[i])'
      BY <1>1, <1>2 DEF QueueOK, OfFile
    <3> QED BY <1>3, <1>4, <3>1 DEF Marker
  <2>2. ASSUME NEW i \in DOMAIN t, NEW j \in DOMAIN t, t[i].event = t[j].event, i # j
        PROVE  t[i].event = LoadComplete
    <3>1. CASE i \in DOMAIN s /\ j \in DOMAIN s
      BY <1>1, <1>4, <2>2, <3>1 DEF QueueOK
    <3>2. CASE i = n \/ j = n
      BY <1>3, <1>4, <2>2, <3>2
    <3> QED BY <1>4, <3>1, <3>2
  <2> QED BY <1>1, <1>5, <2>1, <2>2 DEF QueueOK, Marker
<1>9. PlacesOK' /\ Within' /\ Apart'
  BY <1>1, <1>2, <1>7 DEF ContentOK, PlacesOK, Within, Apart, Inside
<1>10. LateApart'
  <2>1. SUFFICES ASSUME NEW f \in Active, NEW i \in DOMAIN t, Behind(f, i)',
                        NEW r \in t[i].reads, NEW k \in GpuReads(f)
                 PROVE  ~ Overlap(places[t[i].file][r], places[f][k])
    BY <1>2, <1>5, <1>7 DEF LateApart
  <2>2. i \in DOMAIN s /\ t[i] = s[i]
    BY <1>3, <1>4
  <2>3. Behind(f, i)
    BY <1>4, <1>5, <2>1 DEF Behind
  <2> QED BY <1>1, <2>1, <2>2, <2>3 DEF ContentOK, LateApart
<1>11. DataOK'
  <2>1. ASSUME NEW f, NEW k, UnderWay(f, k) PROVE UnderWay(f, k)'
    BY <1>4, <1>5, <2>1 DEF UnderWay
  <2> QED BY <1>1, <1>2, <1>7, <2>1 DEF ContentOK, DataOK
<1>12. Types' /\ ArmedOK'
  BY <1>1, <1>2, <1>4, <1>5 DEF Types, ArmedOK
<1>13. PhaseOK'
  BY <1>1, <1>2 DEF PhaseOK
<1> QED BY <1>8, <1>9, <1>10, <1>11, <1>12, <1>13 DEF BulkOK, ContentOK

\* Statuses and events come in order: the batch in front leaves the queue.
LEMMA SetEventKeeps ==
  ASSUME BulkOK, NEW q \in {"system", "gpu"}, SetEvent(q)
  PROVE  BulkOK'
<1> PICK s, t, b : s = queue[q] /\ t = Tail(s) /\ b = Head(s)
  OBVIOUS
<1>1. Types /\ ArmedOK /\ QueueOK /\ ContentOK /\ PhaseOK
  BY DEF BulkOK
<1>2. /\ s # <<>> /\ b.reads = {} /\ queue' = [queue EXCEPT ![q] = t]
      /\ signalled' = signalled \cup ({b.event} \ {LoadComplete})
      /\ UNCHANGED <<file, places, data, armed, heaps, manager, app, loop, ids, shown, thrown>>
  BY DEF SetEvent
<1>3. /\ t \in Seq(BatchSet) /\ Len(s) \in Nat /\ b = s[1] /\ 1 \in DOMAIN s
      /\ DOMAIN s = 1 .. Len(s) /\ DOMAIN t = 1 .. Len(s) - 1
      /\ \A i \in DOMAIN t : t[i] = s[i + 1] /\ i + 1 \in DOMAIN s /\ i \in Nat \ {0}
  BY <1>1, <1>2, TailIs DEF Types
<1>4. queue'[q] = t /\ DOMAIN queue' = {"system", "gpu"}
      /\ \A p \in {"system", "gpu"} \ {q} : queue'[p] = queue[p]
  BY <1>1, <1>2 DEF Types
<1>5. Active' = Active
  BY <1>2 DEF Active
<1>6. ASSUME NEW i \in DOMAIN queue'["gpu"]
      PROVE  (Marker(queue["gpu"][i]) \/ OfFile(queue["gpu"][i]))'
  <2>1. PICK j \in DOMAIN queue["gpu"] :
          queue'["gpu"][i] = queue["gpu"][j] /\ (q = "gpu" => j # 1)
    <3>1. CASE q = "gpu"
      <4>1. i \in DOMAIN t /\ i + 1 # 1
        BY <1>3, <1>4, <3>1
      <4> QED BY <1>3, <1>4, <3>1, <4>1
    <3>2. CASE q = "system"
      BY <1>4, <3>2
    <3> QED BY <3>1, <3>2
  <2> PICK x : x = queue["gpu"][j]
    OBVIOUS
  <2>2. Marker(x) \/ OfFile(x)
    BY <1>1 DEF QueueOK
  <2>3. CASE Marker(x)
    BY <2>1, <2>3 DEF Marker
  <2>4. CASE OfFile(x)
    <3>1. x.event # b.event
      <4>1. x.event # LoadComplete
        BY <2>4 DEF OfFile, GpuEvent, LoadComplete
      <4>2. CASE q = "gpu"
        BY <1>1, <1>3, <2>1, <4>1, <4>2 DEF QueueOK
      <4>3. CASE q = "system"
        BY <1>1, <1>3, <2>4, <4>3 DEF QueueOK, OfFile
      <4> QED BY <4>2, <4>3
    <3>2. x.event \in armed' \ signalled'
      BY <1>2, <2>4, <3>1 DEF OfFile
    <3> QED BY <2>1, <2>4, <3>2 DEF OfFile
  <2> QED BY <2>2, <2>3, <2>4
<1>7. CASE q = "system"
  <2>1. queue'["gpu"] = queue["gpu"] /\ queue'["system"] = t
    BY <1>4, <1>7
  <2>2. QueueOK'
    BY <1>1, <1>3, <1>6, <1>7, <2>1 DEF QueueOK, Marker
  <2>3. ContentOK'
    BY <1>2, <1>5, <2>1, FewerActive
  <2>4. Types' /\ ArmedOK' /\ PhaseOK'
    BY <1>1, <1>2, <1>3, <1>4, <1>5, <2>1 DEF Types, ArmedOK, PhaseOK
  <2> QED BY <2>2, <2>3, <2>4 DEF BulkOK
<1>8. CASE q = "gpu"
  <2>1. queue'["gpu"] = t /\ queue'["system"] = queue["system"] /\ s = queue["gpu"]
    BY <1>4, <1>8
  <2>2. QueueOK'
    <3>1. ASSUME NEW i \in DOMAIN t, NEW j \in DOMAIN t, t[i].event = t[j].event, i # j
          PROVE  t[i].event = LoadComplete
      <4>1. i + 1 # j + 1 /\ t[i] = s[i + 1] /\ t[j] = s[j + 1]
            /\ i + 1 \in DOMAIN s /\ j + 1 \in DOMAIN s
        BY <1>3, <3>1
      <4> QED BY <1>1, <2>1, <3>1, <4>1 DEF QueueOK
    <3> QED BY <1>1, <1>6, <2>1, <3>1 DEF QueueOK, Marker
  <2>3. PlacesOK' /\ Within' /\ Apart'
    BY <1>1, <1>2, <1>5 DEF ContentOK, PlacesOK, Within, Apart, Inside
  <2>4. LateApart'
    <3>1. SUFFICES ASSUME NEW f \in Active, NEW i \in DOMAIN t, Behind(f, i)',
                          NEW r \in t[i].reads, NEW k \in GpuReads(f)
                   PROVE  ~ Overlap(places[t[i].file][r], places[f][k])
      BY <1>2, <1>5, <2>1 DEF LateApart
    <3>2. i + 1 \in DOMAIN s /\ t[i] = s[i + 1] /\ i \in Nat \ {0}
      BY <1>3
    <3>3. Behind(f, i + 1)
      <4>1. SUFFICES ASSUME NEW j \in DOMAIN s, s[j].event = GpuEvent(f)
                     PROVE  j < i + 1
        BY <2>1 DEF Behind
      <4>2. CASE j = 1
        BY <3>2, <4>2
      <4>3. CASE j # 1
        <5>1. j - 1 \in DOMAIN t /\ (j - 1) + 1 = j
          BY <1>3, <4>3
        <5>2. t[j - 1] = s[j]
          BY <1>3, <5>1
        <5>3. j - 1 < i
          BY <2>1, <3>1, <4>1, <5>1, <5>2 DEF Behind
        <5> QED BY <1>3, <3>2, <5>3
      <4> QED BY <4>2, <4>3
    <3> QED BY <1>1, <2>1, <3>1, <3>2, <3>3 DEF ContentOK, LateApart
  <2>5. DataOK'
    <3>1. ASSUME NEW f \in Active, NEW k, UnderWay(f, k) PROVE UnderWay(f, k)'
      <4>1. PICK j \in DOMAIN s : s[j].event = GpuEvent(f) /\ k \in s[j].reads
        BY <2>1, <3>1 DEF UnderWay
      <4>2. j # 1
        BY <1>2, <1>3, <4>1
      <4>3. j - 1 \in DOMAIN t /\ (j - 1) + 1 = j
        BY <1>3, <4>2
      <4>4. t[j - 1] = s[j]
        BY <1>3, <4>3
      <4> QED BY <2>1, <4>1, <4>3, <4>4 DEF UnderWay
    <3> QED BY <1>1, <1>2, <1>5, <3>1 DEF ContentOK, DataOK
  <2>6. Types' /\ ArmedOK' /\ PhaseOK'
    BY <1>1, <1>2, <1>3, <1>4, <1>5, <2>1 DEF Types, ArmedOK, PhaseOK
  <2> QED BY <2>2, <2>3, <2>4, <2>5, <2>6 DEF BulkOK, ContentOK
<1> QED BY <1>7, <1>8


\* A read that ends is taken out of its batch, and nothing else of the queues
\* changes.
Shrinks(q, i, r) ==
  /\ queue'[q] \in Seq(BatchSet) /\ DOMAIN queue' = {"system", "gpu"}
  /\ DOMAIN queue'[q] = DOMAIN queue[q]
  /\ \A p \in {"system", "gpu"} \ {q} : queue'[p] = queue[p]
  /\ \A j \in DOMAIN queue[q] :
       /\ queue'[q][j].file = queue[q][j].file /\ queue'[q][j].event = queue[q][j].event
       /\ queue'[q][j].reads = IF j = i THEN queue[q][j].reads \ {r} ELSE queue[q][j].reads

LEMMA BatchShrinks ==
  ASSUME Types, NEW q \in {"system", "gpu"}, NEW i \in DOMAIN queue[q], NEW r, NEW ok,
         ReadEnds(q, i, r, ok)
  PROVE  Shrinks(q, i, r)
<1> PICK s, b : s = queue[q] /\ b = s[i]
  OBVIOUS
<1> DEFINE c == [b EXCEPT !.reads = @ \ {r}, !.ok = @ /\ ok]
           t == [s EXCEPT ![i] = c]
<1>1. s \in Seq(BatchSet) /\ DOMAIN s = 1 .. Len(s) /\ Len(s) \in Nat /\ b \in BatchSet
  <2>1. s \in Seq(BatchSet)
    BY DEF Types
  <2>2. DOMAIN s = 1 .. Len(s) /\ Len(s) \in Nat
    BY <2>1, LenProperties
  <2> QED BY <2>1, <2>2, ElementOfSeq
<1>2. c \in BatchSet /\ c.file = b.file /\ c.event = b.event /\ c.reads = b.reads \ {r}
  BY <1>1 DEF BatchSet
<1>3. queue' = [queue EXCEPT ![q] = t]
  BY DEF ReadEnds
<1> HIDE DEF c
<1>4. t \in Seq(BatchSet) /\ Len(t) = Len(s) /\ \A j \in 1 .. Len(s) : t[j] = IF j = i THEN c ELSE s[j]
  BY <1>1, <1>2, ExceptSeq
<1> HIDE DEF t
<1>5. DOMAIN t = DOMAIN s
  BY <1>1, <1>4, LenProperties
<1>6. queue'[q] = t /\ DOMAIN queue' = {"system", "gpu"}
      /\ \A p \in {"system", "gpu"} \ {q} : queue'[p] = queue[p]
  BY <1>3 DEF Types
<1> QED BY <1>1, <1>2, <1>4, <1>5, <1>6 DEF Shrinks

\* A read that ends writes into a place of an active file only if it is of that
\* file, or of one that failed.
LEMMA ReadEndsKeeps ==
  ASSUME BulkOK, NEW q \in {"system", "gpu"}, NEW i \in DOMAIN queue[q],
         NEW r \in queue[q][i].reads, NEW ok, ReadEnds(q, i, r, ok)
  PROVE  BulkOK'
<1>1. Types /\ ArmedOK /\ QueueOK /\ ContentOK /\ PhaseOK
  BY DEF BulkOK
<1> PICK f : f = queue[q][i].file
  OBVIOUS
<1> DEFINE Now(g, k) == IF <<g, k>> = <<f, r>> THEN "own"
                        ELSE IF ~ Overlap(places[f][r], places[g][k]) THEN data[g][k]
                        ELSE IF file[f] = "Error" THEN "stray" ELSE "other"
<1>2. /\ data' = IF r \notin GpuReads(f) THEN data
                 ELSE [g \in Files |-> [k \in DOMAIN data[g] |-> Now(g, k)]]
      /\ UNCHANGED <<file, places, armed, signalled, heaps, manager, app, loop, ids, shown, thrown>>
  BY DEF ReadEnds
<1> HIDE DEF Now
<1>3. /\ queue'[q] \in Seq(BatchSet) /\ DOMAIN queue' = {"system", "gpu"}
      /\ DOMAIN queue'[q] = DOMAIN queue[q]
      /\ \A p \in {"system", "gpu"} \ {q} : queue'[p] = queue[p]
      /\ \A j \in DOMAIN queue[q] :
           /\ queue'[q][j].file = queue[q][j].file /\ queue'[q][j].event = queue[q][j].event
           /\ queue'[q][j].reads = IF j = i THEN queue[q][j].reads \ {r} ELSE queue[q][j].reads
  <2>1. Shrinks(q, i, r)
    BY <1>1, BatchShrinks
  <2> QED BY <2>1 DEF Shrinks
<1>4. Active' = Active
  BY <1>2 DEF Active
<1>5. Types' /\ ArmedOK' /\ PhaseOK'
  BY <1>1, <1>2, <1>3, <1>4 DEF Types, ArmedOK, PhaseOK
<1>6. CASE q = "system"
  <2>1. f \in Files /\ r \in {Header, Metadata, CpuData}
    BY <1>1, <1>6 DEF QueueOK
  <2>2. r \notin GpuReads(f)
    BY <2>1, TexturesAre DEF Header, Metadata, CpuData
  <2>3. data' = data /\ queue'["gpu"] = queue["gpu"]
    BY <1>2, <1>3, <1>6, <2>2
  <2>4. ContentOK'
    BY <1>2, <1>4, <2>3, FewerActive
  <2>5. QueueOK'
    <3>1. ASSUME NEW j \in DOMAIN queue["gpu"]
          PROVE  (Marker(queue["gpu"][j]) \/ OfFile(queue["gpu"][j]))'
      <4>1. Marker(queue["gpu"][j]) \/ OfFile(queue["gpu"][j])
        BY <1>1 DEF QueueOK
      <4> QED BY <1>2, <2>3, <4>1 DEF Marker, OfFile
    <3>2. ASSUME NEW j \in DOMAIN queue["system"]
          PROVE  /\ queue'["system"][j].file \in Files
                 /\ queue'["system"][j].reads \subseteq {Header, Metadata, CpuData}
                 /\ \A g \in Files : queue'["system"][j].event # GpuEvent(g)
      <4>1. /\ queue["system"][j].file \in Files
            /\ queue["system"][j].reads \subseteq {Header, Metadata, CpuData}
            /\ \A g \in Files : queue["system"][j].event # GpuEvent(g)
        BY <1>1 DEF QueueOK
      <4> QED BY <1>3, <1>6, <4>1
    <3>3. DOMAIN queue'["system"] = DOMAIN queue["system"] /\ DOMAIN queue'["gpu"] = DOMAIN queue["gpu"]
      BY <1>3, <1>6, <2>3
    <3>4. \A j, l \in DOMAIN queue["gpu"] :
            queue'["gpu"][j].event = queue'["gpu"][l].event /\ j # l =>
              queue'["gpu"][j].event = LoadComplete
      BY <1>1, <2>3 DEF QueueOK
    <3> QED BY <3>1, <3>2, <3>3, <3>4 DEF QueueOK
  <2> QED BY <1>5, <2>4, <2>5 DEF BulkOK
<1>7. CASE q = "gpu"
  <2>1. queue'["system"] = queue["system"]
    BY <1>3, <1>7
  <2>2. QueueOK'
    <3>1. ASSUME NEW j \in DOMAIN queue["gpu"]
          PROVE  (Marker(queue["gpu"][j]) \/ OfFile(queue["gpu"][j]))'
      <4>1. Marker(queue["gpu"][j]) \/ OfFile(queue["gpu"][j])
        BY <1>1 DEF QueueOK
      <4> QED BY <1>2, <1>3, <1>7, <4>1 DEF Marker, OfFile
    <3>2. \A j, l \in DOMAIN queue["gpu"] :
            queue'["gpu"][j].event = queue'["gpu"][l].event /\ j # l =>
              queue'["gpu"][j].event = LoadComplete
      BY <1>1, <1>3, <1>7 DEF QueueOK
    <3>3. DOMAIN queue'["gpu"] = DOMAIN queue["gpu"]
      BY <1>3, <1>7
    <3>4. (\A j \in DOMAIN queue["system"] :
             LET b == queue["system"][j]
             IN /\ b.file \in Files /\ b.reads \subseteq {Header, Metadata, CpuData}
                /\ \A g \in Files : b.event # GpuEvent(g))'
      BY <1>1, <2>1 DEF QueueOK
    <3> QED BY <3>1, <3>2, <3>3, <3>4 DEF QueueOK
  <2>3. OfFile(queue["gpu"][i])
    BY <1>1, <1>7 DEF QueueOK, Marker
  <2>4. f \in Files /\ r \in GpuReads(f) /\ GpuEvent(f) \in armed
        /\ queue["gpu"][i].event = GpuEvent(f) /\ queue["gpu"][i].file = f
    BY <1>7, <2>3 DEF OfFile
  <2>5. file[f] = "Error" \/ f \in Active
    BY <1>1, <2>4 DEF ArmedOK, Active, ActiveStates
  <2>6. data' = [g \in Files |-> [k \in DOMAIN data[g] |-> Now(g, k)]]
    BY <1>2, <2>4
  <2>7. PlacesOK' /\ Within' /\ Apart'
    BY <1>1, <1>2, <1>4, <2>6 DEF ContentOK, PlacesOK, Within, Apart, Inside
  <2>8. LateApart'
    <3>1. \A g, j : Behind(g, j)' <=> Behind(g, j)
      BY <1>3, <1>7 DEF Behind
    <3>2. \A j \in DOMAIN queue["gpu"] :
            /\ queue'["gpu"][j].file = queue["gpu"][j].file
            /\ queue'["gpu"][j].reads \subseteq queue["gpu"][j].reads
      BY <1>3, <1>7
    <3>3. DOMAIN queue'["gpu"] = DOMAIN queue["gpu"] /\ places' = places
      BY <1>2, <1>3, <1>7
    <3>4. LateApart
      BY <1>1 DEF ContentOK
    <3> QED BY <1>4, <3>1, <3>2, <3>3, <3>4 DEF LateApart
  <2>9. ASSUME NEW g \in Active, NEW k \in GpuReads(g)
        PROVE  data'[g][k] \in {"own", "stray"} \/ (data'[g][k] = "nothing" /\ UnderWay(g, k)')
    <3>1. g \in Files /\ k \in DOMAIN data[g]
      BY <1>1, TexturesAre DEF Active, ContentOK, PlacesOK
    <3>2. data'[g][k] = Now(g, k)
      BY <2>6, <3>1
    <3>3. CASE <<g, k>> = <<f, r>>
      BY <3>2, <3>3 DEF Now
    <3>4. CASE <<g, k>> # <<f, r>> /\ Overlap(places[f][r], places[g][k])
      <4>1. file[f] = "Error"
        BY <1>1, <2>4, <2>5, <3>4 DEF ContentOK, Apart
      <4> QED BY <3>2, <3>4, <4>1 DEF Now
    <3>5. CASE <<g, k>> # <<f, r>> /\ ~ Overlap(places[f][r], places[g][k])
      <4>1. data'[g][k] = data[g][k]
        BY <3>2, <3>5 DEF Now
      <4>2. CASE data[g][k] = "nothing" /\ UnderWay(g, k)
        <5>1. PICK j \in DOMAIN queue["gpu"] :
                queue["gpu"][j].event = GpuEvent(g) /\ k \in queue["gpu"][j].reads
          BY <4>2 DEF UnderWay
        <5>2. k \in queue'["gpu"][j].reads
          <6>1. j = i => g = f
            BY <2>4, <5>1 DEF GpuEvent
          <6> QED BY <1>3, <1>7, <3>5, <5>1, <6>1
        <5>3. UnderWay(g, k)'
          BY <1>3, <1>7, <5>1, <5>2 DEF UnderWay
        <5> QED BY <4>1, <4>2, <5>3
      <4> QED BY <1>1, <4>1, <4>2 DEF ContentOK, DataOK
    <3> QED BY <3>3, <3>4, <3>5
  <2>10. DataOK'
    BY <1>4, <2>9 DEF DataOK
  <2> QED BY <1>5, <2>2, <2>7, <2>8, <2>10 DEF BulkOK, ContentOK
<1> QED BY <1>6, <1>7

------------------------------------------------------------------------------
\* The start of a load.

SamePlace(q, p, kind) == q.kind = kind /\ q.heap = p.heap /\ q.offs = p.offs /\ q.size = p.size

\* What a file is given, as its places.
Of(kind, at) ==
  [i \in DOMAIN at |->
     [kind |-> kind, heap |-> at[i].heap, offs |-> at[i].offs, size |-> at[i].size]]

\* They are the places it was given, with the heaps' kind.
LEMMA OfKind ==
  ASSUME NEW at \in Seq(Place), NEW n \in Nat, Len(at) = n, NEW kind
  PROVE  /\ DOMAIN at = 1 .. n /\ DOMAIN Of(kind, at) = 1 .. n
         /\ \A k \in 1 .. n : SamePlace(Of(kind, at)[k], at[k], kind)
<1>1. DOMAIN at = 1 .. n
  BY LenProperties
<1> QED BY <1>1 DEF Of, SamePlace

\* Any function over the first numbers is a sequence.
LEMMA IsSequence ==
  ASSUME NEW u, NEW n \in Nat, DOMAIN u = 1 .. n, u = [i \in 1 .. n |-> u[i]],
         NEW S, \A i \in 1 .. n : u[i] \in S
  PROVE  u \in Seq(S) /\ Len(u) = n
<1>1. u \in [1 .. n -> S]
  <2>1. [i \in 1 .. n |-> u[i]] \in [1 .. n -> S]
    OBVIOUS
  <2> QED BY <2>1
<1>2. u \in Seq(S)
  BY <1>1, SeqDef
<1>3. DOMAIN u = 1 .. Len(u) /\ Len(u) \in Nat
  BY <1>2, LenProperties
<1> QED BY <1>2, <1>3

\* The places of the textures come before that of the buffer.
LEMMA PlacesJoin ==
  ASSUME NEW at \in Seq(Place), NEW bt \in Seq(Place), NEW n \in Nat, Len(at) = n, Len(bt) = 1
  PROVE  LET p == Of(Textures, at) \o Of(Buffers, bt)
         IN /\ DOMAIN p = 1 .. n + 1 /\ Len(p) = n + 1
            /\ \A k \in 1 .. n : SamePlace(p[k], at[k], Textures)
            /\ SamePlace(p[n + 1], bt[1], Buffers)
<1> DEFINE u == Of(Textures, at)
           v == Of(Buffers, bt)
           S == {u[i] : i \in 1 .. n} \cup {v[i] : i \in 1 .. 1}
           p == u \o v
<1>1. DOMAIN at = 1 .. n /\ DOMAIN u = 1 .. n /\ \A k \in 1 .. n : SamePlace(u[k], at[k], Textures)
  BY OfKind
<1>2. DOMAIN bt = 1 .. 1 /\ DOMAIN v = 1 .. 1 /\ SamePlace(v[1], bt[1], Buffers)
  BY OfKind
<1>3. u = [i \in 1 .. n |-> u[i]] /\ v = [i \in 1 .. 1 |-> v[i]]
  BY <1>1, <1>2 DEF Of
<1> HIDE DEF u, v
<1>4. (\A i \in 1 .. n : u[i] \in S) /\ (\A i \in 1 .. 1 : v[i] \in S)
  OBVIOUS
<1> HIDE DEF S
<1>5. u \in Seq(S) /\ Len(u) = n
  BY <1>1, <1>3, <1>4, IsSequence
<1>6. v \in Seq(S) /\ Len(v) = 1
  BY <1>2, <1>3, <1>4, IsSequence
<1>7. /\ p \in Seq(S) /\ Len(p) = n + 1
      /\ \A i \in 1 .. n + 1 : p[i] = IF i <= n THEN u[i] ELSE v[i - n]
  <2>1. /\ u \o v \in Seq(S) /\ Len(u \o v) = Len(u) + Len(v)
        /\ \A i \in 1 .. Len(u) + Len(v) : (u \o v)[i] = IF i <= Len(u) THEN u[i] ELSE v[i - Len(u)]
    BY <1>5, <1>6, ConcatProperties
  <2> QED BY <1>5, <1>6, <2>1
<1> HIDE DEF p
<1>8. DOMAIN p = 1 .. n + 1
  BY <1>7, LenProperties
<1>9. \A k \in 1 .. n : p[k] = u[k]
  BY <1>7
<1>10. p[n + 1] = v[1]
  <2>1. n + 1 \in 1 .. n + 1 /\ ~ (n + 1 <= n) /\ (n + 1) - n = 1
    OBVIOUS
  <2> QED BY <1>7, <2>1
<1> QED BY <1>1, <1>2, <1>7, <1>8, <1>9, <1>10 DEF p, u, v

\* The new places of a file: beyond what the heaps hold, within what they hold
\* then, and apart.
Fresh(p, n, h, g) ==
  /\ DOMAIN p = 1 .. n + 1 /\ Len(p) = n + 1
  /\ \A k \in 1 .. n + 1 : p[k].kind \in Kinds /\ TakenFrom(p[k], h[p[k].kind], g[p[k].kind])
  /\ \A k, l \in 1 .. n + 1 : k < l /\ p[k].kind = p[l].kind => InFront(p[k], p[l])

\* What TextureRoom and BufferRoom give is fresh.
LEMMA RoomIsFresh ==
  ASSUME NEW h, NEW g, NEW n \in Nat, NEW tr, NEW br, NEW p,
         Allocated(h[Textures], tr, n), tr.ok, Allocated(h[Buffers], br, 1), br.ok,
         g[Textures] = tr.heaps, g[Buffers] = br.heaps,
         p = Of(Textures, tr.at) \o Of(Buffers, br.at)
  PROVE  Fresh(p, n, h, g)
<1>1. tr.at \in Seq(Place) /\ br.at \in Seq(Place) /\ Len(tr.at) = n /\ Len(br.at) = 1
  BY DEF Allocated
<1>2. /\ DOMAIN p = 1 .. n + 1 /\ Len(p) = n + 1
      /\ \A k \in 1 .. n : SamePlace(p[k], tr.at[k], Textures)
      /\ SamePlace(p[n + 1], br.at[1], Buffers)
  BY <1>1, PlacesJoin
<1>3. DOMAIN tr.at = 1 .. n /\ DOMAIN br.at = 1 .. 1
  BY <1>1, LenProperties
<1>4. ASSUME NEW k \in 1 .. n
      PROVE  p[k].kind = Textures /\ TakenFrom(p[k], h[Textures], g[Textures])
  <2>1. TakenFrom(tr.at[k], h[Textures], g[Textures])
    BY <1>3 DEF Allocated
  <2> QED BY <1>2, <2>1 DEF SamePlace, TakenFrom
<1>5. p[n + 1].kind = Buffers /\ TakenFrom(p[n + 1], h[Buffers], g[Buffers])
  <2>1. TakenFrom(br.at[1], h[Buffers], g[Buffers])
    BY <1>3 DEF Allocated
  <2> QED BY <1>2, <2>1 DEF SamePlace, TakenFrom
<1>6. \A k \in 1 .. n + 1 : k \in 1 .. n \/ k = n + 1
  OBVIOUS
<1>7. \A k \in 1 .. n + 1 : p[k].kind \in Kinds /\ TakenFrom(p[k], h[p[k].kind], g[p[k].kind])
  BY <1>4, <1>5, <1>6 DEF Kinds
<1>8. ASSUME NEW k \in 1 .. n + 1, NEW l \in 1 .. n + 1, k < l, p[k].kind = p[l].kind
      PROVE  InFront(p[k], p[l])
  <2>1. k \in 1 .. n
    BY <1>8
  <2>2. l \in 1 .. n
    BY <1>4, <1>5, <1>6, <1>8, <2>1 DEF Textures, Buffers
  <2>3. InFront(tr.at[k], tr.at[l])
    BY <1>3, <1>8, <2>1, <2>2 DEF Allocated
  <2> QED BY <1>2, <2>1, <2>2, <2>3 DEF SamePlace, InFront
<1> QED BY <1>2, <1>7, <1>8 DEF Fresh


\* A new place has nothing in common with one in use.
LEMMA OldAndNew ==
  ASSUME Types, NEW q, Inside(q), NEW p, NEW g, p.kind \in Kinds,
         TakenFrom(p, heaps[p.kind], g[p.kind])
  PROVE  ~ Overlap(p, q) /\ ~ Overlap(q, p)
<1>1. SUFFICES ASSUME p.kind = q.kind, p.heap = q.heap
               PROVE  ~ (p.offs < q.offs + q.size)
  BY DEF Overlap
<1> PICK m : m = heaps[q.kind][q.heap].next
  OBVIOUS
<1>2. m \in Nat /\ q.offs + q.size <= m /\ q.offs \in Nat /\ q.size \in Nat
  BY HeapsAre DEF Inside, Types
<1>3. m <= p.offs /\ p.offs \in Nat
  BY <1>1 DEF TakenFrom
<1> QED BY <1>2, <1>3

\* The places of one file are apart.
LEMMA NewAreApart ==
  ASSUME NEW p, NEW n \in Nat, NEW h, NEW g, Fresh(p, n, h, g),
         NEW k \in 1 .. n + 1, NEW l \in 1 .. n + 1, k # l
  PROVE  ~ Overlap(p[k], p[l])
<1>1. SUFFICES ASSUME p[k].kind = p[l].kind, p[k].heap = p[l].heap
               PROVE  \/ ~ (p[l].offs < p[k].offs + p[k].size)
                      \/ ~ (p[k].offs < p[l].offs + p[l].size)
  BY DEF Overlap
<1>2. /\ p[k].offs \in Nat /\ p[k].size \in Nat /\ p[l].offs \in Nat /\ p[l].size \in Nat
  BY DEF Fresh, TakenFrom
<1>3. CASE k < l
  <2>1. InFront(p[k], p[l])
    BY <1>1, <1>3 DEF Fresh
  <2> QED BY <1>1, <1>2, <2>1 DEF InFront
<1>4. CASE l < k
  <2>1. InFront(p[l], p[k])
    BY <1>1, <1>4 DEF Fresh
  <2> QED BY <1>1, <1>2, <2>1 DEF InFront
<1> QED BY <1>3, <1>4

\* What the heaps hold more of does not move what is in use.
LEMMA InsideGrown ==
  ASSUME Types, NEW q, Inside(q), NEW g,
         \A k \in Kinds : g[k] \in Seq(Heap) /\ Grown(heaps[k], g[k]), heaps' = g
  PROVE  Inside(q)'
<1>1. q.kind \in Kinds /\ q.heap \in DOMAIN heaps[q.kind] /\ q.offs \in Nat /\ q.size \in Nat
  BY DEF Inside
<1>2. /\ DOMAIN g[q.kind] = DOMAIN heaps[q.kind]
      /\ heaps[q.kind][q.heap].next <= g[q.kind][q.heap].next
  BY <1>1 DEF Grown
<1>3. heaps[q.kind][q.heap].next \in Nat /\ g[q.kind][q.heap].next \in Nat
  BY <1>1, <1>2, HeapsAre DEF Types
<1>4. q.offs + q.size <= heaps[q.kind][q.heap].next
  BY DEF Inside
<1>5. q.offs + q.size <= g[q.kind][q.heap].next
  BY <1>1, <1>2, <1>3, <1>4
<1> QED BY <1>1, <1>2, <1>5 DEF Inside

\* A file becomes active: its places are new, and its batch is the last.
LEMMA StartContentLoadKeeps ==
  ASSUME BulkOK, StartContentLoad
  PROVE  BulkOK'
<1>1. Types /\ ArmedOK /\ QueueOK /\ ContentOK /\ PhaseOK
  BY DEF BulkOK
<1> PICK f, n, tr, br, p, h, g :
      /\ f = Head(ids) /\ n = Len(Archive[f].textures)
      /\ tr = TextureRoom(f) /\ br = BufferRoom(f)
      /\ p = Of(Textures, tr.at) \o Of(Buffers, br.at)
      /\ h = heaps /\ g = [heaps EXCEPT ![Textures] = tr.heaps, ![Buffers] = br.heaps]
  OBVIOUS
<1> PICK b, c, s, t, m :
      /\ b = Batch(f, {CpuData}, "CpuData", <<f, "cpuData">>)
      /\ c = Batch(f, GpuReads(f), "GpuData", GpuEvent(f))
      /\ s = queue["gpu"] /\ t = Append(s, c) /\ m = Len(s) + 1
  OBVIOUS
<1>2. /\ loop = "SetNextSet" /\ ids # <<>> /\ MayStart(f) /\ Validate(f, {"MetadataReady"})
      /\ heaps' = g /\ places' = [places EXCEPT ![f] = p]
      /\ data' = [data EXCEPT ![f] = [k \in GpuReads(f) |-> "nothing"]]
      /\ armed' = armed \cup {<<f, "cpuData">>, GpuEvent(f)}
      /\ signalled' = signalled \ {<<f, "cpuData">>, GpuEvent(f)}
      /\ queue' = [system |-> Append(queue["system"], b), gpu |-> t]
      /\ file' = [file EXCEPT ![f] = "LoadingContent"] /\ ids' = Tail(ids)
      /\ UNCHANGED <<manager, app, loop, shown>>
  BY DEF StartContentLoad, Looping, Arm, GpuEvent, Of
<1>3. f \in Files /\ ids' \in Seq(Files)
  BY <1>1, <1>2, TailIs DEF Types
<1>4. file[f] = "MetadataReady" /\ thrown' = thrown
  <2>1. GetState(file[f]) = "ReadyToLoadContent"
    BY <1>2 DEF MayStart
  <2>2. file[f] = "MetadataReady"
    BY <1>1, <1>3, <2>1 DEF GetState, Types, States
  <2> QED BY <1>1, <1>2, <2>2 DEF Validate, Types
<1>5. /\ GpuReads(f) = 1 .. n + 1 /\ n \in Nat /\ GpuReads(f) \subseteq Int
      /\ Archive[f].textures \in Seq(Nat)
  BY <1>3, TexturesAre
<1>6. /\ Allocated(h[Textures], tr, n) /\ tr.ok /\ Allocated(h[Buffers], br, 1) /\ br.ok
      /\ h[Textures] \in Seq(Heap) /\ h[Buffers] \in Seq(Heap)
  <2>1. h[Textures] \in Seq(Heap) /\ h[Buffers] \in Seq(Heap)
    BY <1>1 DEF Types, Kinds
  <2>2. Allocated(h[Textures], tr, n)
    BY <1>5, <2>1, AllocationsApart DEF TextureRoom
  <2>3. Allocated(h[Buffers], br, 1)
    <3>1. Archive[f].buffer \in Nat
      BY <1>3, SizesAssumption
    <3>2. <<Archive[f].buffer>> \in Seq(Nat) /\ Len(<<Archive[f].buffer>>) = 1
      BY <3>1
    <3>3. br = Allocate(h[Buffers], <<Archive[f].buffer>>)
      BY DEF BufferRoom
    <3> QED BY <2>1, <3>2, <3>3, AllocationsApart
  <2> QED BY <1>2, <2>1, <2>2, <2>3 DEF MayStart
<1>7. g[Textures] = tr.heaps /\ g[Buffers] = br.heaps /\ DOMAIN g = Kinds
  BY <1>1 DEF Types, Kinds, Textures, Buffers
<1>8. Fresh(p, n, h, g)
  BY <1>5, <1>6, <1>7, RoomIsFresh
<1>9. \A k \in Kinds : g[k] \in Seq(Heap) /\ Grown(heaps[k], g[k])
  BY <1>6, <1>7 DEF Kinds, Allocated
<1>10. \A e \in Files : file'[e] = IF e = f THEN "LoadingContent" ELSE file[e]
  BY <1>1, <1>2 DEF Types
<1>11. f \notin Active /\ Active' = Active \cup {f} /\ Active \subseteq Files
  BY <1>3, <1>4, <1>10 DEF Active, ActiveStates
<1>12. \A e : <<f, e>> \notin armed \/ e \notin {"header", "metadata", "cpuData", "gpuData"}
  BY <1>1, <1>3, <1>4 DEF ArmedOK, GpuEvent
<1>13. \A i \in DOMAIN s : s[i].event # GpuEvent(f)
  BY <1>3, <1>12, Quiet DEF GpuEvent
<1>14. c \in BatchSet /\ c.file = f /\ c.reads = GpuReads(f) /\ c.event = GpuEvent(f)
  BY <1>3, <1>5, BatchIs DEF Owner, Event, GpuEvent
<1>15. b \in BatchSet /\ b.file = f /\ b.reads = {CpuData} /\ b.event = <<f, "cpuData">>
  BY <1>3, BatchIs DEF Owner, Event, CpuData
<1>16. /\ t \in Seq(BatchSet) /\ Len(s) \in Nat /\ DOMAIN s = 1 .. Len(s)
       /\ DOMAIN t = 1 .. m /\ t[m] = c
       /\ \A i \in DOMAIN s : t[i] = s[i]
       /\ \A i \in DOMAIN t : i \in DOMAIN s \/ i = m
  BY <1>1, <1>14, AppendIs DEF Types
<1>17. queue'["system"] = Append(queue["system"], b) /\ queue'["gpu"] = t
       /\ DOMAIN queue' = {"system", "gpu"}
  BY <1>2
<1>18. PlacesOK'
  <2>1. \A e \in Files : /\ places'[e] = IF e = f THEN p ELSE places[e]
                         /\ data'[e] = IF e = f THEN [k \in GpuReads(f) |-> "nothing"] ELSE data[e]
    BY <1>1, <1>2 DEF ContentOK, PlacesOK
  <2>2. DOMAIN p = 1 .. n + 1 /\ Len(p) = n + 1
    BY <1>8 DEF Fresh
  <2>3. DOMAIN places' = Files /\ DOMAIN data' = Files
    BY <1>1, <1>2 DEF ContentOK, PlacesOK
  <2>4. PlacesOK
    BY <1>1 DEF ContentOK
  <2> QED BY <1>5, <1>11, <2>1, <2>2, <2>3, <2>4 DEF PlacesOK
<1>19. /\ \A e \in Active : places'[e] = places[e] /\ data'[e] = data[e] /\ e # f /\ e \in Files
       /\ places'[f] = p /\ data'[f] = [k \in GpuReads(f) |-> "nothing"]
  BY <1>1, <1>2, <1>3, <1>11 DEF ContentOK, PlacesOK
<1>20. \A k \in GpuReads(f) : p[k].kind \in Kinds /\ TakenFrom(p[k], heaps[p[k].kind], g[p[k].kind])
  BY <1>5, <1>8 DEF Fresh
<1>22. Within'
  <2>1. ASSUME NEW e \in Active, NEW k \in GpuReads(e) PROVE Inside(places[e][k])'
    <3>1. PICK q : q = places[e][k]
      OBVIOUS
    <3>2. Inside(q)
      BY <1>1, <3>1 DEF ContentOK, Within
    <3>3. Inside(q)'
      BY <1>1, <1>2, <1>9, <3>2, InsideGrown
    <3>4. places'[e][k] = q
      BY <1>19, <3>1
    <3> QED BY <3>3, <3>4 DEF Inside
  <2>2. ASSUME NEW k \in GpuReads(f) PROVE Inside(places[f][k])'
    <3>1. p[k].kind \in Kinds /\ TakenFrom(p[k], heaps[p[k].kind], g[p[k].kind])
      BY <1>20
    <3>2. DOMAIN g[p[k].kind] = DOMAIN heaps[p[k].kind]
      BY <1>9, <3>1 DEF Grown
    <3>3. places'[f][k] = p[k]
      BY <1>19
    <3> QED BY <1>2, <3>1, <3>2, <3>3 DEF Inside, TakenFrom
  <2> QED BY <1>11, <2>1, <2>2 DEF Within
<1>23. ASSUME NEW e \in Active, NEW k \in GpuReads(e), NEW l \in GpuReads(f)
       PROVE  ~ Overlap(places[e][k], p[l]) /\ ~ Overlap(p[l], places[e][k])
  <2>1. Inside(places[e][k])
    BY <1>1 DEF ContentOK, Within
  <2>2. p[l].kind \in Kinds /\ TakenFrom(p[l], heaps[p[l].kind], g[p[l].kind])
    BY <1>20
  <2> QED BY <1>1, <2>1, <2>2, OldAndNew
<1>24. \A k, l \in GpuReads(f) : k # l => ~ Overlap(p[k], p[l])
  BY <1>5, <1>8, NewAreApart
<1>25. Apart'
  <2>1. SUFFICES ASSUME NEW d \in Active \cup {f}, NEW e \in Active \cup {f},
                        NEW k \in GpuReads(d), NEW l \in GpuReads(e), <<d, k>> # <<e, l>>
                 PROVE  ~ Overlap(places'[d][k], places'[e][l])
    BY <1>11 DEF Apart, Overlap
  <2>2. CASE d \in Active /\ e \in Active
    <3>1. ~ Overlap(places[d][k], places[e][l])
      BY <1>1, <2>1, <2>2 DEF ContentOK, Apart
    <3> QED BY <1>19, <2>2, <3>1
  <2>3. CASE d = f /\ e \in Active
    BY <1>19, <1>23, <2>3
  <2>4. CASE d \in Active /\ e = f
    BY <1>19, <1>23, <2>4
  <2>5. CASE d = f /\ e = f
    BY <1>19, <1>24, <2>1, <2>5
  <2> QED BY <2>2, <2>3, <2>4, <2>5
<1>26. LateApart'
  <2>1. SUFFICES ASSUME NEW e \in Active \cup {f}, NEW i \in DOMAIN t, Behind(e, i)',
                        NEW r \in t[i].reads, NEW k \in GpuReads(e)
                 PROVE  ~ Overlap(places'[t[i].file][r], places'[e][k])
    BY <1>11, <1>17 DEF LateApart
  <2>2. e # f
    <3>1. SUFFICES ASSUME e = f PROVE FALSE
      OBVIOUS
    <3>2. m \in DOMAIN t /\ t[m].event = GpuEvent(f)
      BY <1>14, <1>16
    <3>3. m < i
      BY <1>17, <2>1, <3>1, <3>2 DEF Behind
    <3> QED BY <1>16, <3>3
  <2>3. e \in Active
    BY <2>2
  <2>4. CASE i = m
    <3>1. t[i].file = f /\ r \in GpuReads(f)
      BY <1>14, <1>16, <2>4
    <3> QED BY <1>19, <1>23, <2>3, <3>1
  <2>5. CASE i \in DOMAIN s
    <3>1. t[i] = s[i] /\ t[i].event # GpuEvent(f)
      BY <1>13, <1>16, <2>5
    <3>2. OfFile(s[i])
      BY <1>1, <2>5, <3>1 DEF QueueOK, Marker
    <3>3. s[i].file \in Files /\ s[i].file # f
      BY <3>1, <3>2 DEF OfFile
    <3>4. places'[s[i].file] = places[s[i].file]
      BY <1>1, <1>2, <3>3 DEF ContentOK, PlacesOK
    <3>5. Behind(e, i)
      BY <1>16, <1>17, <2>1 DEF Behind
    <3>6. ~ Overlap(places[s[i].file][r], places[e][k])
      BY <1>1, <2>3, <2>5, <3>1, <3>5 DEF ContentOK, LateApart
    <3> QED BY <1>19, <2>3, <3>1, <3>4, <3>6
  <2> QED BY <1>16, <2>4, <2>5
<1>27. DataOK'
  <2>1. ASSUME NEW k \in GpuReads(f) PROVE data'[f][k] = "nothing" /\ UnderWay(f, k)'
    <3>1. m \in DOMAIN t
      BY <1>16
    <3>2. t[m].event = GpuEvent(f) /\ k \in t[m].reads
      BY <1>14, <1>16
    <3>3. data'[f][k] = "nothing"
      BY <1>19
    <3> QED BY <1>17, <3>1, <3>2, <3>3 DEF UnderWay
  <2>2. ASSUME NEW e \in Active, NEW k \in GpuReads(e)
        PROVE  data'[e][k] \in {"own", "stray"} \/ (data'[e][k] = "nothing" /\ UnderWay(e, k)')
    <3>1. UnderWay(e, k) => UnderWay(e, k)'
      BY <1>16, <1>17 DEF UnderWay
    <3>2. data[e][k] \in {"own", "stray"} \/ (data[e][k] = "nothing" /\ UnderWay(e, k))
      BY <1>1 DEF ContentOK, DataOK
    <3> QED BY <1>19, <3>1, <3>2
  <2> QED BY <1>11, <2>1, <2>2 DEF DataOK
<1>28. QueueOK'
  <2>1. ASSUME NEW i \in DOMAIN t PROVE (Marker(queue["gpu"][i]) \/ OfFile(queue["gpu"][i]))'
    <3>1. CASE i = m
      BY <1>2, <1>3, <1>14, <1>16, <1>17, <3>1 DEF OfFile
    <3>2. CASE i \in DOMAIN s
      <4>1. Marker(s[i]) \/ OfFile(s[i])
        BY <1>1, <3>2 DEF QueueOK
      <4>2. s[i].event # GpuEvent(f) /\ t[i] = s[i]
        BY <1>13, <1>16, <3>2
      <4>3. OfFile(s[i]) => s[i].event # <<f, "cpuData">>
        BY DEF OfFile, GpuEvent
      <4> QED BY <1>2, <1>17, <4>1, <4>2, <4>3 DEF Marker, OfFile
    <3> QED BY <1>16, <3>1, <3>2
  <2>2. ASSUME NEW i \in DOMAIN t, NEW j \in DOMAIN t, t[i].event = t[j].event, i # j
        PROVE  t[i].event = LoadComplete
    <3>1. CASE i \in DOMAIN s /\ j \in DOMAIN s
      BY <1>1, <1>16, <2>2, <3>1 DEF QueueOK
    <3>2. CASE i = m \/ j = m
      BY <1>13, <1>14, <1>16, <2>2, <3>2
    <3> QED BY <1>16, <3>1, <3>2
  <2>3. (\A i \in DOMAIN queue["system"] :
           LET x == queue["system"][i]
           IN /\ x.file \in Files /\ x.reads \subseteq {Header, Metadata, CpuData}
              /\ \A e \in Files : x.event # GpuEvent(e))'
    <3> PICK u, v : u = queue["system"] /\ v = Append(u, b)
      OBVIOUS
    <3>1. /\ \A i \in DOMAIN u : v[i] = u[i]
          /\ \A i \in DOMAIN v : i \in DOMAIN u \/ v[i] = b
      BY <1>1, <1>15, AppendIs DEF Types
    <3>2. \A e \in Files : b.event # GpuEvent(e)
      BY <1>15 DEF GpuEvent
    <3>3. ASSUME NEW i \in DOMAIN u
          PROVE  /\ u[i].file \in Files /\ u[i].reads \subseteq {Header, Metadata, CpuData}
                 /\ \A e \in Files : u[i].event # GpuEvent(e)
      BY <1>1 DEF QueueOK
    <3>4. ASSUME NEW i \in DOMAIN v
          PROVE  /\ v[i].file \in Files /\ v[i].reads \subseteq {Header, Metadata, CpuData}
                 /\ \A e \in Files : v[i].event # GpuEvent(e)
      BY <1>3, <1>15, <3>1, <3>2, <3>3
    <3>5. queue'["system"] = v
      BY <1>17
    <3> QED BY <3>4, <3>5
  <2> QED BY <1>17, <2>1, <2>2, <2>3 DEF QueueOK
<1>29. ArmedOK' /\ armed' \subseteq Event
  <2>1. armed' \subseteq Event
    BY <1>1, <1>2, <1>3 DEF Types, Event, GpuEvent
  <2>2. ASSUME NEW e \in Files \ {f}, NEW x PROVE <<e, x>> \in armed' => <<e, x>> \in armed
    BY <1>2 DEF GpuEvent
  <2>3. ArmedOK
    BY <1>1
  <2> QED BY <1>2, <1>10, <1>12, <2>1, <2>2, <2>3 DEF ArmedOK, GpuEvent
<1>30. Types'
  <2>1. Append(queue["system"], b) \in Seq(BatchSet)
    BY <1>1, <1>15, AppendProperties DEF Types
  <2>2. "LoadingContent" \in States
    BY DEF States
  <2> QED BY <1>1, <1>2, <1>3, <1>4, <1>7, <1>9, <1>16, <1>17, <1>29, <2>1, <2>2 DEF Types
<1>31. PhaseOK'
  <2>1. loop = "SetNextSet" /\ app = "Idle" /\ manager = "ReadyToLoad"
    BY <1>1, <1>2 DEF PhaseOK
  <2>2. shown = {}
    BY <1>1, <2>1 DEF PhaseOK
  <2>3. \A e \in Files : file'[e] \notin Begun
    BY <1>1, <1>10, <2>1 DEF PhaseOK, Begun
  <2> QED BY <1>2, <2>1, <2>2, <2>3 DEF PhaseOK
<1> QED BY <1>18, <1>22, <1>25, <1>26, <1>27, <1>28, <1>29, <1>30, <1>31 DEF BulkOK, ContentOK

------------------------------------------------------------------------------
\* Every step.

\* The steps of the loader alone.
LEMMA BulkSame ==
  ASSUME BulkOK, UNCHANGED bulkVars
  PROVE  BulkOK'
<1>1. UNCHANGED <<file, places, data, armed, signalled, queue, heaps, manager, app, loop, ids,
                  shown, thrown>>
  BY DEF bulkVars
<1>2. Types /\ ArmedOK /\ QueueOK /\ PhaseOK
  BY DEF BulkOK
<1>3. Active' = Active
  BY <1>1 DEF Active
<1>4. ContentOK' /\ QueueOK'
  BY <1>1, <1>3, FewerActive, QueueStays
<1>5. Types' /\ ArmedOK' /\ PhaseOK'
  BY <1>1, <1>2, <1>3 DEF Types, ArmedOK, PhaseOK
<1> QED BY <1>4, <1>5 DEF BulkOK

\* The steps that are not the loader's.
LEMMA LoaderSame ==
  ASSUME LoaderOK, UNCHANGED loaderVars
  PROVE  LoaderOK'
BY DEF LoaderOK, loaderVars

\* What is read is a request that the loader can be given.
LEMMA ReadsAreRequests ==
  ASSUME Types, NEW q \in {"system", "gpu"}, NEW i \in DOMAIN queue[q], NEW r \in queue[q][i].reads
  PROVE  <<queue[q][i].file, r>> \in Requests
<1> PICK s, b : s = queue[q] /\ b = s[i]
  OBVIOUS
<1>1. s \in Seq(BatchSet)
  BY DEF Types
<1>2. DOMAIN s = 1 .. Len(s)
  BY <1>1, LenProperties
<1>3. b \in BatchSet
  BY <1>1, <1>2, ElementOfSeq
<1>4. b.file \in Owner /\ b.reads \subseteq Int
  BY <1>3 DEF BatchSet
<1> QED BY <1>4 DEF Requests

\* It holds at the start.
LEMMA InitIInv == Init => IInv
<1>1. ASSUME Init PROVE BulkOK
  BY <1>1, InitBulkOK
<1>2. ASSUME Init PROVE LoaderOK
  BY <1>2, LoaderInitOK DEF Init
<1> QED BY <1>1, <1>2 DEF IInv

\* Every step keeps it.
LEMMA NextKeeps ==
  ASSUME IInv, [Next]_vars
  PROVE  IInv'
<1>1. BulkOK /\ LoaderOK /\ Types
  BY DEF IInv, BulkOK
<1>2. CASE Main
  <2>1. LoaderOK'
    <3>1. UNCHANGED loaderVars
      BY <1>2 DEF Main, Add, EndAdd, SkipFile, StartContentLoad, EndSetNextSet, SetNextSet,
                  ShowSet, StopShowing, UnloadSet
    <3> QED BY <1>1, <3>1, LoaderSame
  <2>2. BulkOK'
    BY <1>1, <1>2, AddKeeps, MainKeeps, StartContentLoadKeeps, EndSetNextSetKeeps,
       SetNextSetKeeps, UnloadSetKeeps DEF Main
  <2> QED BY <2>1, <2>2 DEF IInv
<1>3. CASE Handlers
  <2>1. PICK f \in Files : \/ OnHeaderLoaded(f) \/ OnCpuMetadataLoaded(f)
                           \/ OnCpuDataLoaded(f) \/ OnGpuDataLoaded(f)
    BY <1>3 DEF Handlers
  <2>2. UNCHANGED loaderVars
    BY <2>1 DEF OnHeaderLoaded, OnCpuMetadataLoaded, OnCpuDataLoaded, OnGpuDataLoaded
  <2>3. LoaderOK'
    BY <1>1, <2>2, LoaderSame
  <2>4. BulkOK'
    BY <1>1, <2>1, OnHeaderLoadedKeeps, OnCpuMetadataLoadedKeeps, OnCpuDataLoadedKeeps,
       OnGpuDataLoadedKeeps
  <2> QED BY <2>3, <2>4 DEF IInv
<1>4. CASE DirectStorage
  <2>1. PICK q \in {"system", "gpu"} :
          \/ SetEvent(q)
          \/ \E i \in DOMAIN queue[q] : \E r \in queue[q][i].reads :
               ReadCompressed(q, i, r) \/ \E ok \in BOOLEAN : Read(q, i, r, ok)
    BY <1>4 DEF DirectStorage
  <2>2. CASE SetEvent(q)
    <3>1. UNCHANGED loaderVars
      BY <2>2 DEF SetEvent
    <3> QED BY <1>1, <2>2, <3>1, SetEventKeeps, LoaderSame DEF IInv
  <2>3. ASSUME NEW i \in DOMAIN queue[q], NEW r \in queue[q][i].reads, ReadCompressed(q, i, r)
        PROVE  IInv'
    <3>1. QueueRequest(<<queue[q][i].file, r>>) /\ UNCHANGED bulkVars
      BY <2>3 DEF ReadCompressed
    <3>2. <<queue[q][i].file, r>> \in Requests
      BY <1>1, ReadsAreRequests
    <3> QED BY <1>1, <3>1, <3>2, RequestKeeps, BulkSame DEF IInv
  <2>4. ASSUME NEW i \in DOMAIN queue[q], NEW r \in queue[q][i].reads, NEW ok, Read(q, i, r, ok)
        PROVE  IInv'
    <3>1. ReadEnds(q, i, r, ok) /\ UNCHANGED loaderVars
      BY <2>4 DEF Read
    <3> QED BY <1>1, <3>1, ReadEndsKeeps, LoaderSame DEF IInv
  <2> QED BY <2>1, <2>2, <2>3, <2>4
<1>5. CASE Decompression
  <2>1. CASE LoaderStep /\ UNCHANGED bulkVars
    BY <1>1, <2>1, LoaderStepKeeps, BulkSame DEF IInv
  <2>2. ASSUME NEW q \in {"system", "gpu"}, NEW i \in DOMAIN queue[q], NEW r \in queue[q][i].reads,
               NEW ok, SetRequestResult(q, i, r, ok)
        PROVE  IInv'
    <3>1. EndWork(<<queue[q][i].file, r>>) /\ ReadEnds(q, i, r, ok)
      BY <2>2 DEF SetRequestResult
    <3>2. <<queue[q][i].file, r>> \in Requests
      BY <1>1, ReadsAreRequests
    <3> QED BY <1>1, <3>1, <3>2, RequestKeeps, ReadEndsKeeps DEF IInv
  <2> QED BY <1>5, <2>1, <2>2 DEF Decompression
<1>6. CASE UNCHANGED vars
  <2>1. UNCHANGED bulkVars /\ UNCHANGED loaderVars
    BY <1>6 DEF vars
  <2> QED BY <1>1, <2>1, BulkSame, LoaderSame DEF IInv
<1> QED BY <1>2, <1>3, <1>4, <1>5, <1>6 DEF Next, NothingNew

\* So it holds always.
LEMMA Invariant == Spec => []IInv
<1>1. IInv /\ [Next]_vars => IInv'
  BY NextKeeps
<1> QED BY InitIInv, <1>1, PTL DEF Spec

\* The states of the files, the manager and the demo are among those the code
\* names, a file has all of its places or none, and no heap holds more than its
\* size (MarcFile, MarcFileManager, MultiHeap).
THEOREM TypeCorrect == Spec => []TypeOK
<1>1. IInv => TypeOK
  BY IInvImpliesTypeOK
<1> QED BY Invariant, <1>1, PTL

\* ValidateState never throws, in whatever order the handlers and the main thread
\* come, and a work item always finds a request (DecompressionWork).
THEOREM NoCallFails == Spec => []NothingFails
<1>1. IInv => NothingFails
  BY IInvImpliesNothingFails
<1> QED BY Invariant, <1>1, PTL

\* The places of all files that load or are loaded lie within what their heaps
\* hold, and no two of them have a byte in common (MultiHeap, TryStartLoad).
THEOREM PlacesApart == Spec => [](Within /\ Apart)
<1>1. IInv => Within /\ Apart
  BY DEF IInv, BulkOK, ContentOK
<1> QED BY Invariant, <1>1, PTL

\* What is drawn has settled: no read that is still under way goes to the places
\* of its models, and what another file wrote there is of one that failed.
THEOREM ModelsSettled == Spec => []ShownSettled
<1>1. IInv => ShownSettled
  BY IInvImpliesShownSettled
<1> QED BY Invariant, <1>1, PTL

\* No file has failed while its own reads to the GPU were under way.
NoLateReads ==
  \A i \in DOMAIN queue["gpu"] :
    queue["gpu"][i].reads # {} => file[queue["gpu"][i].file] # "Error"

NoStray == \A f \in Files : \A k \in DOMAIN data[f] : data[f][k] # "stray"

\* A read that ends leaves nothing stray if its file is in good order.
LEMMA ReadIsNotStray ==
  ASSUME IInv, NoStray, NoLateReads, NEW q \in {"system", "gpu"}, NEW i \in DOMAIN queue[q],
         NEW r \in queue[q][i].reads, NEW ok, ReadEnds(q, i, r, ok)
  PROVE  NoStray'
<1> DEFINE f == queue[q][i].file
           Now(g, k) == IF <<g, k>> = <<f, r>> THEN "own"
                        ELSE IF ~ Overlap(places[f][r], places[g][k]) THEN data[g][k]
                        ELSE IF file[f] = "Error" THEN "stray" ELSE "other"
<1>1. data' = IF r \notin GpuReads(f) THEN data
              ELSE [g \in Files |-> [k \in DOMAIN data[g] |-> Now(g, k)]]
  BY DEF ReadEnds
<1>2. CASE r \notin GpuReads(f)
  BY <1>1, <1>2 DEF NoStray
<1>3. CASE r \in GpuReads(f)
  <2>1. q = "gpu"
    <3>1. SUFFICES ASSUME q = "system" PROVE FALSE
      OBVIOUS
    <3>2. r \in {Header, Metadata, CpuData}
      BY <3>1 DEF IInv, BulkOK, QueueOK
    <3>3. \A k \in GpuReads(f) : k \in Int /\ k >= 1
      BY DEF GpuReads
    <3> QED BY <1>3, <3>2, <3>3 DEF Header, Metadata, CpuData
  <2>2. file[f] # "Error"
    BY <2>1 DEF NoLateReads
  <2>3. data' = [g \in Files |-> [k \in DOMAIN data[g] |-> Now(g, k)]]
    BY <1>1, <1>3
  <2>4. ASSUME NEW g \in Files, NEW k \in DOMAIN data'[g]
        PROVE  data'[g][k] # "stray"
    <3>1. k \in DOMAIN data[g] /\ data'[g][k] = Now(g, k)
      BY <2>3
    <3>2. data[g][k] # "stray"
      BY <3>1 DEF NoStray
    <3> QED BY <2>2, <3>1, <3>2
  <2> QED BY <2>4 DEF NoStray
<1> QED BY <1>2, <1>3

\* Nor does anything else.
LEMMA NoStrayKept == IInv /\ NoLateReads /\ NoStray /\ [Next]_vars => NoStray'
<1>1. SUFFICES ASSUME IInv, NoLateReads, NoStray, [Next]_vars PROVE NoStray'
  OBVIOUS
<1>2. CASE UNCHANGED data
  BY <1>1, <1>2 DEF NoStray
<1>3. CASE UnloadSet
  <2>1. data' = [f \in Files |-> IF file[f] # "Error" THEN <<>> ELSE data[f]]
    <3>1. \A f \in Files : f \in {g \in Files : file[g] # "Error"} <=> file[f] # "Error"
      OBVIOUS
    <3> QED BY <1>3, <3>1 DEF UnloadSet
  <2> QED BY <1>1, <2>1 DEF NoStray
<1>4. CASE StartContentLoad
  <2>1. data' = [data EXCEPT ![Head(ids)] = [k \in GpuReads(Head(ids)) |-> "nothing"]]
    BY <1>4 DEF StartContentLoad
  <2>2. DOMAIN data = Files
    BY <1>1 DEF IInv, BulkOK, ContentOK, PlacesOK
  <2> QED BY <1>1, <2>1, <2>2 DEF NoStray
<1>5. CASE Main
  <2>1. CASE Add \/ EndAdd \/ SkipFile \/ EndSetNextSet \/ SetNextSet \/ ShowSet \/ StopShowing
    BY <2>1, <1>2 DEF Add, EndAdd, SkipFile, EndSetNextSet, SetNextSet, ShowSet, StopShowing
  <2> QED BY <1>5, <2>1, <1>3, <1>4 DEF Main
<1>6. CASE NothingNew
  BY <1>6, <1>2 DEF NothingNew, vars, bulkVars
<1>7. CASE DirectStorage
  <2>1. PICK q \in {"system", "gpu"} :
          \/ SetEvent(q)
          \/ \E i \in DOMAIN queue[q] : \E r \in queue[q][i].reads :
               ReadCompressed(q, i, r) \/ \E ok \in BOOLEAN : Read(q, i, r, ok)
    BY <1>7 DEF DirectStorage
  <2>2. CASE SetEvent(q)
    BY <2>2, <1>2 DEF SetEvent
  <2>3. ASSUME NEW i \in DOMAIN queue[q], NEW r \in queue[q][i].reads, ReadCompressed(q, i, r)
        PROVE  NoStray'
    BY <2>3, <1>2 DEF ReadCompressed, bulkVars
  <2>4. ASSUME NEW i \in DOMAIN queue[q], NEW r \in queue[q][i].reads, NEW ok, Read(q, i, r, ok)
        PROVE  NoStray'
    <3>1. ReadEnds(q, i, r, ok)
      BY <2>4 DEF Read
    <3> QED BY <1>1, <3>1, ReadIsNotStray
  <2> QED BY <2>1, <2>2, <2>3, <2>4
<1>8. CASE Decompression
  <2>1. CASE LoaderStep /\ UNCHANGED bulkVars
    BY <2>1, <1>2 DEF bulkVars
  <2>2. ASSUME NEW q \in {"system", "gpu"}, NEW i \in DOMAIN queue[q], NEW r \in queue[q][i].reads,
               NEW ok, SetRequestResult(q, i, r, ok)
        PROVE  NoStray'
    <3>1. ReadEnds(q, i, r, ok)
      BY <2>2 DEF SetRequestResult
    <3> QED BY <1>1, <3>1, ReadIsNotStray
  <2> QED BY <1>8, <2>1, <2>2 DEF Decompression
<1>9. CASE Handlers
  <2>1. PICK f \in Files : \/ OnHeaderLoaded(f) \/ OnCpuMetadataLoaded(f)
                           \/ OnCpuDataLoaded(f) \/ OnGpuDataLoaded(f)
    BY <1>9 DEF Handlers
  <2> QED BY <2>1, <1>2 DEF OnHeaderLoaded, OnCpuMetadataLoaded, OnCpuDataLoaded, OnGpuDataLoaded
<1>10. CASE UNCHANGED vars
  BY <1>10, <1>2 DEF vars, bulkVars
<1> QED BY <1>1, <1>5, <1>6, <1>7, <1>8, <1>9, <1>10 DEF Next

\* The late read of a failed file is the only thing that can spoil a model: where
\* no file fails while its reads are under way, every model that is drawn has all
\* of its own data (OnAllDataLoaded), set after set.
THEOREM ModelsIntact == Spec /\ []NoLateReads => []ShownIntact
<1>1. Init => NoStray
  BY DEF Init, NoStray
<1>2. IInv /\ NoLateReads /\ NoStray /\ [Next]_vars => NoStray'
  BY NoStrayKept
<1>3. IInv /\ NoStray => ShownIntact
  <2> SUFFICES ASSUME IInv, NoStray, NEW f \in shown, NEW k \in DOMAIN places[f]
               PROVE  data[f][k] = "own"
    BY DEF ShownIntact
  <2>1. data[f][k] \in {"own", "stray"}
    BY IInvImpliesShownSettled DEF ShownSettled
  <2>2. f \in Files /\ k \in DOMAIN data[f]
    BY DEF IInv, BulkOK, Types, ContentOK, PlacesOK
  <2> QED BY <2>1, <2>2 DEF NoStray
<1> QED BY Invariant, <1>1, <1>2, <1>3, PTL DEF Spec

=============================================================================
