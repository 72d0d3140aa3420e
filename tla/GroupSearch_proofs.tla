------------------------- MODULE GroupSearch_proofs -------------------------
(***************************************************************************)
(* Proof that the binary search of the kernels finds the slot its caller   *)
(* means, over any sorted prefixes.  The search is a recursive function:   *)
(* that it exists, and every other induction here and in the modules that  *)
(* extend this one, rests on the least element of a set of numbers.  So do *)
(* the sums over finite sets.  Then what the kernels that have one lane    *)
(* for each element share: the lanes of a wave, and propagation in a tree  *)
(* over them.                                                              *)
(***************************************************************************)
EXTENDS GroupSearch, FiniteSetTheorems, TLAPS

Below == {ss \in Nat \X Nat : ss[1] < ss[2]}

\* The order of the natural numbers is well founded.
LEMMA BelowWF == IsWellFoundedOn(Below, Nat)
BY NatLessThanWellFounded DEF OpToRel, Below

\* Every set of natural numbers that is not empty has a least element.
LEMMA Least ==
  ASSUME NEW T \in SUBSET Nat, T # {}
  PROVE  \E n \in T : \A m \in T : n <= m
<1>1. T \subseteq Nat
  OBVIOUS
<1>2. PICK x \in T : \A y \in T : ~ (<<y, x>> \in Below)
  BY <1>1, BelowWF, WFMin, Zenon
<1>3. ASSUME NEW y \in T PROVE x <= y
  <2>1. x \in Nat /\ y \in Nat
    BY <1>1
  <2>2. ~ (y < x)
    BY <1>2, <2>1 DEF Below
  <2> QED BY <2>1, <2>2
<1> QED BY <1>3

\* The step of the search: what a range is answered by, given the answers of
\* the shorter ones.
SearchStep(count, right, f, p) ==
  LET next == p[1] + p[2] \div 2
  IN IF p[2] <= 1 THEN p[1]
     ELSE f[<<IF next \in right THEN next ELSE p[1], p[2] - p[2] \div 2>>]

\* The ranges of at most n slots.
Upto(count, n) == {p \in Ranges(count) : p[2] <= n}

Answers(count, right, n, f) ==
  f = [p \in Upto(count, n) |-> SearchStep(count, right, f, p)]

\* The range a search goes on with is one of those of the slots, and shorter.
LEMMA HalfIsShorter ==
  ASSUME NEW count \in Nat, NEW right, NEW p \in Ranges(count), p[2] > 1
  PROVE  LET next == p[1] + p[2] \div 2
             q == <<IF next \in right THEN next ELSE p[1], p[2] - p[2] \div 2>>
         IN q \in Ranges(count) /\ q[2] < p[2] /\ q[2] >= 1
<1>1. p[1] \in Nat /\ p[2] \in Nat /\ p[1] + p[2] <= count
  BY DEF Ranges
<1>2. p[2] \div 2 \in Nat /\ p[2] \div 2 >= 1 /\ p[2] \div 2 < p[2]
  BY <1>1
<1> QED BY <1>1, <1>2 DEF Ranges

LEMMA AnswersExist ==
  ASSUME NEW count \in Nat, NEW right, NEW n \in 0 .. count
  PROVE  \E f : Answers(count, right, n, f)
<1> DEFINE Bad == {k \in 0 .. count : ~ \E f : Answers(count, right, k, f)}
<1>1. SUFFICES ASSUME Bad # {} PROVE FALSE
  OBVIOUS
<1>2. PICK k \in Bad : \A j \in Bad : k <= j
  <2>1. Bad \in SUBSET Nat
    OBVIOUS
  <2> QED BY <1>1, <2>1, Least
<1>3. k \in 0 .. count /\ ~ \E f : Answers(count, right, k, f)
  OBVIOUS
<1> HIDE DEF Bad
<1>4. CASE k = 0
  <2> DEFINE f == [p \in Upto(count, 0) |-> p[1]]
  <2>1. ASSUME NEW p \in Upto(count, 0) PROVE SearchStep(count, right, f, p) = p[1]
    BY DEF Upto, Ranges, SearchStep
  <2>2. Answers(count, right, 0, f)
    BY <2>1 DEF Answers
  <2> QED BY <1>3, <1>4, <2>2
<1>5. CASE k > 0
  <2>1. PICK g : Answers(count, right, k - 1, g)
    BY <1>2, <1>3, <1>5 DEF Bad
  <2> DEFINE f == [p \in Upto(count, k) |-> SearchStep(count, right, g, p)]
  <2>2. ASSUME NEW p \in Upto(count, k)
        PROVE  SearchStep(count, right, f, p) = SearchStep(count, right, g, p)
    <3>1. CASE p[2] <= 1
      BY <3>1 DEF SearchStep
    <3>2. CASE p[2] > 1
      <4> DEFINE next == p[1] + p[2] \div 2
                 q == <<IF next \in right THEN next ELSE p[1], p[2] - p[2] \div 2>>
      <4>1. p \in Ranges(count) /\ p[2] <= k /\ p[2] \in Nat
        BY DEF Upto, Ranges
      <4>2. q \in Ranges(count) /\ q[2] < p[2] /\ q[2] \in Nat
        BY <3>2, <4>1, HalfIsShorter DEF Ranges
      <4>3. q \in Upto(count, k - 1) /\ q \in Upto(count, k)
        BY <4>1, <4>2, <1>3 DEF Upto
      <4>4. g[q] = SearchStep(count, right, g, q)
        BY <2>1, <4>3 DEF Answers
      <4>5. f[q] = g[q]
        BY <4>3, <4>4
      <4>6. SearchStep(count, right, f, p) = f[q] /\ SearchStep(count, right, g, p) = g[q]
        BY <3>2, <4>1 DEF SearchStep
      <4> QED BY <4>5, <4>6
    <3> QED BY <3>1, <3>2 DEF Upto, Ranges
  <2>3. Answers(count, right, k, f)
    BY <2>2 DEF Answers
  <2> QED BY <1>3, <2>3
<1> QED BY <1>3, <1>4, <1>5

\* The search is the function its definition asks for.
LEMMA BisectUnfolds ==
  ASSUME NEW count \in Nat, NEW right
  PROVE  \E f : /\ \A p \in Ranges(count) : f[p] = SearchStep(count, right, f, p)
                /\ Bisect(count, right) = f[<<0, count>>]
<1> DEFINE F(f) == f = [p \in Ranges(count) |->
                          LET next == p[1] + p[2] \div 2
                          IN IF p[2] <= 1 THEN p[1]
                             ELSE f[<<IF next \in right THEN next ELSE p[1],
                                      p[2] - p[2] \div 2>>]]
           from == CHOOSE f : F(f)
<1>1. Ranges(count) = Upto(count, count)
  BY DEF Ranges, Upto
<1>2. \E f : F(f)
  <2>1. PICK f : Answers(count, right, count, f)
    BY AnswersExist
  <2>2. F(f)
    BY <1>1, <2>1 DEF Answers, SearchStep
  <2> QED BY <2>2
<1> HIDE DEF F
<1>3. F(from)
  BY <1>2, Zenon
<1>4. Bisect(count, right) = from[<<0, count>>]
  BY DEF Bisect, F
<1> HIDE DEF from
<1>5. \A p \in Ranges(count) : from[p] = SearchStep(count, right, from, p)
  BY <1>3 DEF SearchStep, F
<1> QED BY <1>4, <1>5

\* What a search over count slots is to find.
Found(count, right, r) ==
  /\ r \in 0 .. count - 1
  /\ r = 0 \/ r \in right
  /\ r + 1 = count \/ r + 1 \notin right

\* The loop ends at the last of the slots that the test sends upwards, if those
\* come before all others.
LEMMA BisectFinds ==
  ASSUME NEW count \in Nat, count > 0, NEW right \in SUBSET (1 .. count - 1),
         \A i, j \in 1 .. count - 1 : i < j /\ j \in right => i \in right
  PROVE  Found(count, right, Bisect(count, right))
<1>1. PICK f : /\ \A p \in Ranges(count) : f[p] = SearchStep(count, right, f, p)
               /\ Bisect(count, right) = f[<<0, count>>]
  BY BisectUnfolds
<1> DEFINE Open(p) == /\ p \in Ranges(count) /\ p[2] >= 1
                      /\ p[1] = 0 \/ p[1] \in right
                      /\ p[1] + p[2] = count \/ p[1] + p[2] \notin right
           Bad == {n \in 1 .. count : \E p : Open(p) /\ p[2] = n /\ ~ Found(count, right, f[p])}
<1>2. Bad = {}
  <2>1. SUFFICES ASSUME Bad # {} PROVE FALSE
    OBVIOUS
  <2>2. PICK n \in Bad : \A k \in Bad : n <= k
    <3>1. Bad \in SUBSET Nat
      OBVIOUS
    <3> QED BY <2>1, <3>1, Least
  <2>3. PICK p : Open(p) /\ p[2] = n /\ ~ Found(count, right, f[p])
    OBVIOUS
  <2>4. p[1] \in Nat /\ p[2] \in Nat /\ p[1] + p[2] <= count /\ n \in 1 .. count
    BY <2>3 DEF Ranges
  <2>5. CASE p[2] <= 1
    <3>1. f[p] = p[1]
      BY <1>1, <2>3, <2>5 DEF SearchStep
    <3> QED BY <2>3, <2>4, <2>5, <3>1 DEF Found
  <2>6. CASE p[2] > 1
    <3> DEFINE half == p[2] \div 2
               next == p[1] + half
               q == <<IF next \in right THEN next ELSE p[1], p[2] - half>>
    <3>1. half \in Nat /\ half >= 1 /\ half < p[2] /\ half <= p[2] - half /\ p[2] - half <= half + 1
      BY <2>4, <2>6
    <3>2. q \in Ranges(count) /\ q[2] < p[2] /\ q[2] >= 1
      BY <2>3, <2>6, HalfIsShorter
    <3>3. f[p] = f[q]
      BY <1>1, <2>3, <2>6 DEF SearchStep
    <3>4. Open(q)
      <4>1. CASE next \in right
        <5>1. q[1] = next /\ q[1] + q[2] = p[1] + p[2]
          BY <4>1, <3>1, <2>4
        <5> QED BY <5>1, <3>2, <2>3, <4>1
      <4>2. CASE next \notin right
        <5>1. q[1] = p[1] /\ q[1] + q[2] = p[1] + (p[2] - half)
          BY <4>2, <3>1, <2>4
        <5>2. p[1] + (p[2] - half) \in {next, next + 1} /\ next \in 1 .. count - 1
          BY <3>1, <2>4
        <5>3. q[1] + q[2] \notin right
          BY <5>1, <5>2, <4>2
        <5> QED BY <5>1, <5>3, <3>2, <2>3
      <4> QED BY <4>1, <4>2
    <3>5. q[2] \in Bad
      BY <3>2, <3>3, <3>4, <2>3, <2>4
    <3> QED BY <3>2, <3>5, <2>2, <2>3, <2>4
  <2> QED BY <2>4, <2>5, <2>6
<1>3. Open(<<0, count>>)
  BY DEF Ranges
<1>4. ~ (count \in Bad)
  BY <1>2
<1>5. Found(count, right, f[<<0, count>>])
  BY <1>3, <1>4
<1> QED BY <1>1, <1>5

\* A binary search over sorted prefixes that begin with zero finds the last of
\* those that are not above x (zstdgpu_BinarySearch).
THEOREM BinarySearchFinds ==
  ASSUME NEW count \in Nat, count > 0, NEW prefix \in [0 .. count - 1 -> Nat], NEW x \in Nat,
         prefix[0] <= x, \A i, j \in 0 .. count - 1 : i <= j => prefix[i] <= prefix[j]
  PROVE  LET r == BinarySearch(prefix, count, x)
         IN r \in 0 .. count - 1 /\ prefix[r] <= x /\ (r + 1 < count => x < prefix[r + 1])
<1> DEFINE right == {k \in 1 .. count - 1 : prefix[k] <= x}
           r == BinarySearch(prefix, count, x)
<1>1. Found(count, right, r)
  <2>1. \A i, j \in 1 .. count - 1 : i < j /\ j \in right => i \in right
    <3> SUFFICES ASSUME NEW i \in 1 .. count - 1, NEW j \in 1 .. count - 1, i < j, j \in right
                 PROVE  i \in right
      OBVIOUS
    <3>1. i \in 0 .. count - 1 /\ j \in 0 .. count - 1 /\ i <= j
      OBVIOUS
    <3>2. prefix[i] \in Nat /\ prefix[j] \in Nat /\ prefix[i] <= prefix[j] /\ prefix[j] <= x
      BY <3>1
    <3> QED BY <3>2
  <2>2. right \in SUBSET (1 .. count - 1)
    OBVIOUS
  <2>3. r = Bisect(count, right)
    BY DEF BinarySearch
  <2> HIDE DEF right, r
  <2> QED BY <2>1, <2>2, <2>3, BisectFinds
<1>2. r \in 0 .. count - 1
  BY <1>1 DEF Found
<1>3. prefix[r] <= x
  BY <1>1 DEF Found
<1>4. ASSUME r + 1 < count PROVE x < prefix[r + 1]
  <2> HIDE DEF r
  <2>1. r + 1 \in 1 .. count - 1 /\ prefix[r + 1] \in Nat
    BY <1>2, <1>4
  <2>2. r + 1 \notin right
    BY <1>1, <1>4, <1>2 DEF Found
  <2> QED BY <2>1, <2>2
<1> QED BY <1>2, <1>3, <1>4

\* A search over the inclusive sums of group counts finds the one slot whose
\* groups the group is among.
LEMMA SlotOfGroupFinds ==
  ASSUME NEW count \in Nat, count > 0, NEW ends \in [0 .. count - 1 -> Nat],
         \A i, j \in 0 .. count - 1 : i <= j => ends[i] <= ends[j],
         NEW g \in Nat, g < ends[count - 1], NEW s \in 0 .. count - 1
  PROVE  /\ SlotOfGroup(ends, count, g) \in 0 .. count - 1
         /\ SlotOfGroup(ends, count, g) = s <=> g < ends[s] /\ (s > 0 => ends[s - 1] <= g)
<1> DEFINE right == {m \in 1 .. count - 1 : ends[m - 1] <= g}
           r == SlotOfGroup(ends, count, g)
<1>1. Found(count, right, r)
  <2>1. \A i, j \in 1 .. count - 1 : i < j /\ j \in right => i \in right
    <3> SUFFICES ASSUME NEW i \in 1 .. count - 1, NEW j \in 1 .. count - 1, i < j, j \in right
                 PROVE  i \in right
      OBVIOUS
    <3>1. i - 1 \in 0 .. count - 1 /\ j - 1 \in 0 .. count - 1 /\ i - 1 <= j - 1
      OBVIOUS
    <3>2. ends[i - 1] \in Nat /\ ends[j - 1] \in Nat /\ ends[i - 1] <= ends[j - 1] /\ ends[j - 1] <= g
      BY <3>1
    <3> QED BY <3>2
  <2>2. right \in SUBSET (1 .. count - 1)
    OBVIOUS
  <2>3. r = Bisect(count, right)
    BY DEF SlotOfGroup
  <2> HIDE DEF right, r
  <2> QED BY <2>1, <2>2, <2>3, BisectFinds
<1> HIDE DEF r
<1>2. r \in 0 .. count - 1 /\ (r > 0 => ends[r - 1] <= g)
  BY <1>1 DEF Found
<1>3. g < ends[r]
  <2>1. CASE r + 1 = count
    BY <1>2, <2>1
  <2>2. CASE r + 1 # count
    <3>1. r + 1 \in 1 .. count - 1 /\ r + 1 \notin right /\ (r + 1) - 1 = r /\ ends[r] \in Nat
      BY <1>1, <1>2, <2>2 DEF Found
    <3> QED BY <3>1
  <2> QED BY <2>1, <2>2
<1>4. ASSUME g < ends[s], s > 0 => ends[s - 1] <= g PROVE r = s
  <2>1. ASSUME NEW i \in 0 .. count - 1, NEW j \in 0 .. count - 1, i < j, g < ends[i],
               j > 0 => ends[j - 1] <= g
        PROVE  FALSE
    <3>1. j > 0 /\ j - 1 \in 0 .. count - 1 /\ i <= j - 1
      BY <2>1
    <3>2. ends[i] <= ends[j - 1] /\ ends[i] \in Nat /\ ends[j - 1] \in Nat
      BY <3>1
    <3> QED BY <2>1, <3>1, <3>2
  <2>2. ~ (r < s) /\ ~ (s < r)
    BY <1>2, <1>3, <1>4, <2>1
  <2> QED BY <1>2, <2>2
<1> QED BY <1>2, <1>3, <1>4 DEF r

LEMMA Multiples ==
  ASSUME NEW d \in Nat \ {0}, NEW j \in Nat, NEW k \in Nat
  PROVE  /\ k * d \in Nat /\ (k + 1) * d = k * d + d
         /\ j <= k => j * d <= k * d
<1>1. k * d \in Nat /\ j * d \in Nat /\ (k + 1) * d = k * d + d
  OBVIOUS
<1>2. ASSUME j <= k PROVE j * d <= k * d
  <2>1. k - j \in Nat
    BY <1>2
  <2>2. (k - j) * d \in Nat
    BY <2>1
  <2>3. k * d = j * d + (k - j) * d
    OBVIOUS
  <2> QED BY <1>1, <2>2, <2>3
<1> QED BY <1>1, <1>2

LEMMA Quotient ==
  ASSUME NEW n \in Nat, NEW d \in Nat \ {0}
  PROVE  /\ n \div d \in Nat /\ (n \div d) * d <= n /\ n < (n \div d) * d + d
<1>1. n = (n \div d) * d + (n % d) /\ n % d \in 0 .. d - 1 /\ n \div d \in Nat
  OBVIOUS
<1>2. (n \div d) * d \in Nat
  BY <1>1
<1> QED BY <1>1, <1>2

\* Group k of those that e elements need begins before the last element.
LEMMA GroupsNeeded ==
  ASSUME NEW e \in Nat, NEW d \in Nat \ {0}, NEW k \in Nat
  PROVE  TgCount(e, d) \in Nat /\ (k < TgCount(e, d) <=> k * d < e)
<1> DEFINE n == TgCount(e, d)
           a == e + d - 1
<1>1. a \in Nat /\ n = a \div d
  BY DEF TgCount
<1> HIDE DEF a
<1>2. n \in Nat /\ n * d <= a /\ a < n * d + d
  BY <1>1, Quotient
<1> HIDE DEF n
<1>3. k * d \in Nat /\ n * d \in Nat /\ (k + 1) * d = k * d + d
  BY <1>2, Multiples
<1>4. ASSUME k < n PROVE k * d < e
  <2>1. k + 1 \in Nat /\ k + 1 <= n
    BY <1>2, <1>4
  <2>2. (k + 1) * d <= n * d
    BY <1>2, <2>1, Multiples
  <2> QED BY <1>2, <1>3, <2>2 DEF a
<1>5. ASSUME ~ (k < n) PROVE ~ (k * d < e)
  <2>1. n * d <= k * d
    BY <1>2, <1>5, Multiples
  <2> QED BY <1>2, <1>3, <2>1 DEF a
<1> QED BY <1>2, <1>4, <1>5 DEF n

------------------------------------------------------------------------------
\* A sum over a finite set, element by element, as the folds of the community
\* modules take it: v gives the values.
SumStep(v, f, s) == IF s = {} THEN 0
                    ELSE LET x == CHOOSE x \in s : TRUE IN v[x] + f[s \ {x}]

IsSum(v, S, f) == f = [s \in SUBSET S |-> SumStep(v, f, s)]

SumOver(v, S) == (CHOOSE f : IsSum(v, S, f))[S]

\* The subsets of at most n elements.
Small(S, n) == {s \in SUBSET S : Cardinality(s) <= n}

\* Without one of its elements a set has one less.
LEMMA OneLess ==
  ASSUME NEW s, IsFiniteSet(s), NEW x \in s
  PROVE  /\ IsFiniteSet(s \ {x}) /\ Cardinality(s) \in Nat \ {0}
         /\ Cardinality(s \ {x}) = Cardinality(s) - 1
<1>1. Cardinality(s) \in Nat /\ Cardinality(s) # 0
  BY FS_CardinalityType, FS_EmptySet
<1> QED BY <1>1, FS_RemoveElement

LEMMA Chosen ==
  ASSUME NEW s, s # {}
  PROVE  (CHOOSE x \in s : TRUE) \in s
OBVIOUS

LEMMA SumExists ==
  ASSUME NEW S, IsFiniteSet(S), NEW v
  PROVE  \E f : IsSum(v, S, f)
<1> DEFINE Partial(n, f) == f = [s \in Small(S, n) |-> SumStep(v, f, s)]
           Bad == {n \in Nat : ~ \E f : Partial(n, f)}
<1>1. Bad = {}
  <2>1. SUFFICES ASSUME Bad # {} PROVE FALSE
    OBVIOUS
  <2>2. PICK n \in Bad : \A m \in Bad : n <= m
    <3>1. Bad \in SUBSET Nat
      OBVIOUS
    <3> QED BY <2>1, <3>1, Least
  <2>3. n \in Nat /\ ~ \E f : Partial(n, f)
    OBVIOUS
  <2>4. CASE n = 0
    <3> DEFINE f == [s \in Small(S, 0) |-> 0]
    <3>1. \A s \in Small(S, 0) : s = {}
      <4>1. ASSUME NEW s \in Small(S, 0) PROVE s = {}
        <5>1. IsFiniteSet(s) /\ Cardinality(s) <= 0
          BY FS_Subset DEF Small
        <5> QED BY <5>1, FS_CardinalityType, FS_EmptySet
      <4> QED BY <4>1
    <3>2. \A s \in Small(S, 0) : SumStep(v, f, s) = 0
      BY <3>1 DEF SumStep
    <3> QED BY <2>3, <2>4, <3>2
  <2>5. CASE n > 0
    <3>1. PICK g : Partial(n - 1, g)
      <4>1. n - 1 \in Nat /\ n - 1 \notin Bad
        BY <2>2, <2>3, <2>5
      <4> QED BY <4>1
    <3> DEFINE f == [s \in Small(S, n) |-> SumStep(v, g, s)]
    <3>2. ASSUME NEW s \in Small(S, n) PROVE SumStep(v, f, s) = SumStep(v, g, s)
      <4>1. CASE s = {}
        BY <4>1 DEF SumStep
      <4>2. CASE s # {}
        <5> DEFINE x == CHOOSE x \in s : TRUE
                   r == s \ {x}
        <5>1. x \in s
          BY <4>2, Chosen
        <5>2. IsFiniteSet(s) /\ s \in SUBSET S /\ Cardinality(s) <= n
          BY FS_Subset DEF Small
        <5>3. Cardinality(r) = Cardinality(s) - 1 /\ Cardinality(s) \in Nat \ {0}
          BY <5>1, <5>2, OneLess
        <5>4. r \in Small(S, n - 1) /\ r \in Small(S, n)
          BY <2>3, <5>2, <5>3 DEF Small
        <5>5. g[r] = SumStep(v, g, r)
          BY <3>1, <5>4
        <5>6. f[r] = g[r]
          BY <5>4, <5>5
        <5>7. SumStep(v, f, s) = v[x] + f[r] /\ SumStep(v, g, s) = v[x] + g[r]
          BY <4>2 DEF SumStep
        <5> QED BY <5>6, <5>7
      <4> QED BY <4>1, <4>2
    <3>3. Partial(n, f)
      BY <3>2
    <3> QED BY <2>3, <3>3
  <2> QED BY <2>3, <2>4, <2>5
<1>2. Cardinality(S) \in Nat /\ Small(S, Cardinality(S)) = SUBSET S
  BY FS_CardinalityType, FS_Subset DEF Small
<1>3. PICK f : Partial(Cardinality(S), f)
  BY <1>1, <1>2
<1> QED BY <1>2, <1>3 DEF IsSum

\* Two such functions agree where both are defined.
LEMMA SumUnique ==
  ASSUME NEW S, IsFiniteSet(S), NEW T \in SUBSET S, NEW v, NEW f, NEW g,
         IsSum(v, S, f), IsSum(v, T, g)
  PROVE  f[T] = g[T]
<1> DEFINE Bad == {n \in Nat : \E s \in SUBSET T : Cardinality(s) = n /\ f[s] # g[s]}
<1>1. Bad = {}
  <2>1. SUFFICES ASSUME Bad # {} PROVE FALSE
    OBVIOUS
  <2>2. PICK n \in Bad : \A m \in Bad : n <= m
    <3>1. Bad \in SUBSET Nat
      OBVIOUS
    <3> QED BY <2>1, <3>1, Least
  <2>3. PICK s \in SUBSET T : Cardinality(s) = n /\ f[s] # g[s]
    OBVIOUS
  <2>4. f[s] = SumStep(v, f, s) /\ g[s] = SumStep(v, g, s)
    BY DEF IsSum
  <2>5. CASE s = {}
    BY <2>3, <2>4, <2>5 DEF SumStep
  <2>6. CASE s # {}
    <3> DEFINE x == CHOOSE x \in s : TRUE
               r == s \ {x}
    <3>1. x \in s /\ IsFiniteSet(s) /\ r \in SUBSET T
      BY <2>6, Chosen, FS_Subset
    <3>2. f[s] = v[x] + f[r] /\ g[s] = v[x] + g[r]
      BY <2>4, <2>6 DEF SumStep
    <3> HIDE DEF x
    <3>3. Cardinality(r) \in Nat /\ Cardinality(r) < n
      BY <2>3, <3>1, OneLess
    <3>4. f[r] = g[r]
      BY <2>2, <3>1, <3>3
    <3> QED BY <2>3, <3>2, <3>4
  <2> QED BY <2>5, <2>6
<1>2. Cardinality(T) \in Nat
  BY FS_Subset, FS_CardinalityType
<1> QED BY <1>1, <1>2

\* The sum takes one element out; which one does not matter yet.
LEMMA SumUnfolds ==
  ASSUME NEW S, IsFiniteSet(S), NEW v
  PROVE  IF S = {} THEN SumOver(v, S) = 0
         ELSE LET x == CHOOSE x \in S : TRUE IN SumOver(v, S) = v[x] + SumOver(v, S \ {x})
<1> DEFINE f == CHOOSE f : IsSum(v, S, f)
<1>1. IsSum(v, S, f)
  BY SumExists, Zenon
<1>2. SumOver(v, S) = f[S]
  BY DEF SumOver
<1> HIDE DEF f
<1>3. f[S] = SumStep(v, f, S)
  BY <1>1 DEF IsSum
<1>4. CASE S = {}
  BY <1>2, <1>3, <1>4 DEF SumStep
<1>5. CASE S # {}
  <2> DEFINE x == CHOOSE x \in S : TRUE
             r == S \ {x}
             g == CHOOSE g : IsSum(v, r, g)
  <2>1. IsFiniteSet(r) /\ r \in SUBSET S
    BY FS_Subset
  <2>2. IsSum(v, r, g)
    BY <2>1, SumExists, Zenon
  <2>3. SumOver(v, r) = g[r]
    BY DEF SumOver
  <2>4. f[S] = v[x] + f[r]
    BY <1>3, <1>5 DEF SumStep
  <2> HIDE DEF g, r
  <2>5. f[r] = g[r]
    BY <1>1, <2>1, <2>2, SumUnique
  <2>6. SumOver(v, S) = v[x] + SumOver(v, r)
    BY <1>2, <2>3, <2>4, <2>5
  <2> QED BY <1>5, <2>6 DEF r
<1> QED BY <1>4, <1>5

Natural(v, S) == \A x \in S : v[x] \in Nat

\* A sum of numbers is a number, and any of them may be taken out.
LEMMA SumTakes ==
  ASSUME NEW S, IsFiniteSet(S), NEW v, Natural(v, S)
  PROVE  SumOver(v, S) \in Nat /\ \A x \in S : SumOver(v, S) = v[x] + SumOver(v, S \ {x})
<1> DEFINE Good(T) == /\ SumOver(v, T) \in Nat
                      /\ \A x \in T : SumOver(v, T) = v[x] + SumOver(v, T \ {x})
           Bad == {n \in Nat : \E T \in SUBSET S : Cardinality(T) = n /\ ~ Good(T)}
<1>1. Bad = {}
  <2>1. SUFFICES ASSUME Bad # {} PROVE FALSE
    OBVIOUS
  <2>2. PICK n \in Bad : \A m \in Bad : n <= m
    <3>1. Bad \in SUBSET Nat
      OBVIOUS
    <3> QED BY <2>1, <3>1, Least
  <2>3. PICK T \in SUBSET S : Cardinality(T) = n /\ ~ Good(T)
    OBVIOUS
  <2>4. n \in Nat /\ IsFiniteSet(T)
    BY FS_Subset
  <2>5. CASE T = {}
    BY <2>3, <2>4, <2>5, SumUnfolds
  <2>6. CASE T # {}
    <3> DEFINE c == CHOOSE x \in T : TRUE
    <3>1. c \in T /\ SumOver(v, T) = v[c] + SumOver(v, T \ {c})
      BY <2>4, <2>6, SumUnfolds, Chosen
    <3> HIDE DEF c
    <3>2. ASSUME NEW x \in T PROVE Good(T \ {x}) /\ v[x] \in Nat
      <4> DEFINE r == T \ {x}
      <4>1. Cardinality(r) \in Nat /\ Cardinality(r) < n /\ r \in SUBSET S
        BY <2>3, <2>4, OneLess
      <4> HIDE DEF Good
      <4>2. ASSUME ~ Good(r) PROVE FALSE
        <5>1. Cardinality(r) \in Bad
          BY <4>1, <4>2
        <5> QED BY <2>2, <2>4, <4>1, <5>1
      <4>3. v[x] \in Nat
        BY DEF Natural
      <4> QED BY <4>2, <4>3
    <3>3. SumOver(v, T) \in Nat
      BY <3>1, <3>2
    <3>4. ASSUME NEW x \in T PROVE SumOver(v, T) = v[x] + SumOver(v, T \ {x})
      <4>1. CASE x = c
        BY <3>1, <4>1
      <4>2. CASE x # c
        <5> DEFINE both == (T \ {c}) \ {x}
        <5>1. both = (T \ {x}) \ {c}
          OBVIOUS
        <5>2. SumOver(v, T \ {c}) = v[x] + SumOver(v, both)
          BY <3>1, <3>2, <4>2
        <5>3. SumOver(v, T \ {x}) = v[c] + SumOver(v, both)
          BY <3>1, <3>2, <4>2, <5>1
        <5>4. SumOver(v, both) \in Nat
          <6>1. both \in SUBSET S /\ IsFiniteSet(T \ {c}) /\ IsFiniteSet(both)
            BY <2>4, FS_Subset
          <6>2. x \in T \ {c}
            BY <4>2
          <6>3. Cardinality(T \ {c}) = n - 1
            BY <2>3, <2>4, <3>1, OneLess
          <6>4. Cardinality(both) \in Nat /\ Cardinality(both) < n
            <7>1. /\ Cardinality(T \ {c}) \in Nat \ {0}
                  /\ Cardinality(both) = Cardinality(T \ {c}) - 1
              BY <6>1, <6>2, OneLess
            <7> QED BY <2>4, <6>3, <7>1
          <6>5. Good(both)
            BY <2>2, <6>1, <6>4
          <6> QED BY <6>5
        <5> HIDE DEF both
        <5> QED BY <3>1, <3>2, <5>2, <5>3, <5>4
      <4> QED BY <4>1, <4>2
    <3> QED BY <2>3, <3>3, <3>4
  <2> QED BY <2>5, <2>6
<1>2. Cardinality(S) \in Nat
  BY FS_CardinalityType
<1> QED BY <1>1, <1>2

\* The sum over a set in two parts; that over one of them is not larger.
LEMMA SumSplits ==
  ASSUME NEW S, IsFiniteSet(S), NEW T \in SUBSET S, NEW v, Natural(v, S)
  PROVE  /\ SumOver(v, S) = SumOver(v, T) + SumOver(v, S \ T)
         /\ SumOver(v, S) \in Nat /\ SumOver(v, T) \in Nat /\ SumOver(v, S \ T) \in Nat
         /\ SumOver(v, T) <= SumOver(v, S)
<1> DEFINE Bad == {n \in Nat : \E R \in SUBSET T : Cardinality(R) = n
                      /\ SumOver(v, (S \ T) \cup R) # SumOver(v, R) + SumOver(v, S \ T)}
<1>1. Bad = {}
  <2>1. SUFFICES ASSUME Bad # {} PROVE FALSE
    OBVIOUS
  <2>2. PICK n \in Bad : \A m \in Bad : n <= m
    <3>1. Bad \in SUBSET Nat
      OBVIOUS
    <3> QED BY <2>1, <3>1, Least
  <2>3. PICK R \in SUBSET T : Cardinality(R) = n
                      /\ SumOver(v, (S \ T) \cup R) # SumOver(v, R) + SumOver(v, S \ T)
    OBVIOUS
  <2>4. n \in Nat /\ IsFiniteSet(R) /\ IsFiniteSet((S \ T) \cup R) /\ IsFiniteSet(S \ T)
    BY FS_Subset
  <2>5. SumOver(v, S \ T) \in Nat
    BY <2>4, SumTakes DEF Natural
  <2>6. CASE R = {}
    <3>1. SumOver(v, R) = 0 /\ (S \ T) \cup R = S \ T
      BY <2>4, <2>6, SumUnfolds
    <3> QED BY <2>3, <2>5, <3>1
  <2>7. CASE R # {}
    <3>1. PICK x \in R : TRUE
      BY <2>7
    <3> DEFINE r == R \ {x}
               U == (S \ T) \cup R
    <3>2. Natural(v, R) /\ Natural(v, U)
      BY DEF Natural
    <3>3. SumOver(v, R) = v[x] + SumOver(v, r) /\ v[x] \in Nat
      BY <2>4, <3>2, SumTakes DEF Natural
    <3>4. U \ {x} = (S \ T) \cup r
      OBVIOUS
    <3>5. SumOver(v, U) = v[x] + SumOver(v, (S \ T) \cup r)
      BY <2>4, <3>2, <3>4, SumTakes
    <3>6. Cardinality(r) \in Nat /\ Cardinality(r) < n /\ r \in SUBSET T
      BY <2>3, <2>4, OneLess
    <3>7. SumOver(v, (S \ T) \cup r) = SumOver(v, r) + SumOver(v, S \ T)
      <4> HIDE DEF Bad, r
      <4>1. Cardinality(r) \notin Bad
        BY <2>2, <2>4, <3>6
      <4> QED BY <3>6, <4>1 DEF Bad
    <3>8. IsFiniteSet(r) /\ Natural(v, r)
      BY <2>4, FS_Subset, <3>2 DEF Natural
    <3>9. SumOver(v, r) \in Nat
      BY <3>8, SumTakes
    <3> QED BY <2>3, <2>5, <3>3, <3>5, <3>7, <3>9
  <2> QED BY <2>6, <2>7
<1>2. Cardinality(T) \in Nat /\ IsFiniteSet(T) /\ IsFiniteSet(S \ T)
  BY FS_CardinalityType, FS_Subset
<1>3. (S \ T) \cup T = S
  OBVIOUS
<1>4. SumOver(v, S) = SumOver(v, T) + SumOver(v, S \ T)
  BY <1>1, <1>2, <1>3
<1>5. Natural(v, T) /\ Natural(v, S \ T)
  BY DEF Natural
<1>6. SumOver(v, S) \in Nat /\ SumOver(v, T) \in Nat /\ SumOver(v, S \ T) \in Nat
  BY <1>2, <1>5, SumTakes
<1> QED BY <1>4, <1>6

\* A sum of nothing but zeros.
LEMMA SumZero ==
  ASSUME NEW S, IsFiniteSet(S), NEW v, \A x \in S : v[x] = 0
  PROVE  SumOver(v, S) = 0
<1> DEFINE Bad == {n \in Nat : \E T \in SUBSET S : Cardinality(T) = n /\ SumOver(v, T) # 0}
<1>1. Bad = {}
  <2>1. SUFFICES ASSUME Bad # {} PROVE FALSE
    OBVIOUS
  <2>2. PICK n \in Bad : \A m \in Bad : n <= m
    <3>1. Bad \in SUBSET Nat
      OBVIOUS
    <3> QED BY <2>1, <3>1, Least
  <2>3. PICK T \in SUBSET S : Cardinality(T) = n /\ SumOver(v, T) # 0
    OBVIOUS
  <2>4. IsFiniteSet(T)
    BY FS_Subset
  <2>5. PICK x \in T : SumOver(v, T) = v[x] + SumOver(v, T \ {x})
    BY <2>3, <2>4, SumUnfolds, Chosen
  <2>6. Cardinality(T \ {x}) \in Nat /\ Cardinality(T \ {x}) < n
    BY <2>3, <2>4, OneLess
  <2>7. SumOver(v, T \ {x}) = 0
    BY <2>2, <2>6
  <2> QED BY <2>3, <2>5, <2>7
<1>2. Cardinality(S) \in Nat
  BY FS_CardinalityType
<1> QED BY <1>1, <1>2

------------------------------------------------------------------------------
\* The lanes of a wave, which several kernels give an interval of elements.

WaveSizes == {1, 2, 4, 8, 16, 32}

WaveBlocks(n, size) == 0 .. ((n + size - 1) \div size) - 1
WaveLanes(n, size, b) == {i \in 0 .. n - 1 : i \div size = b}
LastOf(S) == CHOOSE i \in S : \A j \in S : j <= i

\* A block begins before the last element.
LEMMA WaveBegins ==
  ASSUME NEW n \in Nat \ {0}, NEW size \in WaveSizes, NEW b \in WaveBlocks(n, size)
  PROVE  /\ b \in Nat /\ b * size \in Nat /\ b * size < n
         /\ 0 \in WaveBlocks(n, size) /\ (b # 0 => b - 1 \in WaveBlocks(n, size))
<1>1. CASE size = 1
  BY <1>1 DEF WaveBlocks
<1>2. CASE size = 2
  BY <1>2 DEF WaveBlocks
<1>3. CASE size = 4
  BY <1>3 DEF WaveBlocks
<1>4. CASE size = 8
  BY <1>4 DEF WaveBlocks
<1>5. CASE size = 16
  BY <1>5 DEF WaveBlocks
<1>6. CASE size = 32
  BY <1>6 DEF WaveBlocks
<1> QED BY <1>1, <1>2, <1>3, <1>4, <1>5, <1>6 DEF WaveSizes

LEMMA InWave ==
  ASSUME NEW size \in WaveSizes, NEW b \in Nat, NEW i \in Nat
  PROVE  i \div size = b <=> b * size <= i /\ i < b * size + size
<1>1. CASE size = 1
  BY <1>1
<1>2. CASE size = 2
  BY <1>2
<1>3. CASE size = 4
  BY <1>3
<1>4. CASE size = 8
  BY <1>4
<1>5. CASE size = 16
  BY <1>5
<1>6. CASE size = 32
  BY <1>6
<1> QED BY <1>1, <1>2, <1>3, <1>4, <1>5, <1>6 DEF WaveSizes

\* The lanes are those from the first to the last one.
LEMMA WaveInterval ==
  ASSUME NEW n \in Nat \ {0}, NEW size \in WaveSizes, NEW b \in WaveBlocks(n, size),
         NEW S, S = WaveLanes(n, size, b)
  PROVE  /\ b * size \in S /\ LastOf(S) \in S /\ S \subseteq 0 .. n - 1
         /\ \A i \in 0 .. n - 1 : i \in S <=> b * size <= i /\ i <= LastOf(S)
<1> DEFINE first == b * size
           last  == IF n < first + size THEN n - 1 ELSE first + size - 1
<1>1. /\ b \in Nat /\ first \in Nat /\ first < n
      /\ size \in Nat /\ size >= 1
  BY WaveBegins DEF WaveSizes
<1>2. \A i \in 0 .. n - 1 : i \in S <=> first <= i /\ i < first + size
  BY <1>1, InWave DEF WaveLanes
<1> HIDE DEF first
<1>3. last \in 0 .. n - 1 /\ first \in 0 .. n - 1
  BY <1>1
<1>4. \A i \in 0 .. n - 1 : i \in S <=> first <= i /\ i <= last
  BY <1>1, <1>2
<1>5. first <= last /\ first <= first /\ last <= last
  BY <1>1
<1> HIDE DEF last
<1>6. first \in S /\ last \in S /\ S \subseteq 0 .. n - 1
  BY <1>3, <1>4, <1>5 DEF WaveLanes
<1>7. \A j \in S : j <= last
  BY <1>4, <1>6
<1>8. PICK l \in S : l = LastOf(S) /\ \A j \in S : j <= l
  BY <1>6, <1>7 DEF LastOf
<1>9. l = last
  BY <1>3, <1>6, <1>7, <1>8
<1> QED BY <1>4, <1>6, <1>8, <1>9 DEF first

\* The lanes of a block follow those of the one before.
LEMMA WaveFollows ==
  ASSUME NEW n \in Nat \ {0}, NEW size \in WaveSizes, NEW b \in WaveBlocks(n, size), b # 0,
         NEW S, S = WaveLanes(n, size, b - 1)
  PROVE  b - 1 \in WaveBlocks(n, size) /\ LastOf(S) + 1 = b * size
<1>1. b \in Nat /\ b - 1 \in Nat /\ b - 1 \in WaveBlocks(n, size)
  BY WaveBegins DEF WaveBlocks
<1> DEFINE c == b - 1
           first == c * size
<1>2. b * size \in Nat /\ b * size < n /\ first \in Nat /\ size \in Nat /\ size >= 1
  BY <1>1, WaveBegins DEF WaveSizes
<1>3. b * size = first + size
  BY <1>1 DEF WaveSizes
<1>4. c \in WaveBlocks(n, size) /\ c \in Nat /\ S = WaveLanes(n, size, c)
  BY <1>1
<1> HIDE DEF c, first
<1>5. LastOf(S) \in S /\ \A i \in 0 .. n - 1 : i \in S => i <= LastOf(S)
  BY <1>4, WaveInterval
<1>6. ASSUME NEW i \in 0 .. n - 1
      PROVE  i \in S <=> first <= i /\ i < first + size
  BY <1>4, InWave DEF WaveLanes, first
<1>7. LastOf(S) \in 0 .. n - 1
  BY <1>5 DEF WaveLanes
<1>8. LastOf(S) < first + size
  BY <1>5, <1>6, <1>7
<1>9. first + size - 1 \in 0 .. n - 1 /\ first + size - 1 \in S
  <2>1. first + size - 1 \in 0 .. n - 1 /\ first <= first + size - 1
        /\ first + size - 1 < first + size
    BY <1>2, <1>3
  <2> QED BY <1>6, <2>1
<1>10. first + size - 1 <= LastOf(S)
  BY <1>5, <1>9
<1> QED BY <1>1, <1>2, <1>3, <1>7, <1>8, <1>10

\* Propagation in a tree over groups of g lanes: where the group of lane i begins,
\* and the lane its upper half takes its value from.
Lo(i, g)  == (i \div g) * g
Src(i, g) == (i \div g) * g + (g \div 2) - 1

\* A group is two groups of half its size.
LEMMA Halves ==
  ASSUME NEW g \in {2, 4, 8, 16, 32}, NEW i \in Nat
  PROVE  /\ Lo(i, g) \in Nat /\ Lo(i, g) <= i /\ g \div 2 \in Nat /\ i % g \in Nat
         /\ i % g < g \div 2 => Lo(i, g \div 2) = Lo(i, g)
         /\ i % g >= g \div 2 =>
              /\ Src(i, g) \in Nat /\ Src(i, g) < i /\ Lo(i, g) <= Src(i, g)
              /\ Lo(Src(i, g), g \div 2) = Lo(i, g) /\ Lo(i, g \div 2) = Src(i, g) + 1
<1>1. CASE g = 2
  BY <1>1 DEF Lo, Src
<1>2. CASE g = 4
  BY <1>2 DEF Lo, Src
<1>3. CASE g = 8
  BY <1>3 DEF Lo, Src
<1>4. CASE g = 16
  BY <1>4 DEF Lo, Src
<1>5. CASE g = 32
  BY <1>5 DEF Lo, Src
<1> QED BY <1>1, <1>2, <1>3, <1>4, <1>5

\* A group that is not larger than a block does not begin before it.
LEMMA GroupInBlock ==
  ASSUME NEW b \in Nat, NEW i \in Nat, NEW size \in WaveSizes,
         NEW g \in {2, 4, 8, 16, 32}, g <= size, i \div size = b
  PROVE  b * size <= Lo(i, g)
<1>1. CASE size = 2
  BY <1>1 DEF Lo
<1>2. CASE size = 4
  <2>1. g = 2 \/ g = 4
    BY <1>2
  <2> QED BY <1>2, <2>1 DEF Lo
<1>3. CASE size = 8
  <2>1. CASE g = 2
    BY <1>3, <2>1 DEF Lo
  <2>2. CASE g = 4
    BY <1>3, <2>2 DEF Lo
  <2>3. CASE g = 8
    BY <1>3, <2>3 DEF Lo
  <2> QED BY <1>3, <2>1, <2>2, <2>3
<1>4. CASE size = 16
  <2>1. CASE g = 2
    BY <1>4, <2>1 DEF Lo
  <2>2. CASE g = 4
    BY <1>4, <2>2 DEF Lo
  <2>3. CASE g = 8
    BY <1>4, <2>3 DEF Lo
  <2>4. CASE g = 16
    BY <1>4, <2>4 DEF Lo
  <2> QED BY <1>4, <2>1, <2>2, <2>3, <2>4
<1>5. CASE size = 32
  <2>1. CASE g = 2
    BY <1>5, <2>1 DEF Lo
  <2>2. CASE g = 4
    BY <1>5, <2>2 DEF Lo
  <2>3. CASE g = 8
    BY <1>5, <2>3 DEF Lo
  <2>4. CASE g = 16
    BY <1>5, <2>4 DEF Lo
  <2>5. CASE g = 32
    BY <1>5, <2>5 DEF Lo
  <2> QED BY <1>5, <2>1, <2>2, <2>3, <2>4, <2>5
<1> QED BY <1>1, <1>2, <1>3, <1>4, <1>5 DEF WaveSizes
=============================================================================
