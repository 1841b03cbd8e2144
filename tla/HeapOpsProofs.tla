---------------------------- MODULE HeapOpsProofs ----------------------------
(***************************************************************************)
(* What the sift loops of BinaryHeap do to the items, for heaps of any     *)
(* size: they move every item to exactly one position and restore the      *)
(* order of the heap.                                                      *)
(***************************************************************************)
EXTENDS HeapOps, Integers, WellFoundedInduction, TLAPS

\* Positions 1 .. n hold items with a value.
HeapOf(h, n) ==
    n \in Nat /\ DOMAIN h = 1 .. n /\ \A i \in 1 .. n : h[i].value \in Nat

-----------------------------------------------------------------------------
(* The tree.                                                               *)

LEMMA ParentFacts ==
    ASSUME NEW i \in Nat, i > 1
    PROVE  /\ parent(i) \in Nat /\ 1 <= parent(i) /\ parent(i) < i
           /\ i = 2 * parent(i) \/ i = 2 * parent(i) + 1
BY DEF parent

LEMMA ChildFacts ==
    ASSUME NEW i \in Nat, i >= 1
    PROVE  /\ parent(2 * i) = i /\ parent(2 * i + 1) = i
           /\ 2 * i \in Nat /\ 2 * i > 1 /\ 2 * i + 1 > 1
BY DEF parent

LEMMA ParentMonotone ==
    ASSUME NEW i \in Nat, NEW j \in Nat, i <= j
    PROVE  parent(i) <= parent(j) /\ parent(i) \in Nat /\ parent(j) \in Nat
BY DEF parent

LEMMA AncestorBounds ==
    ASSUME NEW p \in Nat, NEW a \in Ancestors(p)
    PROVE  a \in Nat /\ 1 <= a /\ a <= parent(p) /\ a < p /\ p > 1
BY DEF Ancestors, parent

LEMMA ParentIsAncestor ==
    ASSUME NEW p \in Nat, p > 1
    PROVE  parent(p) \in Ancestors(p)
BY ParentFacts DEF Ancestors

LEMMA ParentOfAncestor ==
    ASSUME NEW p \in Nat, NEW a \in Ancestors(p), a > 1
    PROVE  parent(a) \in Ancestors(p)
<1> DEFINE up == 1 .. parent(p)
           Closed(S) == parent(p) \in S /\ \A x \in S : x > 1 => parent(x) \in S
<1>1. Ancestors(p) = {b \in up : \A S \in SUBSET up : Closed(S) => b \in S}
  BY Zenon DEF Ancestors
<1>2. parent(a) \in up
  BY AncestorBounds, ParentFacts DEF parent
<1>3. ASSUME NEW S \in SUBSET up, Closed(S)
      PROVE  parent(a) \in S
  <2>1. a \in S
    BY <1>1, <1>3, Zenon
  <2> QED BY <1>3, <2>1
<1> QED BY <1>1, <1>2, <1>3, Zenon

\* The induction over the ancestors of p: a set that holds the parent of p, and
\* with an ancestor of p its parent, holds all of them.
LEMMA AncestorInduction ==
    ASSUME NEW p \in Nat, NEW S, p > 1 => parent(p) \in S,
           \A x \in Ancestors(p) : x \in S /\ x > 1 => parent(x) \in S
    PROVE  Ancestors(p) \subseteq S
<1> DEFINE up == 1 .. parent(p)
           Closed(R) == parent(p) \in R /\ \A x \in R : x > 1 => parent(x) \in R
           T == Ancestors(p) \cap S
<1>1. Ancestors(p) = {b \in up : \A R \in SUBSET up : Closed(R) => b \in R}
  BY Zenon DEF Ancestors
<1>2. CASE p > 1
  <2>1. T \in SUBSET up
    BY <1>1
  <2>2. Closed(T)
    BY <1>2, ParentIsAncestor, ParentOfAncestor, AncestorBounds
  <2> QED BY <1>1, <2>1, <2>2, Zenon
<1>3. CASE ~(p > 1)
  BY <1>3, AncestorBounds
<1> QED BY <1>2, <1>3

\* The ancestors of p are its parent and the ancestors of that.
LEMMA AncestorsUnfold ==
    ASSUME NEW p \in Nat, p > 1
    PROVE  Ancestors(p) = {parent(p)} \cup Ancestors(parent(p))
<1> DEFINE q == parent(p)
<1>0. q \in Nat /\ q >= 1 /\ q < p
  BY ParentFacts
<1>1. Ancestors(p) \subseteq {q} \cup Ancestors(q)
  <2> DEFINE S == {q} \cup Ancestors(q)
  <2>1. \A x \in S : x > 1 => parent(x) \in S
    <3> SUFFICES ASSUME NEW x \in S, x > 1 PROVE parent(x) \in S
      OBVIOUS
    <3>1. CASE x = q
      BY <1>0, <3>1, ParentIsAncestor
    <3>2. CASE x \in Ancestors(q)
      BY <1>0, <3>2, ParentOfAncestor
    <3> QED BY <3>1, <3>2
  <2>2. parent(p) \in S
    OBVIOUS
  <2> HIDE DEF S
  <2>3. Ancestors(p) \subseteq S
    BY <2>1, <2>2, AncestorInduction, Zenon
  <2> QED BY <2>3 DEF S
<1>2. q \in Ancestors(p)
  BY ParentIsAncestor
<1>3. Ancestors(q) \subseteq Ancestors(p)
  <2>1. q > 1 => parent(q) \in Ancestors(p)
    BY <1>2, ParentOfAncestor
  <2>2. \A x \in Ancestors(q) : x \in Ancestors(p) /\ x > 1 => parent(x) \in Ancestors(p)
    BY ParentOfAncestor
  <2> HIDE DEF q
  <2> QED BY <1>0, <2>1, <2>2, AncestorInduction
<1> QED BY <1>1, <1>2, <1>3

\* The ancestors of p are on one path: of two, the smaller is above the other.
LEMMA AncestorsChain ==
    ASSUME NEW p \in Nat, NEW x \in Ancestors(p), NEW y \in Ancestors(p), y < x
    PROVE  y \in Ancestors(x)
<1> DEFINE S == {z \in Ancestors(p) : \A w \in Ancestors(p) : w < z => w \in Ancestors(z)}
<1>1. p > 1 => parent(p) \in S
  <2> SUFFICES ASSUME p > 1 PROVE parent(p) \in S
    OBVIOUS
  <2>1. Ancestors(p) = {parent(p)} \cup Ancestors(parent(p)) /\ parent(p) \in Nat
    BY AncestorsUnfold, ParentFacts
  <2> QED BY <2>1
<1>2. \A z \in Ancestors(p) : z \in S /\ z > 1 => parent(z) \in S
  <2> SUFFICES ASSUME NEW z \in S, z > 1 PROVE parent(z) \in S
    OBVIOUS
  <2>1. z \in Nat /\ parent(z) \in Ancestors(p) /\ parent(z) < z /\ parent(z) \in Nat
    BY AncestorBounds, ParentOfAncestor, ParentFacts
  <2>2. Ancestors(z) = {parent(z)} \cup Ancestors(parent(z))
    BY <2>1, AncestorsUnfold
  <2>3. ASSUME NEW w \in Ancestors(p), w < parent(z) PROVE w \in Ancestors(parent(z))
    <3>1. w \in Nat /\ w < z /\ w # parent(z)
      BY <2>1, <2>3, AncestorBounds
    <3> QED BY <2>2, <3>1
  <2> QED BY <2>1, <2>3
<1> HIDE DEF S
<1>3. x \in S
  BY <1>1, <1>2, AncestorInduction
<1> QED BY <1>3 DEF S

\* The path from p to the root, p included.
Path(p) == {p} \cup Ancestors(p)

LEMMA PathBounds ==
    ASSUME NEW p \in Nat, p >= 1, NEW x \in Path(p)
    PROVE  x \in Nat /\ 1 <= x /\ x <= p
BY AncestorBounds DEF Path

LEMMA PathChain ==
    ASSUME NEW p \in Nat, NEW x \in Path(p), NEW y \in Path(p), y < x
    PROVE  y \in Ancestors(x) /\ x \in Nat /\ y \in Nat /\ y <= parent(x)
<1>1. y \in Ancestors(p)
  BY AncestorBounds DEF Path
<1>2. y \in Ancestors(x)
  BY <1>1, AncestorsChain DEF Path
<1> QED BY <1>2, AncestorBounds DEF Path

LEMMA PathParent ==
    ASSUME NEW p \in Nat, NEW x \in Path(p), x > 1
    PROVE  parent(x) \in Ancestors(p)
BY ParentIsAncestor, ParentOfAncestor DEF Path

LEMMA PathOfPath ==
    ASSUME NEW p \in Nat, NEW x \in Path(p)
    PROVE  Ancestors(x) \subseteq Ancestors(p)
<1>1. CASE x = p
  BY <1>1
<1>2. CASE x \in Ancestors(p)
  <2>1. x \in Nat /\ (x > 1 => parent(x) \in Ancestors(p))
    BY <1>2, AncestorBounds, ParentOfAncestor
  <2>2. \A z \in Ancestors(x) : z \in Ancestors(p) /\ z > 1 => parent(z) \in Ancestors(p)
    BY ParentOfAncestor
  <2> QED BY <2>1, <2>2, AncestorInduction
<1> QED BY <1>1, <1>2 DEF Path

\* Every ancestor has one child on the path, and not two.
LEMMA PathChild ==
    ASSUME NEW p \in Nat, NEW a \in Ancestors(p)
    PROVE  \E c \in Path(p) : c > 1 /\ parent(c) = a
<1> DEFINE S == {z \in Ancestors(p) : \E c \in Path(p) : c > 1 /\ parent(c) = z}
<1>1. p > 1 => parent(p) \in S
  BY ParentIsAncestor DEF Path
<1>2. \A z \in Ancestors(p) : z \in S /\ z > 1 => parent(z) \in S
  BY ParentOfAncestor DEF Path
<1> HIDE DEF S
<1>3. a \in S
  BY <1>1, <1>2, AncestorInduction
<1> QED BY <1>3 DEF S

LEMMA OneChild ==
    ASSUME NEW p \in Nat, p >= 1, NEW c \in Path(p), NEW d \in Path(p),
           c > 1, d > 1, parent(c) = parent(d)
    PROVE  c = d
<1>1. \A x, y \in Path(p) : x > 1 /\ y > 1 /\ parent(x) = parent(y) => ~(y < x)
  <2> SUFFICES ASSUME NEW x \in Path(p), NEW y \in Path(p), x > 1, y > 1,
                      parent(x) = parent(y), y < x
               PROVE  FALSE
    OBVIOUS
  <2>1. y <= parent(x) /\ y \in Nat
    BY PathChain
  <2>2. parent(y) < y /\ parent(y) \in Nat
    BY <2>1, ParentFacts
  <2> QED BY <2>1, <2>2
<1>2. c \in Nat /\ d \in Nat
  BY PathBounds
<1> QED BY <1>1, <1>2

-----------------------------------------------------------------------------
(* Smallest and largest positions.                                         *)

LEMMA SmallestPosition ==
    ASSUME NEW T \in SUBSET Nat, T # {}
    PROVE  \E x \in T : \A y \in T : x <= y
<1>1. PICK x \in T : \A y \in T : ~(<<y, x>> \in OpToRel(<, Nat))
  BY WFMin, NatLessThanWellFounded
<1>2. \A y \in T : ~(y < x)
  BY <1>1 DEF OpToRel
<1> QED BY <1>2

LEMMA LargestPosition ==
    ASSUME NEW n \in Nat, NEW T \in SUBSET (1 .. n), T # {}
    PROVE  \E x \in T : \A y \in T : y <= x
<1> DEFINE R == {k \in Nat : \E x \in T : k = n - x}
<1>1. R \in SUBSET Nat /\ R # {}
  <2>1. PICK x \in T : x \in 1 .. n
    OBVIOUS
  <2>2. n - x \in Nat
    OBVIOUS
  <2>3. n - x \in R
    BY <2>2
  <2> QED BY <2>3
<1>2. PICK r \in R : \A q \in R : r <= q
  <2> HIDE DEF R
  <2> QED BY <1>1, SmallestPosition
<1>3. PICK x \in T : r = n - x
  OBVIOUS
<1>4. \A y \in T : n - x <= n - y
  <2>1. \A y \in T : n - y \in R
    OBVIOUS
  <2> HIDE DEF R
  <2> QED BY <1>2, <1>3, <2>1
<1>5. \A y \in T : y <= x
  BY <1>4
<1> QED BY <1>5

(* g holds the items of h, each at exactly one position.                   *)
Permutes(h, g) ==
    \E pi \in [DOMAIN h -> DOMAIN h] :
        /\ g = [i \in DOMAIN h |-> h[pi[i]]]
        /\ \A i, j \in DOMAIN h : pi[i] = pi[j] => i = j
        /\ \A j \in DOMAIN h : \E i \in DOMAIN h : pi[i] = j

Ordered(h) == \A i \in DOMAIN h : i > 1 => h[parent(i)].value <= h[i].value

-----------------------------------------------------------------------------
(* sift_up                                                                 *)

\* The path of sift_up goes up from pos, over larger items, and ends below one that is not.
UpChain(h, n, pos, P) ==
    /\ pos \in P /\ P \subseteq Path(pos) /\ P \subseteq 1 .. pos /\ P \subseteq 1 .. n
    /\ \A x \in P : x # pos => x \in Ancestors(pos) /\ h[pos].value < h[x].value
    /\ \A x \in P : \A y \in Path(pos) : x <= y => y \in P
    /\ \A x \in P : x > 1 /\ parent(x) \notin P => ~(h[pos].value < h[parent(x)].value)
    /\ \A x, y \in P : parent(x) \notin P /\ parent(y) \notin P => x = y

LEMMA UpPathFacts ==
    ASSUME NEW h, NEW n, HeapOf(h, n), NEW pos \in 1 .. n
    PROVE  UpChain(h, n, pos, UpPath(h, pos))
<1> DEFINE P == UpPath(h, pos)
<1> USE DEF HeapOf
<1>0. P = {pos} \cup {a \in Ancestors(pos) :
                         \A b \in Ancestors(pos) : b >= a => h[pos].value < h[b].value}
  BY Zenon DEF UpPath
<1> HIDE DEF P
<1>1. pos \in P /\ P \subseteq Path(pos)
  BY <1>0 DEF Path
<1>2. P \subseteq 1 .. pos /\ P \subseteq 1 .. n
  <2>1. pos \in Nat /\ pos >= 1 /\ pos <= n
    OBVIOUS
  <2>2. \A x \in P : x \in Nat /\ 1 <= x /\ x <= pos
    BY <1>1, <2>1, PathBounds
  <2> QED BY <2>1, <2>2
<1>3. \A x \in P : x # pos => x \in Ancestors(pos) /\ h[pos].value < h[x].value
  BY <1>0, <1>2
<1>4. ASSUME NEW x \in P, NEW y \in Path(pos), x <= y PROVE y \in P
  <2>1. CASE y = pos
    BY <1>1, <2>1
  <2>2. CASE y # pos
    <3>1. y \in Ancestors(pos) /\ y < pos /\ y \in Nat /\ x \in Nat
      BY <1>2, <2>2, AncestorBounds DEF Path
    <3>2. x \in Ancestors(pos) /\ \A b \in Ancestors(pos) : b >= x => h[pos].value < h[b].value
      BY <1>0, <1>4, <3>1
    <3>3. \A b \in Ancestors(pos) : b >= y => b >= x
      BY <1>4, <3>1, AncestorBounds
    <3> QED BY <1>0, <3>1, <3>2, <3>3
  <2> QED BY <2>1, <2>2
<1>5. ASSUME NEW x \in P, x > 1, parent(x) \notin P
      PROVE  ~(h[pos].value < h[parent(x)].value)
  <2> DEFINE a == parent(x)
  <2>1. a \in Ancestors(pos) /\ x \in Nat /\ x \in Path(pos) /\ a \in Nat
    BY <1>1, <1>2, <1>5, PathParent, AncestorBounds
  <2>2. PICK b \in Ancestors(pos) : b >= a /\ ~(h[pos].value < h[b].value)
    BY <1>0, <1>5, <2>1
  <2>3. b \in Nat /\ b \in Path(pos) /\ b # pos
    BY <2>2, AncestorBounds DEF Path
  <2>4. ~(b >= x)
    BY <1>3, <1>4, <2>2, <2>3
  <2>5. b <= a
    BY <2>1, <2>3, <2>4, PathChain
  <2>6. b = a
    BY <2>1, <2>2, <2>3, <2>5
  <2> QED BY <2>2, <2>6
<1>6. ASSUME NEW x \in P, NEW y \in P, parent(x) \notin P, y < x PROVE FALSE
  <2>1. x \in Path(pos) /\ y \in Path(pos) /\ x \in Nat /\ y \in Nat /\ x > 1
    BY <1>1, <1>2, <1>6
  <2>2. y <= parent(x) /\ parent(x) \in Path(pos)
    BY <1>6, <2>1, PathChain, PathParent DEF Path
  <2> QED BY <1>4, <1>6, <2>2
<1>7. \A x, y \in P : parent(x) \notin P /\ parent(y) \notin P => x = y
  BY <1>2, <1>6
<1>8. UpChain(h, n, pos, P)
  BY <1>1, <1>2, <1>3, <1>4, <1>5, <1>7, Zenon DEF UpChain
<1> QED BY <1>8 DEF P

\* The loop moves every item of the path one position down, and the last to the top.
LEMMA SiftUpPermutes ==
    ASSUME NEW h, NEW n, HeapOf(h, n), NEW pos \in 1 .. n
    PROVE  /\ Permutes(h, sift_up(h, pos))
           /\ \A i \in 1 .. n : i \notin UpPath(h, pos) => sift_up(h, pos)[i] = h[i]
<1> USE DEF HeapOf
<1> DEFINE P == UpPath(h, pos)
           to(i) == IF i \in P THEN IF parent(i) \in P THEN parent(i) ELSE pos ELSE i
           pi == [i \in 1 .. n |-> to(i)]
<1>0. /\ pos \in P /\ P \subseteq Path(pos) /\ P \subseteq 1 .. pos /\ P \subseteq 1 .. n
      /\ \A x \in P : x # pos => x \in Ancestors(pos)
      /\ \A x \in P : \A y \in Path(pos) : x <= y => y \in P
      /\ \A x, y \in P : parent(x) \notin P /\ parent(y) \notin P => x = y
  <2>1. UpChain(h, n, pos, P)
    BY UpPathFacts
  <2> HIDE DEF P
  <2> QED BY <2>1, Zenon DEF UpChain
<1>1. sift_up(h, pos) = [i \in 1 .. n |-> h[pi[i]]]
  <2>1. sift_up(h, pos) = [i \in 1 .. n |->
                             IF i \in P
                             THEN IF parent(i) \in P THEN h[parent(i)] ELSE h[pos]
                             ELSE h[i]]
    BY Zenon DEF sift_up
  <2>2. \A i \in 1 .. n : h[pi[i]] = IF i \in P
                                     THEN IF parent(i) \in P THEN h[parent(i)] ELSE h[pos]
                                     ELSE h[i]
    BY Zenon
  <2> QED BY <2>1, <2>2, Zenon
<1>2. \A i \in 1 .. n : i \notin P => sift_up(h, pos)[i] = h[i]
  BY <1>1, Zenon
<1> HIDE DEF P
<1>3. pi \in [1 .. n -> 1 .. n] /\ \A i \in 1 .. n : pi[i] = to(i)
  BY <1>0
<1>4. \A i \in P : i > 1 => parent(i) < i /\ i <= pos /\ i \in Nat
  BY <1>0, ParentFacts
<1>5. \A i \in P : parent(i) \in P => i > 1 /\ parent(i) # pos
  <2> SUFFICES ASSUME NEW i \in P, parent(i) \in P PROVE i > 1 /\ parent(i) # pos
    OBVIOUS
  <2>1. i > 1
    BY <1>0 DEF parent
  <2> QED BY <1>0, <1>4, <2>1
<1>6. \A i, j \in 1 .. n : to(i) = to(j) => i = j
  <2> SUFFICES ASSUME NEW i \in 1 .. n, NEW j \in 1 .. n, to(i) = to(j) PROVE i = j
    OBVIOUS
  <2>1. to(i) \in P <=> i \in P
    BY <1>0
  <2>2. to(j) \in P <=> j \in P
    BY <1>0
  <2>3. CASE i \notin P
    BY <2>1, <2>2, <2>3
  <2>4. CASE i \in P /\ parent(i) \in P
    <3>1. j \in P /\ parent(j) = parent(i) /\ i > 1 /\ j > 1
      BY <1>5, <2>1, <2>2, <2>4
    <3> QED BY <1>0, <2>4, <3>1, OneChild
  <2>5. CASE i \in P /\ parent(i) \notin P
    <3>1. j \in P /\ parent(j) \notin P
      BY <1>5, <2>1, <2>2, <2>5
    <3> QED BY <1>0, <2>5, <3>1
  <2> QED BY <2>3, <2>4, <2>5
<1>7. ASSUME NEW j \in 1 .. n PROVE \E i \in 1 .. n : to(i) = j
  <2>1. CASE j \notin P
    BY <2>1
  <2>2. CASE j \in P /\ j # pos
    <3>1. PICK c \in Path(pos) : c > 1 /\ parent(c) = j
      BY <1>0, <2>2, PathChild
    <3>2. c \in Nat /\ j < c
      BY <3>1, PathBounds, ParentFacts
    <3>3. c \in P
      BY <1>0, <2>2, <3>1, <3>2
    <3> QED BY <1>0, <2>2, <3>1, <3>3
  <2>3. CASE j = pos
    <3>1. P \in SUBSET Nat /\ P # {}
      BY <1>0
    <3>2. PICK t \in P : \A y \in P : t <= y
      BY <3>1, SmallestPosition
    <3>3. parent(t) \notin P
      <4> SUFFICES ASSUME parent(t) \in P PROVE FALSE
        OBVIOUS
      <4>1. t > 1 /\ parent(t) < t /\ t <= parent(t) /\ t \in Nat /\ parent(t) \in Nat
        BY <1>4, <1>5, <3>1, <3>2
      <4> QED BY <4>1
    <3> QED BY <1>0, <2>3, <3>3
  <2> QED BY <2>1, <2>2, <2>3
<1> HIDE DEF to, pi
<1>8. Permutes(h, sift_up(h, pos))
  <2>1. \A i, j \in 1 .. n : pi[i] = pi[j] => i = j
    BY <1>3, <1>6
  <2>2. \A j \in 1 .. n : \E i \in 1 .. n : pi[i] = j
    BY <1>3, <1>7
  <2>3. DOMAIN h = 1 .. n
    OBVIOUS
  <2> QED BY <1>1, <1>3, <2>1, <2>2, <2>3, Zenon DEF Permutes
<1> QED BY <1>2, <1>8 DEF P

\* sift_up repairs a heap in which the item at pos may be smaller than its ancestors.
LEMMA SiftUpOrders ==
    ASSUME NEW h, NEW n, HeapOf(h, n), NEW pos \in 1 .. n,
           \A i \in 1 .. n : i > 1 /\ i # pos => h[parent(i)].value <= h[i].value,
           \A i \in 1 .. n : i > 1 /\ pos > 1 /\ parent(i) = pos => h[parent(pos)].value <= h[i].value
    PROVE  Ordered(sift_up(h, pos))
<1> DEFINE P == UpPath(h, pos)
           g == sift_up(h, pos)
<1>0. /\ pos \in P /\ P \subseteq Path(pos) /\ P \subseteq 1 .. pos /\ P \subseteq 1 .. n
      /\ \A x \in P : x # pos => x \in Ancestors(pos) /\ h[pos].value < h[x].value
      /\ \A x \in P : x > 1 /\ parent(x) \notin P => ~(h[pos].value < h[parent(x)].value)
  <2>1. UpChain(h, n, pos, P)
    BY UpPathFacts
  <2> HIDE DEF P
  <2> QED BY <2>1, Zenon DEF UpChain
<1> USE DEF HeapOf
<1>1. /\ DOMAIN g = 1 .. n
      /\ \A i \in 1 .. n : /\ i \notin P => g[i] = h[i]
                           /\ i \in P /\ parent(i) \in P => g[i] = h[parent(i)]
                           /\ i \in P /\ parent(i) \notin P => g[i] = h[pos]
  BY Zenon DEF sift_up
<1> HIDE DEF P, g
<1>2. \A i \in 1 .. n : i > 1 => parent(i) \in 1 .. n /\ parent(i) < i
  BY ParentFacts
<1>3. \A i \in P : parent(i) \in P => i > 1 /\ parent(i) # pos /\ parent(i) < i
  <2> SUFFICES ASSUME NEW i \in P, parent(i) \in P PROVE i > 1 /\ parent(i) # pos /\ parent(i) < i
    OBVIOUS
  <2>1. i > 1
    BY <1>0 DEF parent
  <2>2. i \in Nat /\ i <= pos /\ parent(i) < i /\ parent(i) \in Nat
    BY <1>0, <2>1, ParentFacts
  <2> QED BY <2>1, <2>2
\* The path never puts a larger item where an ancestor was.
<1>4. \A a \in P : a # pos => g[a].value <= h[a].value
  <2> SUFFICES ASSUME NEW a \in P, a # pos PROVE g[a].value <= h[a].value
    OBVIOUS
  <2>1. CASE parent(a) \in P
    BY <1>0, <1>1, <1>3, <2>1
  <2>2. CASE parent(a) \notin P
    BY <1>0, <1>1, <2>2
  <2> QED BY <2>1, <2>2
<1> SUFFICES ASSUME NEW i \in 1 .. n, i > 1
             PROVE  g[parent(i)].value <= g[i].value
  BY <1>1 DEF Ordered, g
<1> DEFINE a == parent(i)
<1>5. a \in 1 .. n /\ a < i
  BY <1>2
<1>6. CASE i \in P /\ a \in P
  BY <1>1, <1>3, <1>4, <1>5, <1>6
<1>7. CASE i \in P /\ a \notin P
  BY <1>0, <1>1, <1>5, <1>7
<1>8. CASE i \notin P /\ a \in P
  <2>0. g[i] = h[i] /\ i # pos /\ h[a].value <= h[i].value
    BY <1>0, <1>1, <1>8
  <2>1. CASE a # pos
    <3>1. g[a].value <= h[a].value
      BY <1>4, <1>8, <2>1
    <3>2. g[a].value \in Nat
      BY <1>0, <1>1, <1>8
    <3> QED BY <1>5, <2>0, <3>1, <3>2
  <2>2. CASE a = pos /\ parent(pos) \in P
    BY <1>0, <1>1, <1>3, <2>0, <2>2
  <2>3. CASE a = pos /\ parent(pos) \notin P
    BY <1>0, <1>1, <2>0, <2>3
  <2> QED BY <2>1, <2>2, <2>3
<1>9. CASE i \notin P /\ a \notin P
  BY <1>0, <1>1, <1>5, <1>9
<1> QED BY <1>6, <1>7, <1>8, <1>9

-----------------------------------------------------------------------------
(* sift_down                                                               *)

\* Two children of one parent do not both win.
LEMMA OneWins ==
    ASSUME NEW h, NEW n, HeapOf(h, n), NEW t, NEW c \in 1 .. n, NEW d \in 1 .. n,
           c > 1, d > 1, parent(c) = parent(d), Wins(h, c, t), Wins(h, d, t)
    PROVE  c = d
<1> USE DEF HeapOf
<1>1. \A x, y \in 1 .. n : x > 1 /\ y > 1 /\ parent(x) = parent(y) /\ Wins(h, x, t) /\ Wins(h, y, t)
                            => ~(x < y)
  <2> SUFFICES ASSUME NEW x \in 1 .. n, NEW y \in 1 .. n, x > 1, y > 1, parent(x) = parent(y),
                      Wins(h, x, t), Wins(h, y, t), x < y
               PROVE  FALSE
    OBVIOUS
  <2>1. x % 2 = 0 /\ y = x + 1 /\ y % 2 # 0
    BY DEF parent
  <2>2. h[x].value <= h[y].value
    BY <2>1 DEF Wins
  <2>3. h[y].value < h[x].value
    <3>1. h[y].value < h[y - 1].value
      BY <2>1 DEF Wins
    <3> QED BY <2>1, <3>1
  <2> QED BY <2>2, <2>3
<1> QED BY <1>1

\* The chain of sift_down goes down from pos, over children that win.
DownChain(h, n, pos, D) ==
    /\ pos \in D /\ D \subseteq 1 .. n /\ \A x \in D : pos <= x /\ pos \in Path(x)
    /\ \A x \in D : x # pos => x > 1 /\ parent(x) \in D /\ Wins(h, x, h[pos])
    /\ \A x \in 1 .. n : x > 1 /\ parent(x) \in D /\ Wins(h, x, h[pos]) => x \in D
    /\ \A x, y \in D : x # pos /\ y # pos /\ parent(x) = parent(y) => x = y

LEMMA DownPathFacts ==
    ASSUME NEW h, NEW n, HeapOf(h, n), NEW pos \in 1 .. n
    PROVE  DownChain(h, n, pos, DownPath(h, pos))
<1> DEFINE D == DownPath(h, pos)
<1> USE DEF HeapOf
<1>0. \A x : x \in D <=> /\ x \in 1 .. n
                         /\ x = pos \/ pos \in Ancestors(x)
                         /\ \A a \in Ancestors(x) \cup {x} : a > pos => Wins(h, a, h[pos])
  BY Zenon DEF DownPath
<1> HIDE DEF D
<1>1. pos \in D
  <2>1. \A a \in Ancestors(pos) \cup {pos} : ~(a > pos)
    BY AncestorBounds
  <2> QED BY <1>0, <2>1
<1>2. D \subseteq 1 .. n /\ \A x \in D : pos <= x /\ pos \in Path(x)
  BY <1>0, AncestorBounds DEF Path
<1>3. ASSUME NEW x \in D, x # pos
      PROVE  x > 1 /\ parent(x) \in D /\ Wins(h, x, h[pos])
  <2>1. pos \in Ancestors(x) /\ x \in 1 .. n
    BY <1>0, <1>3
  <2>2. x > 1 /\ pos < x
    BY <2>1, AncestorBounds
  <2>3. Wins(h, x, h[pos])
    BY <1>0, <2>2
  <2>4. Ancestors(x) = {parent(x)} \cup Ancestors(parent(x)) /\ parent(x) \in 1 .. n
    BY <2>1, <2>2, AncestorsUnfold, ParentFacts
  <2>5. parent(x) = pos \/ pos \in Ancestors(parent(x))
    BY <2>1, <2>4
  <2>6. \A a \in Ancestors(parent(x)) \cup {parent(x)} : a > pos => Wins(h, a, h[pos])
    BY <1>0, <2>4
  <2> QED BY <1>0, <2>2, <2>3, <2>4, <2>5, <2>6
<1>4. ASSUME NEW x \in 1 .. n, x > 1, parent(x) \in D, Wins(h, x, h[pos])
      PROVE  x \in D
  <2>1. Ancestors(x) = {parent(x)} \cup Ancestors(parent(x))
    BY <1>4, AncestorsUnfold
  <2>2. pos \in Ancestors(x)
    BY <1>0, <1>4, <2>1
  <2>3. \A a \in Ancestors(x) \cup {x} : a > pos => Wins(h, a, h[pos])
    BY <1>0, <1>4, <2>1
  <2> QED BY <1>0, <2>2, <2>3
<1>5. \A x, y \in D : x # pos /\ y # pos /\ parent(x) = parent(y) => x = y
  BY <1>2, <1>3, OneWins
<1>6. DownChain(h, n, pos, D)
  BY <1>1, <1>2, <1>3, <1>4, <1>5, Zenon DEF DownChain
<1> QED BY <1>6 DEF D

\* The chain has one end: a member without a child in it is below all the others.
LEMMA OneEnd ==
    ASSUME NEW h, NEW n, HeapOf(h, n), NEW pos \in 1 .. n, NEW D, DownChain(h, n, pos, D),
           NEW i \in D, \A x \in D : x > 1 => parent(x) # i,
           NEW j \in D
    PROVE  j <= i
<1>0. /\ pos \in D /\ D \subseteq 1 .. n /\ \A x \in D : pos <= x /\ pos \in Path(x)
      /\ \A x \in D : x # pos => x > 1 /\ parent(x) \in D /\ Wins(h, x, h[pos])
      /\ \A x \in 1 .. n : x > 1 /\ parent(x) \in D /\ Wins(h, x, h[pos]) => x \in D
      /\ \A x, y \in D : x # pos /\ y # pos /\ parent(x) = parent(y) => x = y
  BY Zenon DEF DownChain
<1>1. i \in Nat /\ i >= 1 /\ i \in 1 .. n
  BY <1>0 DEF HeapOf
\* All that is on the path from i up to pos is in D.
<1>2. ASSUME NEW c \in Path(i), c > pos PROVE c \in D
  <2> DEFINE S == {x \in Ancestors(i) : x >= pos => x \in D}
  <2>1. i > 1 => parent(i) \in S
    <3> SUFFICES ASSUME i > 1, parent(i) >= pos PROVE parent(i) \in D
      BY <1>1, ParentIsAncestor
    <3>1. i # pos
      BY <1>1, ParentFacts
    <3> QED BY <1>0, <3>1
  <2>2. \A x \in Ancestors(i) : x \in S /\ x > 1 => parent(x) \in S
    <3> SUFFICES ASSUME NEW x \in S, x > 1, parent(x) >= pos PROVE parent(x) \in D
      BY <1>1, ParentOfAncestor
    <3>1. x \in Nat /\ parent(x) < x /\ parent(x) \in Nat
      BY <1>1, AncestorBounds, ParentFacts
    <3>2. x >= pos /\ x # pos
      BY <3>1
    <3> QED BY <1>0, <3>2
  <2> HIDE DEF S
  <2>3. Ancestors(i) \subseteq S
    BY <1>1, <2>1, <2>2, AncestorInduction
  <2>4. pos \in Nat /\ c \in Nat
    BY <1>0, <1>1, PathBounds
  <2> QED BY <1>2, <2>3, <2>4 DEF Path, S
<1>3. j \in Path(i)
  <2> SUFFICES ASSUME j \notin Path(i) PROVE FALSE
    OBVIOUS
  <2> DEFINE T == {x \in D : x \notin Path(i)}
  <2>1. T \in SUBSET Nat /\ T # {}
    <3>1. D \subseteq Nat
      BY <1>0
    <3>2. j \in T
      OBVIOUS
    <3> QED BY <3>1, <3>2
  <2>2. PICK x \in T : \A y \in T : x <= y
    <3> HIDE DEF T
    <3> QED BY <2>1, SmallestPosition
  <2>3. x \in D /\ x \notin Path(i) /\ x # pos /\ x \in Nat
    BY <1>0
  <2>4. x > 1 /\ parent(x) \in D /\ parent(x) < x /\ parent(x) \in Nat
    BY <1>0, <2>3, ParentFacts
  <2>5. parent(x) \in Path(i)
    <3> SUFFICES ASSUME parent(x) \notin Path(i) PROVE FALSE
      OBVIOUS
    <3>1. x <= parent(x)
      BY <2>2, <2>4
    <3> QED BY <2>3, <2>4, <3>1
  <2>6. parent(x) # i
    BY <2>3, <2>4
  <2>7. PICK c \in Path(i) : c > 1 /\ parent(c) = parent(x)
    BY <1>1, <2>5, <2>6, PathChild DEF Path
  <2>8. c \in Nat /\ parent(c) < c /\ pos <= parent(c) /\ parent(c) \in Nat
    BY <1>0, <1>1, <2>4, <2>7, PathBounds, ParentFacts
  <2>9. c \in D /\ c # pos
    BY <1>2, <2>8
  <2> QED BY <1>0, <2>3, <2>7, <2>9
<1> QED BY <1>1, <1>3, PathBounds

\* The loop moves every item of the chain one position up, and the first to its end.
LEMMA SiftDownPermutes ==
    ASSUME NEW h, NEW n, HeapOf(h, n), NEW pos \in 1 .. n
    PROVE  /\ Permutes(h, sift_down(h, pos))
           /\ \A i \in 1 .. n : i \notin DownPath(h, pos) => sift_down(h, pos)[i] = h[i]
<1> USE DEF HeapOf
<1> DEFINE D == DownPath(h, pos)
           to(i) == IF i \in D
                    THEN IF left_child(i) \in D THEN left_child(i)
                         ELSE IF right_child(i) \in D THEN right_child(i) ELSE pos
                    ELSE i
           pi == [i \in 1 .. n |-> to(i)]
<1>A. DownChain(h, n, pos, D)
  BY DownPathFacts
<1>1. sift_down(h, pos) = [i \in 1 .. n |-> h[pi[i]]]
  <2> DEFINE G(i) == IF i \in D
                     THEN IF left_child(i) \in D THEN h[left_child(i)]
                          ELSE IF right_child(i) \in D THEN h[right_child(i)]
                          ELSE h[pos]
                     ELSE h[i]
  <2>1. sift_down(h, pos) = [i \in 1 .. n |-> G(i)]
    BY Zenon DEF sift_down
  <2>2. \A i \in 1 .. n : h[pi[i]] = G(i)
    BY Zenon
  <2> QED BY <2>1, <2>2, Zenon
<1>2. \A i \in 1 .. n : i \notin D => sift_down(h, pos)[i] = h[i]
  BY <1>1, Zenon
<1> HIDE DEF D
<1>0. /\ pos \in D /\ D \subseteq 1 .. n /\ \A x \in D : pos <= x
      /\ \A x \in D : x # pos => x > 1 /\ parent(x) \in D
      /\ \A x, y \in D : x # pos /\ y # pos /\ parent(x) = parent(y) => x = y
  BY <1>A, Zenon DEF DownChain
<1> DEFINE End(i) == i \in D /\ \A x \in D : x > 1 => parent(x) # i
<1>3. ASSUME NEW i \in D
      PROVE  \/ /\ ~End(i) /\ to(i) \in D /\ to(i) # pos /\ to(i) > 1 /\ parent(to(i)) = i
             \/ End(i) /\ to(i) = pos
  <2>0. /\ i \in Nat /\ i >= 1 /\ pos <= i /\ 2 * i \in Nat /\ 2 * i > 1 /\ 2 * i # pos /\ 2 * i + 1 # pos
        /\ parent(2 * i) = i /\ parent(2 * i + 1) = i
    <3>1. i \in Nat /\ i >= 1 /\ pos <= i /\ pos \in Nat
      BY <1>0
    <3>2. /\ parent(2 * i) = i /\ parent(2 * i + 1) = i
          /\ 2 * i \in Nat /\ 2 * i > 1 /\ 2 * i + 1 > 1
      BY <3>1, ChildFacts
    <3>3. 2 * i > pos /\ 2 * i + 1 > pos
      BY <3>1
    <3> QED BY <3>1, <3>2, <3>3
  <2>1. CASE 2 * i \in D
    BY <2>0, <2>1 DEF left_child
  <2>2. CASE 2 * i \notin D /\ 2 * i + 1 \in D
    BY <2>0, <2>2 DEF left_child, right_child
  <2>3. CASE 2 * i \notin D /\ 2 * i + 1 \notin D
    <3>1. to(i) = pos
      BY <2>3 DEF left_child, right_child
    <3>2. \A x \in D : x > 1 /\ parent(x) = i => x = 2 * i \/ x = 2 * i + 1
      <4>1. \A x \in D : x \in Nat
        BY <1>0
      <4> QED BY <4>1, ParentFacts
    <3> QED BY <2>3, <3>1, <3>2
  <2> QED BY <2>1, <2>2, <2>3
<1>4. \A i \in 1 .. n : i \notin D => to(i) = i
  OBVIOUS
<1>5. pi \in [1 .. n -> 1 .. n] /\ \A i \in 1 .. n : pi[i] = to(i)
  <2>1. \A i \in 1 .. n : to(i) \in 1 .. n
    BY <1>0, <1>3, <1>4
  <2> HIDE DEF to
  <2> QED BY <2>1
<1> HIDE DEF to
<1>6. \A i, j \in 1 .. n : to(i) = to(j) => i = j
  <2> SUFFICES ASSUME NEW i \in 1 .. n, NEW j \in 1 .. n, to(i) = to(j) PROVE i = j
    OBVIOUS
  <2>1. (to(i) \in D <=> i \in D) /\ (to(j) \in D <=> j \in D)
    BY <1>0, <1>3, <1>4
  <2>2. CASE i \notin D
    BY <1>4, <2>1, <2>2
  <2>3. CASE i \in D /\ ~End(i)
    BY <1>3, <2>1, <2>3
  <2>4. CASE i \in D /\ End(i)
    <3>1. j \in D /\ End(j)
      BY <1>3, <2>1, <2>4
    <3>2. j <= i /\ i <= j
      BY <1>A, <2>4, <3>1, OneEnd
    <3> QED BY <3>2
  <2> QED BY <2>2, <2>3, <2>4
<1>7. ASSUME NEW j \in 1 .. n PROVE \E i \in 1 .. n : to(i) = j
  <2>1. CASE j \notin D
    BY <1>4, <2>1
  <2>2. CASE j \in D /\ j # pos
    <3>1. j > 1 /\ parent(j) \in D /\ parent(j) \in 1 .. n
      BY <1>0, <2>2
    <3>2. ~End(parent(j))
      BY <2>2, <3>1
    <3>3. to(parent(j)) \in D /\ to(parent(j)) # pos /\ parent(to(parent(j))) = parent(j)
      BY <1>3, <3>1, <3>2
    <3>4. to(parent(j)) = j
      BY <1>0, <2>2, <3>3
    <3> QED BY <3>1, <3>4
  <2>3. CASE j = pos
    <3>1. PICK t \in D : \A y \in D : y <= t
      BY <1>0, LargestPosition
    <3>2. End(t)
      <4> SUFFICES ASSUME NEW x \in D, x > 1, parent(x) = t PROVE FALSE
        OBVIOUS
      <4>1. x \in Nat /\ x <= t /\ t < x /\ t \in Nat
        BY <1>0, <3>1, ParentFacts
      <4> QED BY <4>1
    <3>3. to(t) = pos
      BY <1>3, <3>2
    <3> QED BY <1>0, <2>3, <3>3
  <2> QED BY <2>1, <2>2, <2>3
<1>8. Permutes(h, sift_down(h, pos))
  <2> HIDE DEF pi
  <2>1. \A i, j \in 1 .. n : pi[i] = pi[j] => i = j
    BY <1>5, <1>6
  <2>2. \A j \in 1 .. n : \E i \in 1 .. n : pi[i] = j
    BY <1>5, <1>7
  <2>3. DOMAIN h = 1 .. n
    OBVIOUS
  <2> QED BY <1>1, <1>5, <2>1, <2>2, <2>3, Zenon DEF Permutes
<1> QED BY <1>2, <1>8 DEF D

\* A child that does not win, and has a parent in the chain, is not smaller than
\* the moving item, or its sibling wins.
LEMMA LoserOrSibling ==
    ASSUME NEW h, NEW n, HeapOf(h, n), NEW t, t.value \in Nat, NEW i \in 1 .. n, i > 1,
           ~Wins(h, i, t)
    PROVE  \/ t.value <= h[i].value
           \/ \E s \in 1 .. n : s > 1 /\ s # i /\ parent(s) = parent(i) /\ Wins(h, s, t)
<1> USE DEF HeapOf
<1> SUFFICES ASSUME h[i].value < t.value
             PROVE  \E s \in 1 .. n : s > 1 /\ s # i /\ parent(s) = parent(i) /\ Wins(h, s, t)
  OBVIOUS
<1>1. CASE i % 2 = 0
  <2>1. i + 1 \in 1 .. n /\ h[i + 1].value < h[i].value
    BY <1>1 DEF Wins
  <2>2. (i + 1) % 2 # 0 /\ parent(i + 1) = parent(i) /\ (i + 1) - 1 = i /\ i + 1 > 1 /\ i + 1 # i
    BY <1>1 DEF parent
  <2>3. Wins(h, i + 1, t)
    BY <2>1, <2>2 DEF Wins
  <2> QED BY <2>1, <2>2, <2>3
<1>2. CASE i % 2 # 0
  <2>1. i - 1 \in 1 .. n /\ (i - 1) % 2 = 0 /\ parent(i - 1) = parent(i) /\ (i - 1) + 1 = i
        /\ i - 1 > 1 /\ i - 1 # i
    BY <1>2 DEF parent
  <2>2. h[i - 1].value <= h[i].value
    BY <1>2, <2>1 DEF Wins
  <2>3. Wins(h, i - 1, t)
    BY <2>1, <2>2 DEF Wins
  <2> QED BY <2>1, <2>3
<1> QED BY <1>1, <1>2

\* The child that wins is not larger than its sibling.
LEMMA WinnerSmaller ==
    ASSUME NEW h, NEW n, HeapOf(h, n), NEW t, NEW c \in 1 .. n, NEW i \in 1 .. n,
           c > 1, i > 1, parent(c) = parent(i), Wins(h, c, t)
    PROVE  h[c].value <= h[i].value
<1> USE DEF HeapOf
<1>1. CASE i = c
  BY <1>1
<1>2. CASE i # c /\ c % 2 = 0
  <2>1. i = c + 1
    BY <1>2, SMTT(30) DEF parent
  <2> QED BY <1>2, <2>1 DEF Wins
<1>3. CASE i # c /\ c % 2 # 0
  <2>1. i = c - 1
    BY <1>3 DEF parent
  <2> QED BY <1>3, <2>1 DEF Wins
<1> QED BY <1>1, <1>2, <1>3

\* sift_down repairs a heap in which the item at pos may be larger than its children.
LEMMA SiftDownOrders ==
    ASSUME NEW h, NEW n, HeapOf(h, n), NEW pos \in 1 .. n,
           \A i \in 1 .. n : i > 1 /\ parent(i) # pos => h[parent(i)].value <= h[i].value,
           \A i \in 1 .. n : i > 1 /\ pos > 1 /\ parent(i) = pos => h[parent(pos)].value <= h[i].value
    PROVE  Ordered(sift_down(h, pos))
<1> DEFINE D == DownPath(h, pos)
           g == sift_down(h, pos)
           t == h[pos]
<1>A. DownChain(h, n, pos, D)
  BY DownPathFacts
<1> USE DEF HeapOf
<1>1. /\ DOMAIN g = 1 .. n
      /\ \A i \in 1 .. n :
            /\ i \notin D => g[i] = h[i]
            /\ i \in D /\ left_child(i) \in D => g[i] = h[left_child(i)]
            /\ i \in D /\ left_child(i) \notin D /\ right_child(i) \in D => g[i] = h[right_child(i)]
            /\ i \in D /\ left_child(i) \notin D /\ right_child(i) \notin D => g[i] = t
  BY Zenon DEF sift_down
<1> HIDE DEF D, g
<1>0. /\ pos \in D /\ D \subseteq 1 .. n /\ \A x \in D : pos <= x
      /\ \A x \in D : x # pos => x > 1 /\ parent(x) \in D /\ Wins(h, x, t)
      /\ \A x \in 1 .. n : x > 1 /\ parent(x) \in D /\ Wins(h, x, t) => x \in D
      /\ \A x, y \in D : x # pos /\ y # pos /\ parent(x) = parent(y) => x = y
  BY <1>A, Zenon DEF DownChain
\* A member of the chain gets the item of its child in the chain, or at the end the moving one.
<1>2. ASSUME NEW a \in D
      PROVE  \/ \E c \in D : c # pos /\ c > 1 /\ parent(c) = a /\ g[a] = h[c]
             \/ g[a] = t /\ \A x \in D : x # pos => parent(x) # a
  <2>1. a \in Nat /\ a >= 1 /\ a \in 1 .. n /\ pos <= a /\ pos \in Nat
    BY <1>0
  <2>2. /\ parent(2 * a) = a /\ parent(2 * a + 1) = a /\ 2 * a > 1 /\ 2 * a + 1 > 1
    BY <2>1, ChildFacts
  <2>3. 2 * a # pos /\ 2 * a + 1 # pos
    BY <2>1
  <2>4. CASE 2 * a \in D
    BY <1>1, <2>1, <2>2, <2>3, <2>4 DEF left_child
  <2>5. CASE 2 * a \notin D /\ 2 * a + 1 \in D
    BY <1>1, <2>1, <2>2, <2>3, <2>5 DEF left_child, right_child
  <2>6. CASE 2 * a \notin D /\ 2 * a + 1 \notin D
    <3>1. g[a] = t
      BY <1>1, <2>1, <2>6 DEF left_child, right_child
    <3>2. \A x \in D : x # pos => x = 2 * parent(x) \/ x = 2 * parent(x) + 1
      <4>1. \A x \in D : x \in Nat
        BY <1>0
      <4> QED BY <1>0, <4>1, ParentFacts
    <3> QED BY <2>6, <3>1, <3>2
  <2> QED BY <2>4, <2>5, <2>6
<1> SUFFICES ASSUME NEW i \in 1 .. n, i > 1
             PROVE  g[parent(i)].value <= g[i].value
  BY <1>1 DEF Ordered, g
<1> DEFINE a == parent(i)
<1>3. a \in 1 .. n /\ a < i /\ t.value \in Nat
  BY ParentFacts
<1>4. CASE i \in D /\ a \in D
  <2>1. i # pos
    <3>1. pos <= a
      BY <1>0, <1>4
    <3> QED BY <1>3, <3>1
  <2>2. g[a] = h[i]
    BY <1>0, <1>2, <1>4, <2>1
  <2>3. h[i].value < t.value
    BY <1>0, <1>4, <2>1 DEF Wins
  <2>4. \A c \in D : c > 1 /\ parent(c) = i => h[i].value <= h[c].value
    BY <1>0, <2>1
  <2> QED BY <1>2, <1>4, <2>2, <2>3, <2>4
<1>5. CASE i \in D /\ a \notin D
  <2>1. i = pos /\ g[a] = h[a] /\ a # pos
    BY <1>0, <1>1, <1>3, <1>5
  <2>2. h[a].value <= t.value
    BY <2>1
  <2>3. \A c \in D : c > 1 /\ parent(c) = i => h[a].value <= h[c].value
    BY <1>0, <2>1
  <2> QED BY <1>2, <1>5, <2>1, <2>2, <2>3
<1>6. CASE i \notin D /\ a \in D
  <2>0. g[i] = h[i]
    BY <1>1, <1>6
  <2>1. CASE \E c \in D : c # pos /\ c > 1 /\ parent(c) = a /\ g[a] = h[c]
    <3>1. PICK c \in D : c # pos /\ c > 1 /\ parent(c) = a /\ g[a] = h[c]
      BY <2>1
    <3>2. h[c].value <= h[i].value
      BY <1>0, <3>1, WinnerSmaller
    <3> QED BY <2>0, <3>1, <3>2
  <2>2. CASE g[a] = t /\ \A x \in D : x # pos => parent(x) # a
    <3>1. ~Wins(h, i, t)
      BY <1>0, <1>6
    <3>2. ASSUME NEW s \in 1 .. n, s > 1, parent(s) = a, Wins(h, s, t) PROVE FALSE
      <4>1. s \in D
        BY <1>0, <1>6, <3>2
      <4>2. s # pos
        <5>1. pos <= a /\ a < s
          BY <1>0, <1>6, <3>2, ParentFacts
        <5> QED BY <1>3, <5>1
      <4> QED BY <2>2, <3>2, <4>1, <4>2
    <3>3. t.value <= h[i].value
      <4> DEFINE tt == h[pos]
      <4>1. tt.value \in Nat /\ ~Wins(h, i, tt)
        BY <1>3, <3>1
      <4>2. ~\E s \in 1 .. n : s > 1 /\ s # i /\ parent(s) = parent(i) /\ Wins(h, s, tt)
        BY <3>2
      <4> HIDE DEF tt, HeapOf
      <4>3. tt.value <= h[i].value
        BY <4>1, <4>2, LoserOrSibling, Zenon
      <4> QED BY <4>3 DEF tt
    <3> QED BY <2>0, <2>2, <3>3
  <2> QED BY <1>2, <1>6, <2>1, <2>2
<1>7. CASE i \notin D /\ a \notin D
  BY <1>0, <1>1, <1>3, <1>7
<1> QED BY <1>4, <1>5, <1>6, <1>7

-----------------------------------------------------------------------------
(* update                                                                  *)

\* update(pos) moves items along a path of positions and loses none.
LEMMA UpdatePermutes ==
    ASSUME NEW h, NEW n, HeapOf(h, n), NEW pos \in 1 .. n
    PROVE  /\ Permutes(h, update(h, pos)) /\ UpdatePath(h, pos) \subseteq 1 .. n
           /\ \A i \in 1 .. n : i \notin UpdatePath(h, pos) => update(h, pos)[i] = h[i]
<1>1. UpPath(h, pos) \subseteq 1 .. n
  BY UpPathFacts DEF UpChain
<1>2. DownPath(h, pos) \subseteq 1 .. n
  BY DownPathFacts DEF DownChain
<1>3. CASE MovesUp(h, pos)
  BY <1>1, <1>3, SiftUpPermutes DEF update, UpdatePath
<1>4. CASE ~MovesUp(h, pos)
  BY <1>2, <1>4, SiftDownPermutes DEF update, UpdatePath
<1> QED BY <1>3, <1>4

\* update(pos) repairs a heap in which the item at pos got another value.
LEMMA UpdateOrders ==
    ASSUME NEW h, NEW n, HeapOf(h, n), NEW pos \in 1 .. n,
           \A i \in 1 .. n : i > 1 /\ i # pos /\ parent(i) # pos => h[parent(i)].value <= h[i].value,
           \A i \in 1 .. n : i > 1 /\ pos > 1 /\ parent(i) = pos => h[parent(pos)].value <= h[i].value
    PROVE  Ordered(update(h, pos))
<1>1. CASE MovesUp(h, pos)
  <2>1. pos > 1 /\ h[pos].value < h[parent(pos)].value
    BY <1>1 DEF MovesUp
  <2>2. pos \in Nat /\ parent(pos) \in 1 .. n /\ parent(pos) < pos
    BY <2>1, ParentFacts DEF HeapOf
  <2>3. \A i \in 1 .. n : i > 1 /\ i # pos => h[parent(i)].value <= h[i].value
    BY <2>1, <2>2 DEF HeapOf
  <2> QED BY <1>1, <2>3, SiftUpOrders DEF update
<1>2. CASE ~MovesUp(h, pos)
  <2>1. pos > 1 => parent(pos) \in 1 .. n
    BY ParentFacts DEF HeapOf
  <2>2. \A i \in 1 .. n : i > 1 /\ parent(i) # pos => h[parent(i)].value <= h[i].value
    BY <1>2, <2>1 DEF MovesUp, HeapOf
  <2> QED BY <1>2, <2>2, SiftDownOrders DEF update
<1> QED BY <1>1, <1>2
=============================================================================
