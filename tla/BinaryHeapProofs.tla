-------------------------- MODULE BinaryHeapProofs --------------------------
(***************************************************************************)
(* The sift loops of heap.hpp are correct for heaps of any size: an        *)
(* inductive invariant that says what holds at every iteration, with the   *)
(* moving item out of the array.                                           *)
(***************************************************************************)
EXTENDS BinaryHeap, HeapOpsProofs, SequenceTheorems, TLAPS

Running == mode \in {"up", "down"}

\* The item at position i, the moving one in its hole.
At(i) == IF Running /\ i = pos THEN temp ELSE items[i]

\* Position i is in order with its parent.
InOrder(i) == At(parent(i)).value <= At(i).value

\* Outside the loops every position is in order.
IdleOrder ==
    ~Running => \A i \in DOMAIN items : i > 1 => InOrder(i)

\* In sift_up only the hole may be smaller than its parent, and the parent of
\* the hole is in order with the children of the hole.
UpOrder ==
    mode = "up" =>
        \A i \in DOMAIN items : i > 1 =>
            /\ i # pos => InOrder(i)
            /\ parent(i) = pos /\ pos > 1 => At(parent(pos)).value <= At(i).value

\* In sift_down only the children of the hole may be smaller than it, and they
\* are in order with the parent of the hole.
DownOrder ==
    mode = "down" =>
        \A i \in DOMAIN items : i > 1 =>
            /\ parent(i) # pos => InOrder(i)
            /\ parent(i) = pos /\ pos > 1 => At(parent(pos)).value <= At(i).value

\* Every owner but the moving item's has its position.
RefInv == \A i \in DOMAIN items : ~(Running /\ i = pos) => position[items[i].ref] = i

\* The owners are distinct.
Distinct == \A i, j \in DOMAIN items : At(i).ref = At(j).ref => i = j

IInv == TypeOK /\ IdleOrder /\ UpOrder /\ DownOrder /\ RefInv /\ Distinct

-----------------------------------------------------------------------------
\* The tree arithmetic of parent, left_child and right_child.
LEMMA Tree ==
    ASSUME NEW i \in Nat, i > 1
    PROVE  /\ parent(i) \in Nat /\ parent(i) >= 1 /\ parent(i) < i
           /\ i = left_child(parent(i)) \/ i = right_child(parent(i))
BY DEF parent, left_child, right_child

\* The children of a position have it as their parent.
LEMMA Children ==
    ASSUME NEW p \in Nat, p > 0
    PROVE  /\ left_child(p) \in Nat /\ left_child(p) > p /\ parent(left_child(p)) = p
           /\ right_child(p) \in Nat /\ right_child(p) > p /\ parent(right_child(p)) = p
           /\ left_child(p) # right_child(p)
BY DEF parent, left_child, right_child

\* Typed facts about the items, for the steps below.
LEMMA Items ==
    ASSUME TypeOK
    PROVE  /\ DOMAIN items = 1 .. Len(items) /\ Len(items) \in Nat
           /\ \A i \in DOMAIN items :
                 /\ i \in Nat /\ i >= 1
                 /\ items[i] \in Item /\ items[i].value \in Nat /\ items[i].ref \in Ids
           /\ Running => pos \in DOMAIN items /\ temp.value \in Nat /\ temp.ref \in Ids
<1>1. DOMAIN items = 1 .. Len(items) /\ Len(items) \in Nat
  BY DEF TypeOK
<1>2. \A i \in DOMAIN items : items[i] \in Item
  BY DEF TypeOK
<1>3. \A x \in Item : x.value \in Nat /\ x.ref \in Ids
  BY BinaryHeapAssumption DEF Item
<1>4. Running => pos \in DOMAIN items /\ temp \in Item
  BY DEF TypeOK, Running
<1> QED BY <1>1, <1>2, <1>3, <1>4

\* Ancestors of positions in the heap are in the heap.
LEMMA ParentInHeap ==
    ASSUME TypeOK, NEW i \in DOMAIN items, i > 1
    PROVE  parent(i) \in DOMAIN items /\ parent(i) < i
BY Items, Tree

-----------------------------------------------------------------------------
\* Starting sift_up on a heap h that is ordered except above p.
LEMMA StartUp ==
    ASSUME IInv, mode = "idle", NEW h \in Seq(Item), NEW p \in DOMAIN h,
           Start("up", h, p),
           \A i \in DOMAIN h : i > 1 =>
               /\ i # p => h[parent(i)].value <= h[i].value
               /\ parent(i) = p /\ p > 1 => h[parent(p)].value <= h[i].value,
           \A i \in DOMAIN h : i # p => position[h[i].ref] = i,
           \A i, j \in DOMAIN h : h[i].ref = h[j].ref => i = j
    PROVE  IInv'
<1>1. /\ items' = h /\ mode' = "up" /\ pos' = p /\ temp' = h[p] /\ position' = position
  BY DEF Start
<1>2. DOMAIN h = 1 .. Len(h) /\ p \in Nat /\ h[p] \in Item
  OBVIOUS
<1>3. TypeOK'
  BY <1>1, <1>2 DEF IInv, TypeOK
<1>4. \A i \in DOMAIN h : At(i)' = h[i]
  BY <1>1 DEF At
<1>5. \A i \in DOMAIN h : i > 1 => parent(i) \in DOMAIN h
  BY <1>2, Tree
<1>6. UpOrder'
  BY <1>1, <1>4, <1>5 DEF UpOrder, InOrder
<1>7. IdleOrder' /\ DownOrder'
  BY <1>1 DEF IdleOrder, DownOrder, Running
<1>8. RefInv'
  BY <1>1 DEF RefInv, Running
<1>9. Distinct'
  BY <1>1, <1>4 DEF Distinct
<1> QED BY <1>3, <1>6, <1>7, <1>8, <1>9 DEF IInv

\* Starting sift_down on a heap h that is ordered except below p.
LEMMA StartDown ==
    ASSUME IInv, mode = "idle", NEW h \in Seq(Item), NEW p \in DOMAIN h,
           Start("down", h, p),
           \A i \in DOMAIN h : i > 1 =>
               /\ parent(i) # p => h[parent(i)].value <= h[i].value
               /\ parent(i) = p /\ p > 1 => h[parent(p)].value <= h[i].value,
           \A i \in DOMAIN h : i # p => position[h[i].ref] = i,
           \A i, j \in DOMAIN h : h[i].ref = h[j].ref => i = j
    PROVE  IInv'
<1>1. /\ items' = h /\ mode' = "down" /\ pos' = p /\ temp' = h[p] /\ position' = position
  BY DEF Start
<1>2. DOMAIN h = 1 .. Len(h) /\ p \in Nat /\ h[p] \in Item
  OBVIOUS
<1>3. TypeOK'
  BY <1>1, <1>2 DEF IInv, TypeOK
<1>4. \A i \in DOMAIN h : At(i)' = h[i]
  BY <1>1 DEF At
<1>5. \A i \in DOMAIN h : i > 1 => parent(i) \in DOMAIN h
  BY <1>2, Tree
<1>6. DownOrder'
  BY <1>1, <1>4, <1>5 DEF DownOrder, InOrder
<1>7. IdleOrder' /\ UpOrder'
  BY <1>1 DEF IdleOrder, UpOrder, Running
<1>8. RefInv'
  BY <1>1 DEF RefInv, Running
<1>9. Distinct'
  BY <1>1, <1>4 DEF Distinct
<1> QED BY <1>3, <1>6, <1>7, <1>8, <1>9 DEF IInv
\* push appends the item: nothing hangs below the new position.
LEMMA PushKeeps ==
    ASSUME IInv, NEW id \in Ids, NEW v \in Values, push(id, v)
    PROVE  IInv'
<1> DEFINE item == [value |-> v, ref |-> id]
           h == Append(items, item)
           p == Len(items) + 1
<1>1. mode = "idle" /\ id \notin Owners /\ Start("up", h, p)
  BY DEF push
<1>2. item \in Item /\ item.ref = id
  BY DEF Item
<1>3. /\ DOMAIN items = 1 .. Len(items) /\ Len(items) \in Nat
      /\ \A i \in DOMAIN items : i \in Nat /\ i >= 1 /\ items[i] \in Item
  BY Items DEF IInv
<1> HIDE DEF item
<1>4. /\ h \in Seq(Item) /\ DOMAIN h = 1 .. p /\ p \in DOMAIN h
      /\ \A i \in DOMAIN h : i # p => i \in DOMAIN items /\ h[i] = items[i]
      /\ h[p] = item
  BY <1>2, <1>3 DEF IInv, TypeOK
<1> HIDE DEF h
<1>5. ~Running
  BY <1>1 DEF Running
<1>6. \A i \in DOMAIN items : At(i) = items[i]
  BY <1>5 DEF At
<1>7. ASSUME NEW i \in DOMAIN h, i > 1
      PROVE  /\ i # p => h[parent(i)].value <= h[i].value
             /\ parent(i) = p /\ p > 1 => h[parent(p)].value <= h[i].value
  <2>1. parent(i) \in Nat /\ parent(i) >= 1 /\ parent(i) < i /\ i <= p
    BY <1>3, <1>4, <1>7, Tree
  <2>2. parent(i) # p /\ parent(i) \in DOMAIN h
    BY <1>3, <1>4, <2>1
  <2>3. CASE i # p
    <3>1. i \in DOMAIN items /\ parent(i) \in DOMAIN items
      BY <1>4, <2>2, <2>3
    <3>2. items[parent(i)].value <= items[i].value
      BY <1>5, <1>6, <1>7, <3>1 DEF IInv, IdleOrder, InOrder
    <3> QED BY <1>4, <2>2, <2>3, <3>1, <3>2
  <2> QED BY <2>2, <2>3
<1>8. \A i \in DOMAIN h : i # p => position[h[i].ref] = i
  BY <1>4, <1>5 DEF IInv, RefInv
<1>9. ASSUME NEW i \in DOMAIN h, NEW j \in DOMAIN h, h[i].ref = h[j].ref PROVE i = j
  <2>1. CASE i # p /\ j # p
    BY <1>4, <1>6, <1>9, <2>1 DEF IInv, Distinct
  <2>2. CASE i = p /\ j # p
    BY <1>1, <1>2, <1>4, <1>9, <2>2 DEF Owners
  <2>3. CASE i # p /\ j = p
    BY <1>1, <1>2, <1>4, <1>9, <2>3 DEF Owners
  <2> QED BY <2>1, <2>2, <2>3
<1> HIDE DEF p
<1> QED BY <1>1, <1>4, <1>7, <1>8, <1>9, StartUp

\* set_value followed by update: the item moves in the one direction in which
\* the heap may be out of order.
LEMMA UpdateKeeps ==
    ASSUME IInv, NEW p \in DOMAIN items, NEW v \in Values, set_and_update(p, v)
    PROVE  IInv'
<1> DEFINE h == [items EXCEPT ![p].value = v]
<1>1. mode = "idle" /\ Start(IF MovesUp(h, p) THEN "up" ELSE "down", h, p)
  BY DEF set_and_update
<1>2. /\ DOMAIN items = 1 .. Len(items) /\ Len(items) \in Nat
      /\ \A i \in DOMAIN items : i \in Nat /\ i >= 1 /\ items[i] \in Item /\ items[i].value \in Nat
      /\ v \in Nat
  BY Items, BinaryHeapAssumption DEF IInv
<1>3. /\ [items[p] EXCEPT !.value = v] \in Item
      /\ [items[p] EXCEPT !.value = v].ref = items[p].ref
      /\ [items[p] EXCEPT !.value = v].value = v
  BY <1>2 DEF Item
<1>4. /\ h \in Seq(Item) /\ DOMAIN h = DOMAIN items
      /\ \A i \in DOMAIN items : h[i].ref = items[i].ref
      /\ \A i \in DOMAIN items : i # p => h[i] = items[i]
      /\ h[p].value = v
  BY <1>2, <1>3 DEF IInv, TypeOK
<1> HIDE DEF h
<1>5. ~Running
  BY <1>1 DEF Running
<1>6. \A i \in DOMAIN items : At(i) = items[i]
  BY <1>5 DEF At
<1>7. \A i \in DOMAIN items : i > 1 => parent(i) \in DOMAIN items /\ parent(i) < i
  BY ParentInHeap DEF IInv
<1>8. \A i \in DOMAIN items : i > 1 => items[parent(i)].value <= items[i].value
  BY <1>5, <1>6, <1>7 DEF IInv, IdleOrder, InOrder
<1>9. /\ \A i \in DOMAIN h : i # p => position[h[i].ref] = i
      /\ \A i, j \in DOMAIN h : h[i].ref = h[j].ref => i = j
  BY <1>4, <1>5, <1>6 DEF IInv, RefInv, Distinct
<1>10. \A i \in DOMAIN h : h[i].value \in Nat
  BY <1>2, <1>4
<1>11. CASE MovesUp(h, p)
  <2>1. p > 1 /\ h[p].value < h[parent(p)].value
    BY <1>11 DEF MovesUp
  <2>2. \A i \in DOMAIN h : i > 1 =>
            /\ i # p => h[parent(i)].value <= h[i].value
            /\ parent(i) = p /\ p > 1 => h[parent(p)].value <= h[i].value
    BY <1>2, <1>4, <1>7, <1>8, <1>10, <2>1
  <2> QED BY <1>1, <1>4, <1>9, <1>11, <2>2, StartUp
<1>12. CASE ~MovesUp(h, p)
  <2>1. p > 1 => h[parent(p)].value <= h[p].value
    BY <1>2, <1>4, <1>7, <1>10, <1>12 DEF MovesUp
  <2>2. \A i \in DOMAIN h : i > 1 =>
            /\ parent(i) # p => h[parent(i)].value <= h[i].value
            /\ parent(i) = p /\ p > 1 => h[parent(p)].value <= h[i].value
    BY <1>2, <1>4, <1>7, <1>8, <1>10, <2>1
  <2> QED BY <1>1, <1>4, <1>9, <1>12, <2>2, StartDown
<1> QED BY <1>11, <1>12

\* Moving the item at q, a neighbour of the hole, into the hole: the view of
\* the heap exchanges the two positions.
LEMMA ShiftView ==
    ASSUME IInv, Running, NEW q \in DOMAIN items, q # pos, Shift(items[q], q)
    PROVE  /\ TypeOK' /\ RefInv' /\ Distinct'
           /\ mode' = mode /\ pos' = q /\ DOMAIN items' = DOMAIN items
           /\ \A i \in DOMAIN items :
                 At(i)' = IF i = q THEN At(pos) ELSE IF i = pos THEN At(q) ELSE At(i)
<1>1. /\ items' = [items EXCEPT ![pos] = items[q]]
      /\ position' = [position EXCEPT ![items[q].ref] = pos]
      /\ pos' = q /\ mode' = mode /\ temp' = temp
  BY DEF Shift, Put
<1>2. /\ pos \in DOMAIN items /\ pos \in Nat /\ q \in Nat
      /\ items[q] \in Item /\ items[q].ref \in Ids
      /\ temp \in Item
      /\ \A i \in DOMAIN items : items[i].ref \in Ids
  BY Items DEF IInv, TypeOK, Running
<1>3. /\ DOMAIN items' = DOMAIN items
      /\ \A i \in DOMAIN items : items'[i] = IF i = pos THEN items[q] ELSE items[i]
      /\ items' \in Seq(Item)
  BY <1>1, <1>2 DEF IInv, TypeOK
<1>4. TypeOK'
  BY <1>1, <1>2, <1>3 DEF IInv, TypeOK
<1>5. \A i \in DOMAIN items :
          At(i)' = IF i = q THEN At(pos) ELSE IF i = pos THEN At(q) ELSE At(i)
  BY <1>1, <1>2, <1>3 DEF At, Running
<1>6. RefInv'
  <2> SUFFICES ASSUME NEW i \in DOMAIN items, i # q PROVE position'[items'[i].ref] = i
    BY <1>1, <1>3 DEF RefInv, Running
  <2>1. CASE i = pos
    BY <1>1, <1>2, <1>3, <2>1 DEF IInv, TypeOK
  <2>2. CASE i # pos
    <3>1. items[i].ref # items[q].ref
      BY <1>2, <2>2 DEF IInv, Distinct, At
    <3> QED BY <1>1, <1>2, <1>3, <2>2, <3>1 DEF IInv, TypeOK, RefInv
  <2> QED BY <2>1, <2>2
<1>7. Distinct'
  BY <1>2, <1>3, <1>5 DEF IInv, Distinct
<1> QED BY <1>1, <1>3, <1>4, <1>5, <1>6, <1>7

\* Leaving a loop: the moving item is put into its hole.
LEMMA FinishView ==
    ASSUME IInv, Running, Finish
    PROVE  /\ TypeOK' /\ RefInv' /\ Distinct'
           /\ mode' = "idle" /\ DOMAIN items' = DOMAIN items
           /\ \A i \in DOMAIN items : At(i)' = At(i)
<1>1. /\ items' = [items EXCEPT ![pos] = temp]
      /\ position' = [position EXCEPT ![temp.ref] = pos]
      /\ pos' = pos /\ mode' = "idle"
  BY DEF Finish, Put
<1>2. /\ pos \in DOMAIN items /\ pos \in Nat /\ temp \in Item /\ temp.ref \in Ids
      /\ \A i \in DOMAIN items : items[i].ref \in Ids
  BY Items DEF IInv, TypeOK, Running
<1>3. /\ DOMAIN items' = DOMAIN items
      /\ \A i \in DOMAIN items : items'[i] = IF i = pos THEN temp ELSE items[i]
      /\ items' \in Seq(Item)
  BY <1>1, <1>2 DEF IInv, TypeOK
<1>4. TypeOK'
  BY <1>1, <1>2, <1>3 DEF IInv, TypeOK
<1>5. \A i \in DOMAIN items : At(i)' = At(i)
  BY <1>1, <1>2, <1>3 DEF At, Running
<1>6. RefInv'
  <2> SUFFICES ASSUME NEW i \in DOMAIN items PROVE position'[items'[i].ref] = i
    BY <1>1, <1>3 DEF RefInv
  <2>1. CASE i = pos
    BY <1>1, <1>2, <1>3, <2>1 DEF IInv, TypeOK
  <2>2. CASE i # pos
    <3>1. items[i].ref # temp.ref
      BY <1>2, <2>2 DEF IInv, Distinct, At
    <3> QED BY <1>1, <1>2, <1>3, <2>2, <3>1 DEF IInv, TypeOK, RefInv
  <2> QED BY <2>1, <2>2
<1>7. Distinct'
  BY <1>3, <1>5 DEF IInv, Distinct
<1> QED BY <1>1, <1>3, <1>4, <1>5, <1>6, <1>7
\* An iteration of sift_up.
LEMMA SiftUpKeeps ==
    ASSUME IInv, sift_up_step
    PROVE  IInv'
<1>0. PICK par : par = parent(pos)
  OBVIOUS
<1>1. mode = "up" /\ Running /\ pos \in DOMAIN items /\ pos \in Nat /\ pos >= 1
  BY Items DEF sift_up_step, Running, IInv
<1>2. /\ \A i \in DOMAIN items : i \in Nat /\ At(i).value \in Nat
      /\ At(pos).value = temp.value
      /\ \A i \in DOMAIN items : i # pos => At(i) = items[i]
  BY <1>1, Items DEF IInv, At, Running
<1>3. \A i \in DOMAIN items : i > 1 => parent(i) \in DOMAIN items /\ parent(i) < i
  BY ParentInHeap DEF IInv
<1>4. CASE pos > 1 /\ temp.value < items[par].value
  <2>1. Shift(items[par], par) /\ par \in DOMAIN items /\ par # pos
    BY <1>0, <1>1, <1>3, <1>4 DEF sift_up_step
  <2>2. /\ TypeOK' /\ RefInv' /\ Distinct'
        /\ mode' = mode /\ pos' = par /\ DOMAIN items' = DOMAIN items
        /\ \A i \in DOMAIN items :
              At(i)' = IF i = par THEN At(pos) ELSE IF i = pos THEN At(par) ELSE At(i)
    BY <1>1, <2>1, ShiftView
  <2>3. At(pos).value < At(par).value
    BY <1>2, <1>4, <2>1
  <2>4. ASSUME NEW i \in DOMAIN items, i > 1
        PROVE  /\ i # par => At(parent(i))'.value <= At(i)'.value
               /\ parent(i) = par /\ par > 1 => At(parent(par))'.value <= At(i)'.value
    <3>1. /\ i # pos => At(parent(i)).value <= At(i).value
          /\ parent(i) = pos => At(par).value <= At(i).value
      BY <1>0, <1>1, <1>4, <2>4 DEF IInv, UpOrder, InOrder
    <3>2. par > 1 => At(parent(par)).value <= At(par).value
      BY <1>1, <2>1 DEF IInv, UpOrder, InOrder
    <3>3. parent(i) \in DOMAIN items /\ parent(i) < i /\ par < pos
      BY <1>0, <1>1, <1>3, <1>4, <2>4
    <3>4. par > 1 => parent(par) \in DOMAIN items /\ parent(par) < par
      BY <1>3, <2>1
    <3>5. i # par => At(parent(i))'.value <= At(i)'.value
      BY <1>0, <1>1, <1>2, <2>1, <2>2, <2>3, <3>1, <3>3
    <3>6. parent(i) = par /\ par > 1 => At(parent(par))'.value <= At(i)'.value
      BY <1>0, <1>1, <1>2, <2>1, <2>2, <2>3, <3>1, <3>2, <3>3, <3>4
    <3> QED BY <3>5, <3>6
  <2>5. UpOrder'
    BY <2>2, <2>4 DEF UpOrder, InOrder
  <2>6. IdleOrder' /\ DownOrder'
    BY <1>1, <2>2 DEF IdleOrder, DownOrder, Running
  <2> QED BY <2>2, <2>5, <2>6 DEF IInv
<1>5. CASE ~(pos > 1 /\ temp.value < items[par].value)
  <2>1. Finish
    BY <1>0, <1>5 DEF sift_up_step
  <2>2. /\ TypeOK' /\ RefInv' /\ Distinct'
        /\ mode' = "idle" /\ DOMAIN items' = DOMAIN items
        /\ \A i \in DOMAIN items : At(i)' = At(i)
    BY <1>1, <2>1, FinishView
  <2>3. ASSUME NEW i \in DOMAIN items, i > 1 PROVE InOrder(i)
    <3>1. CASE i = pos
      BY <1>0, <1>1, <1>2, <1>3, <1>5, <2>3, <3>1 DEF InOrder
    <3>2. CASE i # pos
      BY <1>1, <2>3, <3>2 DEF IInv, UpOrder
    <3> QED BY <3>1, <3>2
  <2>4. IdleOrder' /\ UpOrder' /\ DownOrder'
    BY <1>3, <2>2, <2>3 DEF IdleOrder, UpOrder, DownOrder, InOrder
  <2> QED BY <2>2, <2>4 DEF IInv
<1> QED BY <1>4, <1>5

\* The two comparisons of sift_down select the smallest of the moving item and
\* the children of the hole.
LEMMA MinPosLemma ==
    ASSUME IInv, mode = "down"
    PROVE  /\ MinPos = pos =>
                 \A i \in DOMAIN items : i > 1 /\ parent(i) = pos => temp.value <= items[i].value
           /\ MinPos # pos =>
                 /\ MinPos \in DOMAIN items /\ MinPos > 1 /\ parent(MinPos) = pos
                 /\ items[MinPos].value < temp.value
                 /\ \A i \in DOMAIN items : i > 1 /\ parent(i) = pos =>
                        items[MinPos].value <= items[i].value
<1> DEFINE l == left_child(pos)
           r == right_child(pos)
<1>1. /\ pos \in DOMAIN items /\ pos \in Nat /\ pos >= 1 /\ temp.value \in Nat
      /\ \A i \in DOMAIN items : i \in Nat /\ items[i].value \in Nat
  BY Items DEF IInv, Running
<1>2. /\ l \in Nat /\ l > pos /\ parent(l) = pos
      /\ r \in Nat /\ r > pos /\ parent(r) = pos /\ l # r
  BY <1>1, Children
<1>3. \A i \in DOMAIN items : i > 1 /\ parent(i) = pos => i = l \/ i = r
  BY <1>1, Tree
<1>4. MinPos = IF r \in DOMAIN items /\ items[r].value <
                     (IF l \in DOMAIN items /\ items[l].value < temp.value
                      THEN items[l].value ELSE temp.value)
               THEN r
               ELSE IF l \in DOMAIN items /\ items[l].value < temp.value THEN l ELSE pos
  BY <1>2 DEF MinPos, InHeap
<1> HIDE DEF l, r
<1> QED BY <1>1, <1>2, <1>3, <1>4

\* An iteration of sift_down.
LEMMA SiftDownKeeps ==
    ASSUME IInv, sift_down_step
    PROVE  IInv'
<1>0. PICK m : m = MinPos
  OBVIOUS
<1>1. mode = "down" /\ Running /\ pos \in DOMAIN items /\ pos \in Nat /\ pos >= 1
  BY Items DEF sift_down_step, Running, IInv
<1>2. /\ \A i \in DOMAIN items : i \in Nat /\ At(i).value \in Nat
      /\ At(pos).value = temp.value
      /\ \A i \in DOMAIN items : i # pos => At(i) = items[i]
  BY <1>1, Items DEF IInv, At, Running
<1>3. \A i \in DOMAIN items : i > 1 => parent(i) \in DOMAIN items /\ parent(i) < i
  BY ParentInHeap DEF IInv
<1>4. CASE m # pos
  <2>1. /\ Shift(items[m], m) /\ m \in DOMAIN items /\ m > 1 /\ parent(m) = pos
        /\ items[m].value < temp.value
        /\ \A i \in DOMAIN items : i > 1 /\ parent(i) = pos => items[m].value <= items[i].value
    BY <1>0, <1>1, <1>4, MinPosLemma DEF sift_down_step
  <2>2. /\ TypeOK' /\ RefInv' /\ Distinct'
        /\ mode' = mode /\ pos' = m /\ DOMAIN items' = DOMAIN items
        /\ \A i \in DOMAIN items :
              At(i)' = IF i = m THEN At(pos) ELSE IF i = pos THEN At(m) ELSE At(i)
    BY <1>1, <1>4, <2>1, ShiftView
  <2>3. At(m).value < At(pos).value
    BY <1>2, <1>4, <2>1
  <2>4. ASSUME NEW i \in DOMAIN items, i > 1
        PROVE  /\ parent(i) # m => At(parent(i))'.value <= At(i)'.value
               /\ parent(i) = m /\ m > 1 => At(parent(m))'.value <= At(i)'.value
    <3>1. /\ parent(i) # pos => At(parent(i)).value <= At(i).value
          /\ parent(i) = pos /\ pos > 1 => At(parent(pos)).value <= At(i).value
      BY <1>1, <2>4 DEF IInv, DownOrder, InOrder
    <3>2. pos > 1 => At(parent(pos)).value <= At(m).value
      BY <1>1, <2>1 DEF IInv, DownOrder
    <3>3. parent(i) \in DOMAIN items /\ parent(i) < i /\ pos < m
      BY <1>3, <2>1, <2>4
    <3>4. parent(i) = pos => At(m).value <= At(i).value
      BY <1>2, <1>3, <1>4, <2>1, <2>4
    <3>5. parent(i) # m => At(parent(i))'.value <= At(i)'.value
      <4>1. CASE i = m
        BY <1>1, <1>2, <1>4, <2>1, <2>2, <2>3, <3>3, <4>1
      <4>2. CASE i # m /\ parent(i) = pos
        BY <1>2, <1>4, <2>1, <2>2, <3>3, <3>4, <4>2
      <4>3. CASE i = pos
        BY <1>2, <1>4, <2>1, <2>2, <3>2, <3>3, <2>4, <4>3
      <4>4. CASE i # m /\ i # pos /\ parent(i) # pos
        BY <2>2, <3>1, <3>3, <4>4
      <4> QED BY <4>1, <4>2, <4>3, <4>4
    <3>6. parent(i) = m /\ m > 1 => At(parent(m))'.value <= At(i)'.value
      BY <1>1, <1>2, <1>4, <2>1, <2>2, <3>1, <3>3
    <3> QED BY <3>5, <3>6
  <2>5. DownOrder'
    BY <2>2, <2>4 DEF DownOrder, InOrder
  <2>6. IdleOrder' /\ UpOrder'
    BY <1>1, <2>2 DEF IdleOrder, UpOrder, Running
  <2> QED BY <2>2, <2>5, <2>6 DEF IInv
<1>5. CASE m = pos
  <2>1. Finish
    BY <1>0, <1>5 DEF sift_down_step
  <2>2. /\ TypeOK' /\ RefInv' /\ Distinct'
        /\ mode' = "idle" /\ DOMAIN items' = DOMAIN items
        /\ \A i \in DOMAIN items : At(i)' = At(i)
    BY <1>1, <2>1, FinishView
  <2>3. \A i \in DOMAIN items : i > 1 /\ parent(i) = pos => temp.value <= items[i].value
    BY <1>0, <1>1, <1>5, MinPosLemma
  <2>4. ASSUME NEW i \in DOMAIN items, i > 1 PROVE InOrder(i)
    <3>1. CASE parent(i) = pos
      BY <1>2, <1>3, <2>3, <2>4, <3>1 DEF InOrder
    <3>2. CASE parent(i) # pos
      BY <1>1, <2>4, <3>2 DEF IInv, DownOrder
    <3> QED BY <3>1, <3>2
  <2>5. IdleOrder' /\ UpOrder' /\ DownOrder'
    BY <1>3, <2>2, <2>4 DEF IdleOrder, UpOrder, DownOrder, InOrder
  <2> QED BY <2>2, <2>5 DEF IInv
<1> QED BY <1>4, <1>5
-----------------------------------------------------------------------------
\* The invariant holds initially and every step keeps it.
LEMMA Invariance == Spec => []IInv
<1>1. Init => IInv
  BY DEF Init, IInv, TypeOK, IdleOrder, UpOrder, DownOrder, RefInv, Distinct, Running
<1>2. IInv /\ [Next]_vars => IInv'
  <2> SUFFICES ASSUME IInv, [Next]_vars PROVE IInv'
    OBVIOUS
  <2>1. ASSUME NEW id \in Ids, NEW v \in Values, push(id, v) PROVE IInv'
    BY <2>1, PushKeeps
  <2>2. ASSUME NEW p \in DOMAIN items, NEW v \in Values, set_and_update(p, v) PROVE IInv'
    BY <2>2, UpdateKeeps
  <2>3. CASE Loop
    BY <2>3, SiftUpKeeps, SiftDownKeeps DEF Loop
  <2>4. CASE pop
    BY <2>4 DEF pop, IInv, TypeOK, IdleOrder, UpOrder, DownOrder, RefInv, Distinct,
                Running, InOrder, At
  <2>5. CASE clear
    BY <2>5 DEF clear, IInv, TypeOK, IdleOrder, UpOrder, DownOrder, RefInv, Distinct, Running
  <2>6. CASE UNCHANGED vars
    BY <2>6 DEF vars, IInv, TypeOK, IdleOrder, UpOrder, DownOrder, RefInv, Distinct,
                Running, InOrder, At
  <2> QED BY <2>1, <2>2, <2>3, <2>4, <2>5, <2>6 DEF Next
<1> QED BY <1>1, <1>2, PTL DEF Spec

(***************************************************************************)
(* Between two operations the items are a min-heap and every owner knows   *)
(* its item's position, for a heap of any size: push and update of         *)
(* heap.hpp keep both promises.                                            *)
(***************************************************************************)
THEOREM HeapCorrect == Spec => []HeapSound
<1>1. IInv => HeapSound
  <2> SUFFICES ASSUME IInv, ~Running PROVE
           /\ \A i \in DOMAIN items : i > 1 => items[parent(i)].value <= items[i].value
           /\ \A i \in DOMAIN items : position[items[i].ref] = i
    BY DEF HeapSound, HeapOrdered, PositionsExact, Running
  <2>1. \A i \in DOMAIN items : i > 1 => items[parent(i)].value <= items[i].value
    BY DEF IInv, IdleOrder, InOrder, At
  <2>2. \A i \in DOMAIN items : position[items[i].ref] = i
    BY DEF IInv, RefInv
  <2> QED BY <2>1, <2>2
<1> QED BY <1>1, Invariance, PTL

(***************************************************************************)
(* At every iteration of a loop the items, the moving one included, have   *)
(* distinct owners: none is lost under the hole and none is doubled.       *)
(***************************************************************************)
THEOREM NoItemLost == Spec => []ItemsSound
<1>1. IInv => ItemsSound
  <2> SUFFICES ASSUME IInv PROVE ItemsDistinct
    BY DEF IInv, ItemsSound
  <2>1. DOMAIN View = DOMAIN items /\ \A i \in DOMAIN items : View[i] = At(i)
    BY DEF View, At, Running, IInv, TypeOK
  <2> QED BY <2>1 DEF ItemsDistinct, IInv, Distinct
<1> QED BY <1>1, Invariance, PTL

(***************************************************************************)
(* The hole of sift_up moves up and the hole of sift_down moves down at    *)
(* every iteration but the last.  With TypeOK, which keeps it inside the   *)
(* array, both loops end.                                                  *)
(***************************************************************************)
THEOREM LoopsTerminate == Spec => LoopsProgress
<1> DEFINE Progress == /\ mode = "up" /\ mode' = "up" => pos' < pos
                       /\ mode = "down" /\ mode' = "down" => pos' > pos
<1>1. IInv /\ [Next]_vars => [Progress]_vars
  <2> SUFFICES ASSUME IInv, Next PROVE Progress
    OBVIOUS
  <2>1. CASE sift_up_step
    <3>1. mode = "up" /\ pos \in Nat
      BY <2>1 DEF sift_up_step, IInv, TypeOK
    <3>2. CASE pos > 1 /\ temp.value < items[parent(pos)].value
      BY <2>1, <3>1, <3>2, Tree DEF sift_up_step, Shift
    <3>3. CASE ~(pos > 1 /\ temp.value < items[parent(pos)].value)
      BY <2>1, <3>1, <3>3 DEF sift_up_step, Finish
    <3> QED BY <3>2, <3>3
  <2>2. CASE sift_down_step
    <3>1. mode = "down" /\ pos \in Nat
      BY <2>2 DEF sift_down_step, IInv, TypeOK
    <3>2. CASE MinPos # pos
      <4>1. MinPos \in DOMAIN items /\ MinPos > 1 /\ parent(MinPos) = pos
        BY <3>1, <3>2, MinPosLemma
      <4>2. MinPos \in Nat
        BY <4>1 DEF IInv, TypeOK
      <4>3. pos < MinPos
        BY <4>1, <4>2, Tree
      <4> QED BY <2>2, <3>1, <3>2, <4>3 DEF sift_down_step, Shift
    <3>3. CASE MinPos = pos
      BY <2>2, <3>1, <3>3 DEF sift_down_step, Finish
    <3> QED BY <3>2, <3>3
  <2>3. CASE ~Loop
    BY <2>3 DEF Next, push, set_and_update, pop, clear
  <2> QED BY <2>1, <2>2, <2>3 DEF Loop
<1> QED BY <1>1, Invariance, PTL DEF Spec, LoopsProgress
-----------------------------------------------------------------------------
(***************************************************************************)
(* The loops against the closed form of HeapOps.  A sift was called on the *)
(* heap h, of n items, for position p; now the hole is at q and the array  *)
(* is g.                                                                   *)
(***************************************************************************)

\* In sift_up the positions of the path below the hole hold their parents' items.
UpShape(h, n, p, q, g) ==
    /\ q \in UpPath(h, p)
    /\ \A i \in 1 .. n : i # q =>
          g[i] = IF i \in UpPath(h, p) /\ i > q THEN h[parent(i)] ELSE h[i]

\* In sift_down the positions of the path above the hole hold the items of
\* their children on the path.
DownShape(h, n, p, q, g) ==
    /\ q \in DownPath(h, p)
    /\ \A i \in 1 .. n : i # q =>
          IF i \in DownPath(h, p) \cap Ancestors(q)
          THEN \E c \in DownPath(h, p) : c > 1 /\ parent(c) = i /\ g[i] = h[c]
          ELSE g[i] = h[i]

LEMMA UpShapeStart ==
    ASSUME NEW h, NEW n, HeapOf(h, n), NEW p \in 1 .. n
    PROVE  UpShape(h, n, p, p, h)
<1>1. UpChain(h, n, p, UpPath(h, p))
  BY UpPathFacts
<1>2. p \in UpPath(h, p) /\ UpPath(h, p) \subseteq 1 .. p
  BY <1>1, Zenon DEF UpChain
<1>3. n \in Nat
  BY DEF HeapOf
<1> QED BY <1>2, <1>3 DEF UpShape

LEMMA UpShapeMove ==
    ASSUME NEW h, NEW n, HeapOf(h, n), NEW p \in 1 .. n, NEW q, NEW g, NEW f,
           UpShape(h, n, p, q, g), q > 1, h[p].value < g[parent(q)].value,
           \A i \in 1 .. n : f[i] = IF i = q THEN g[parent(q)] ELSE g[i]
    PROVE  UpShape(h, n, p, parent(q), f)
<1> DEFINE P == UpPath(h, p)
           a == parent(q)
<1>0. n \in Nat /\ p \in Nat /\ p >= 1
  BY DEF HeapOf
<1>1. /\ P \subseteq Path(p) /\ P \subseteq 1 .. n
      /\ \A x \in P : x > 1 /\ parent(x) \notin P => ~(h[p].value < h[parent(x)].value)
  <2>1. UpChain(h, n, p, P)
    BY UpPathFacts
  <2> QED BY <2>1, Zenon DEF UpChain
<1>2. /\ q \in P
      /\ \A i \in 1 .. n : i # q => g[i] = IF i \in P /\ i > q THEN h[parent(i)] ELSE h[i]
  BY Zenon DEF UpShape
<1>3. q \in Nat /\ a \in Nat /\ a >= 1 /\ a < q /\ a \in 1 .. n /\ q \in 1 .. n
  BY <1>0, <1>1, <1>2, ParentFacts
<1> HIDE DEF P
<1>4. g[a] = h[a]
  BY <1>2, <1>3
<1>5. a \in P
  BY <1>1, <1>2, <1>4
<1>6. ASSUME NEW i \in 1 .. n, i # a
      PROVE  f[i] = IF i \in P /\ i > a THEN h[parent(i)] ELSE h[i]
  <2>1. CASE i = q
    BY <1>2, <1>3, <1>4, <2>1
  <2>2. CASE i # q
    <3>1. i \in P => (i > a <=> i > q)
      <4> SUFFICES ASSUME i \in P, i > a, i < q PROVE FALSE
        BY <1>0, <1>3, <2>2
      <4>1. i <= a
        BY <1>0, <1>1, <1>2, PathChain
      <4> QED BY <1>0, <1>3, <4>1
    <3>2. f[i] = g[i]
      BY <2>2
    <3> QED BY <1>2, <2>2, <3>1, <3>2
  <2> QED BY <2>1, <2>2
<1> QED BY <1>5, <1>6 DEF UpShape, P

LEMMA UpShapeEnd ==
    ASSUME NEW h, NEW n, HeapOf(h, n), NEW p \in 1 .. n, NEW q, NEW g, NEW f,
           UpShape(h, n, p, q, g), ~(q > 1 /\ h[p].value < g[parent(q)].value),
           f = [i \in 1 .. n |-> IF i = q THEN h[p] ELSE g[i]]
    PROVE  f = sift_up(h, p)
<1> DEFINE P == UpPath(h, p)
           a == parent(q)
<1>0. n \in Nat /\ p \in Nat /\ p >= 1 /\ DOMAIN h = 1 .. n
  BY DEF HeapOf
<1>1. /\ P \subseteq Path(p) /\ P \subseteq 1 .. p /\ P \subseteq 1 .. n
      /\ \A x \in P : x # p => h[p].value < h[x].value
      /\ \A x \in P : \A y \in Path(p) : x <= y => y \in P
  <2>1. UpChain(h, n, p, P)
    BY UpPathFacts
  <2> QED BY <2>1, Zenon DEF UpChain
<1>2. /\ q \in P
      /\ \A i \in 1 .. n : i # q => g[i] = IF i \in P /\ i > q THEN h[parent(i)] ELSE h[i]
  BY Zenon DEF UpShape
<1>3. q \in Nat /\ q >= 1 /\ q <= p /\ q \in 1 .. n
  BY <1>0, <1>1, <1>2
<1>s. sift_up(h, p) = [i \in 1 .. n |-> IF i \in P
                         THEN IF parent(i) \in P THEN h[parent(i)] ELSE h[p]
                         ELSE h[i]]
  BY <1>0, Zenon DEF sift_up
<1> HIDE DEF P
<1>4. a \notin P
  <2>1. CASE q = 1
    BY <1>0, <1>1, <2>1 DEF parent
  <2>2. CASE q > 1
    <3>1. a \in Nat /\ a >= 1 /\ a < q /\ a \in 1 .. n
      BY <1>0, <1>3, <2>2, ParentFacts
    <3>2. g[a] = h[a]
      BY <1>2, <1>3, <3>1
    <3>3. a # p
      BY <1>0, <1>3, <3>1
    <3> QED BY <1>1, <2>2, <3>2, <3>3
  <2> QED BY <1>3, <2>1, <2>2
<1>5. ASSUME NEW i \in 1 .. n
      PROVE  f[i] = IF i \in P THEN IF parent(i) \in P THEN h[parent(i)] ELSE h[p] ELSE h[i]
  <2>1. CASE i = q
    BY <1>2, <1>4, <2>1
  <2>2. CASE i # q /\ i \notin P
    BY <1>2, <2>2
  <2>3. CASE i # q /\ i \in P /\ i > q
    <3>1. q <= parent(i)
      BY <1>0, <1>1, <1>2, <2>3, PathChain
    <3>2. parent(i) \in Path(p)
      BY <1>0, <1>1, <1>3, <2>3, PathParent DEF Path
    <3>3. parent(i) \in P
      BY <1>1, <1>2, <3>1, <3>2
    <3> QED BY <1>2, <2>3, <3>3
  <2>4. CASE i \in P /\ i < q
    <3>1. i <= a /\ q > 1
      BY <1>0, <1>1, <1>2, <1>3, <2>4, PathChain
    <3>2. a \in Path(p)
      BY <1>0, <1>1, <1>2, <1>3, <3>1, PathParent DEF Path
    <3>3. a \in P
      BY <1>1, <2>4, <3>1, <3>2
    <3> QED BY <1>4, <3>3
  <2> QED BY <1>0, <1>3, <2>1, <2>2, <2>3, <2>4
<1> QED BY <1>5, <1>s
LEMMA DownShapeStart ==
    ASSUME NEW h, NEW n, HeapOf(h, n), NEW p \in 1 .. n
    PROVE  DownShape(h, n, p, p, h)
<1>1. DownChain(h, n, p, DownPath(h, p))
  BY DownPathFacts
<1>2. p \in DownPath(h, p) /\ \A x \in DownPath(h, p) : p <= x /\ x \in 1 .. n
  BY <1>1, Zenon DEF DownChain
<1>3. n \in Nat /\ p \in Nat
  BY DEF HeapOf
<1>4. DownPath(h, p) \cap Ancestors(p) = {}
  BY <1>2, <1>3, AncestorBounds
<1> QED BY <1>2, <1>4 DEF DownShape

LEMMA DownShapeMove ==
    ASSUME NEW h, NEW n, HeapOf(h, n), NEW p \in 1 .. n, NEW q, NEW m \in 1 .. n, NEW g, NEW f,
           DownShape(h, n, p, q, g), m > 1, parent(m) = q, Wins(h, m, h[p]),
           \A i \in 1 .. n : f[i] = IF i = q THEN g[m] ELSE g[i]
    PROVE  DownShape(h, n, p, m, f)
<1> DEFINE D == DownPath(h, p)
<1>0. n \in Nat /\ m \in Nat
  BY DEF HeapOf
<1>1. /\ D \subseteq 1 .. n
      /\ \A x \in 1 .. n : x > 1 /\ parent(x) \in D /\ Wins(h, x, h[p]) => x \in D
  <2>1. DownChain(h, n, p, D)
    BY DownPathFacts
  <2> QED BY <2>1, Zenon DEF DownChain
<1>2. /\ q \in D
      /\ \A i \in 1 .. n : i # q =>
            IF i \in D \cap Ancestors(q)
            THEN \E c \in D : c > 1 /\ parent(c) = i /\ g[i] = h[c]
            ELSE g[i] = h[i]
  BY Zenon DEF DownShape
<1>3. q \in Nat /\ q >= 1 /\ q < m /\ q \in 1 .. n
  BY <1>0, <1>1, <1>2, ParentFacts
<1>4. Ancestors(m) = {q} \cup Ancestors(q)
  BY <1>0, AncestorsUnfold
<1>5. m \notin Ancestors(q)
  BY <1>0, <1>3, AncestorBounds
<1>6. m \in D
  BY <1>1, <1>2, Zenon
<1> HIDE DEF D
<1>7. g[m] = h[m]
  BY <1>0, <1>2, <1>3, <1>5
<1>8. ASSUME NEW i \in 1 .. n, i # m
      PROVE  IF i \in D \cap Ancestors(m)
             THEN \E c \in D : c > 1 /\ parent(c) = i /\ f[i] = h[c]
             ELSE f[i] = h[i]
  <2>1. CASE i = q
    BY <1>2, <1>4, <1>6, <1>7, <2>1
  <2>2. CASE i # q
    <3>1. f[i] = g[i] /\ (i \in Ancestors(m) <=> i \in Ancestors(q))
      BY <1>4, <2>2
    <3> QED BY <1>2, <2>2, <3>1
  <2> QED BY <2>1, <2>2
<1> QED BY <1>6, <1>8 DEF DownShape, D

\* When no child of q continues the path, the path is what is above q.
LEMMA DownPathAbove ==
    ASSUME NEW h, NEW n, HeapOf(h, n), NEW p \in 1 .. n, NEW q \in DownPath(h, p),
           \A c \in DownPath(h, p) : c > 1 => parent(c) # q
    PROVE  DownPath(h, p) \subseteq Path(q)
<1> DEFINE D == DownPath(h, p)
           T == D \ Path(q)
<1>0. n \in Nat /\ p \in Nat
  BY DEF HeapOf
<1>1. /\ D \subseteq 1 .. n /\ \A x \in D : p <= x /\ p \in Path(x)
      /\ \A x \in D : x # p => x > 1 /\ parent(x) \in D
      /\ \A x, y \in D : x # p /\ y # p /\ parent(x) = parent(y) => x = y
  <2>1. DownChain(h, n, p, D)
    BY DownPathFacts
  <2> QED BY <2>1, Zenon DEF DownChain
<1> HIDE DEF D
<1>q. q \in D /\ q \in Nat /\ q >= 1 /\ \A c \in D : c > 1 => parent(c) # q
  BY <1>0, <1>1 DEF D
<1>2. Ancestors(q) \subseteq {x \in Nat : x \in D \/ x < p}
  <2> DEFINE S == {x \in Nat : x \in D \/ x < p}
  <2>1. q > 1 => parent(q) \in S
    BY <1>0, <1>1, <1>q, ParentFacts
  <2>2. ASSUME NEW x \in Ancestors(q), x \in S, x > 1 PROVE parent(x) \in S
    <3>1. x \in Nat /\ parent(x) \in Nat /\ parent(x) < x
      BY <1>q, <2>2, AncestorBounds, ParentFacts
    <3> QED BY <1>0, <1>1, <2>2, <3>1
  <2> HIDE DEF S
  <2>3. Ancestors(q) \subseteq S
    BY <1>q, <2>1, <2>2, AncestorInduction
  <2> QED BY <2>3 DEF S
<1>3. SUFFICES ASSUME T # {} PROVE FALSE
  BY DEF D
<1>4. PICK j \in T : \A x \in T : j <= x
  <2>1. \A x \in T : x \in 1 .. n
    BY <1>1
  <2>2. T \in SUBSET Nat
    BY <1>0, <2>1
  <2> HIDE DEF T
  <2> QED BY <1>3, <2>2, SmallestPosition
<1>5. j \in D /\ j \notin Path(q) /\ j \in Nat /\ j # p
  BY <1>0, <1>1, <1>4, <1>q
<1>6. j > 1 /\ parent(j) \in D /\ parent(j) \in Nat /\ parent(j) < j
  BY <1>1, <1>5, ParentFacts
<1>7. parent(j) \in Ancestors(q)
  <2>1. parent(j) \notin T
    <3>1. ASSUME parent(j) \in T PROVE j <= parent(j)
      BY <1>4, <3>1, Zenon
    <3> QED BY <1>5, <1>6, <3>1
  <2>2. parent(j) \in Path(q) /\ parent(j) # q
    BY <1>5, <1>6, <1>q, <2>1
  <2> QED BY <2>2 DEF Path
<1>8. PICK c \in Path(q) : c > 1 /\ parent(c) = parent(j)
  BY <1>q, <1>7, PathChild
<1>9. c \in Nat /\ c > p
  <2>1. c \in Nat
    BY <1>q, PathBounds
  <2>2. parent(c) < c /\ p <= parent(j) /\ parent(c) \in Nat
    BY <1>1, <1>6, <1>8, <2>1, ParentFacts
  <2> QED BY <1>0, <1>6, <1>8, <2>1, <2>2
<1>10. c \in D
  <2>1. CASE c = q
    BY <1>q, <2>1
  <2>2. CASE c \in Ancestors(q)
    BY <1>0, <1>2, <1>9, <2>2
  <2> QED BY <2>1, <2>2 DEF Path
<1>11. c = j
  BY <1>0, <1>1, <1>5, <1>8, <1>9, <1>10
<1> QED BY <1>5, <1>11

LEMMA DownShapeEnd ==
    ASSUME NEW h, NEW n, HeapOf(h, n), NEW p \in 1 .. n, NEW q, NEW g, NEW f,
           DownShape(h, n, p, q, g),
           \A c \in 1 .. n : c > 1 /\ parent(c) = q => ~Wins(h, c, h[p]),
           f = [i \in 1 .. n |-> IF i = q THEN h[p] ELSE g[i]]
    PROVE  f = sift_down(h, p)
<1> DEFINE D == DownPath(h, p)
<1>0. n \in Nat /\ p \in Nat /\ DOMAIN h = 1 .. n
  BY DEF HeapOf
<1>1. /\ D \subseteq 1 .. n /\ \A x \in D : p <= x
      /\ \A x \in D : x # p => x > 1 /\ parent(x) \in D /\ Wins(h, x, h[p])
      /\ \A x, y \in D : x # p /\ y # p /\ parent(x) = parent(y) => x = y
  <2>1. DownChain(h, n, p, D)
    BY DownPathFacts
  <2> QED BY <2>1, Zenon DEF DownChain
<1>2. /\ q \in D
      /\ \A i \in 1 .. n : i # q =>
            IF i \in D \cap Ancestors(q)
            THEN \E c \in D : c > 1 /\ parent(c) = i /\ g[i] = h[c]
            ELSE g[i] = h[i]
  BY Zenon DEF DownShape
<1>s. sift_down(h, p) =
         [i \in 1 .. n |->
            IF i \in D
            THEN IF left_child(i) \in D THEN h[left_child(i)]
                 ELSE IF right_child(i) \in D THEN h[right_child(i)]
                 ELSE h[p]
            ELSE h[i]]
  BY <1>0, Zenon DEF sift_down
<1>3. ASSUME NEW c \in D, c > 1, parent(c) = q PROVE FALSE
  <2>1. c \in Nat /\ parent(c) < c /\ p <= q /\ q \in Nat
    BY <1>0, <1>1, <1>2, <1>3, ParentFacts
  <2>2. c # p
    BY <1>0, <1>3, <2>1
  <2> QED BY <1>1, <1>3, <2>2
<1>4. D \subseteq Path(q)
  BY <1>2, <1>3, DownPathAbove
<1> HIDE DEF D
<1>5. ASSUME NEW i \in D
      PROVE  /\ i \in Nat /\ i >= 1 /\ i >= p
             /\ left_child(i) \in Nat /\ left_child(i) > i /\ parent(left_child(i)) = i
             /\ right_child(i) \in Nat /\ right_child(i) > i /\ parent(right_child(i)) = i
  <2>1. i \in Nat /\ i >= 1 /\ i >= p
    BY <1>0, <1>1
  <2> QED BY <2>1, Children
<1>6. ASSUME NEW i \in 1 .. n
      PROVE  f[i] = IF i \in D
                    THEN IF left_child(i) \in D THEN h[left_child(i)]
                         ELSE IF right_child(i) \in D THEN h[right_child(i)]
                         ELSE h[p]
                    ELSE h[i]
  <2>1. CASE i = q
    <3>1. left_child(i) \notin D /\ right_child(i) \notin D
      BY <1>2, <1>3, <1>5, <2>1
    <3> QED BY <1>2, <2>1, <3>1
  <2>2. CASE i # q /\ i \notin D
    BY <1>2, <2>2
  <2>3. CASE i # q /\ i \in D
    <3>1. i \in Ancestors(q)
      BY <1>4, <2>3 DEF Path
    <3>2. PICK c \in D : c > 1 /\ parent(c) = i /\ g[i] = h[c]
      BY <1>2, <2>3, <3>1
    <3>3. c = left_child(i) \/ c = right_child(i)
      BY <1>0, <1>1, <3>2, Tree
    <3>4. left_child(i) \in D => c = left_child(i)
      <4>1. c # p /\ left_child(i) # p
        BY <1>0, <1>5, <2>3, <3>3
      <4> QED BY <1>1, <1>5, <2>3, <3>2, <4>1
    <3>5. f[i] = h[c]
      BY <2>3, <3>2
    <3> QED BY <2>3, <3>2, <3>3, <3>4, <3>5
  <2> QED BY <2>1, <2>2, <2>3
<1> QED BY <1>6, <1>s
-----------------------------------------------------------------------------
(***************************************************************************)
(* The invariant that ties a running loop to the heap it was called on.    *)
(***************************************************************************)
Called ==
    /\ call.dir = mode
    /\ call.heap \in Seq(Item) /\ Len(call.heap) = Len(items)
    /\ call.pos \in 1 .. Len(items)
    /\ temp = call.heap[call.pos]

ClosedForm ==
    /\ "dir" \in DOMAIN call
    /\ Running => Called
    /\ mode = "up" => UpShape(call.heap, Len(items), call.pos, pos, items)
    /\ mode = "down" => DownShape(call.heap, Len(items), call.pos, pos, items)
    /\ MatchesClosedForm

\* A heap of items is a heap of the sift loops.
LEMMA ItemsHeapOf ==
    ASSUME NEW h \in Seq(Item)
    PROVE  HeapOf(h, Len(h)) /\ DOMAIN h = 1 .. Len(h) /\ Len(h) \in Nat
<1>1. DOMAIN h = 1 .. Len(h) /\ Len(h) \in Nat /\ \A i \in 1 .. Len(h) : h[i] \in Item
  OBVIOUS
<1>2. \A i \in 1 .. Len(h) : h[i].value \in Nat
  BY <1>1, BinaryHeapAssumption DEF Item
<1> QED BY <1>1, <1>2 DEF HeapOf

\* Start begins with the hole at the position of the call.
LEMMA StartForm ==
    ASSUME NEW h \in Seq(Item), NEW p \in DOMAIN h, NEW m \in {"up", "down"}, Start(m, h, p)
    PROVE  ClosedForm'
<1>1. /\ items' = h /\ mode' = m /\ pos' = p /\ temp' = h[p]
      /\ call' = [dir |-> m, heap |-> h, pos |-> p]
  BY DEF Start
<1>2. call'.dir = m /\ call'.heap = h /\ call'.pos = p /\ "dir" \in DOMAIN call'
  BY <1>1
<1>3. HeapOf(h, Len(h)) /\ p \in 1 .. Len(h)
  BY ItemsHeapOf
<1>4. UpShape(h, Len(h), p, p, h) /\ DownShape(h, Len(h), p, p, h)
  BY <1>3, UpShapeStart, DownShapeStart
<1>5. mode' # "idle"
  BY <1>1
<1>6. MatchesClosedForm'
  BY <1>5 DEF MatchesClosedForm
<1>7. Called'
  BY <1>1, <1>2, <1>3 DEF Called
<1> QED BY <1>1, <1>2, <1>4, <1>6, <1>7 DEF ClosedForm

\* What an iteration and the end of a loop do to the array.
LEMMA ShiftArray ==
    ASSUME TypeOK, Running, NEW q \in DOMAIN items, Shift(items[q], q)
    PROVE  /\ \A i \in 1 .. Len(items) : items'[i] = IF i = pos THEN items[q] ELSE items[i]
           /\ Len(items') = Len(items)
           /\ pos' = q /\ UNCHANGED <<mode, temp, call>>
<1>1. items' = [items EXCEPT ![pos] = items[q]] /\ pos' = q /\ UNCHANGED <<mode, temp, call>>
  BY DEF Shift, Put
<1>2. items \in Seq(Item) /\ pos \in DOMAIN items
  BY DEF TypeOK, Running
<1> QED BY <1>1, <1>2

LEMMA FinishArray ==
    ASSUME TypeOK, Running, Finish
    PROVE  /\ items' = [i \in 1 .. Len(items) |-> IF i = pos THEN temp ELSE items[i]]
           /\ mode' = "idle" /\ UNCHANGED <<pos, temp, call>>
<1>1. items' = [items EXCEPT ![pos] = temp] /\ mode' = "idle" /\ UNCHANGED <<pos, temp, call>>
  BY DEF Finish, Put
<1>2. items \in Seq(Item) /\ pos \in DOMAIN items
  BY DEF TypeOK, Running
<1>3. DOMAIN items = 1 .. Len(items) /\ items = [i \in DOMAIN items |-> items[i]]
  BY <1>2
<1>4. items' = [i \in DOMAIN items |-> IF i = pos THEN temp ELSE items[i]]
  BY <1>1, <1>2, <1>3
<1> QED BY <1>1, <1>3, <1>4

LEMMA UpStepForm ==
    ASSUME IInv, ClosedForm, sift_up_step
    PROVE  ClosedForm'
<1> DEFINE h == call.heap
           n == Len(items)
           p == call.pos
<1>1. mode = "up" /\ Running /\ TypeOK /\ "dir" \in DOMAIN call
  BY DEF sift_up_step, Running, IInv, ClosedForm
<1>2. /\ call.dir = "up" /\ h \in Seq(Item) /\ Len(h) = n /\ p \in 1 .. n /\ temp = h[p]
      /\ UpShape(h, n, p, pos, items)
  BY <1>1 DEF ClosedForm, Called
<1>3. HeapOf(h, n) /\ n \in Nat
  BY <1>2, ItemsHeapOf
<1>4. pos \in DOMAIN items /\ DOMAIN items = 1 .. n /\ pos \in Nat
  BY <1>1 DEF TypeOK, Running
<1> HIDE DEF h, p
<1>5. CASE pos > 1 /\ temp.value < items[parent(pos)].value
  <2>1. Shift(items[parent(pos)], parent(pos)) /\ parent(pos) \in DOMAIN items
    BY <1>1, <1>4, <1>5, ParentInHeap DEF sift_up_step
  <2>2. /\ \A i \in 1 .. n : items'[i] = IF i = pos THEN items[parent(pos)] ELSE items[i]
        /\ Len(items') = n /\ pos' = parent(pos) /\ UNCHANGED <<mode, temp, call>>
    BY <1>1, <2>1, ShiftArray
  <2>3. UpShape(h, n, p, parent(pos), items')
    BY <1>2, <1>3, <1>5, <2>2, UpShapeMove
  <2>4. Called'
    BY <1>1, <1>2, <2>2 DEF Called, h, p
  <2>5. MatchesClosedForm'
    BY <1>1, <2>2 DEF MatchesClosedForm
  <2> QED BY <1>1, <2>2, <2>3, <2>4, <2>5 DEF ClosedForm, h, p
<1>6. CASE ~(pos > 1 /\ temp.value < items[parent(pos)].value)
  <2>1. Finish
    BY <1>6 DEF sift_up_step
  <2>2. /\ items' = [i \in 1 .. n |-> IF i = pos THEN temp ELSE items[i]]
        /\ mode' = "idle" /\ call' = call
    BY <1>1, <2>1, FinishArray
  <2>3. items' = sift_up(h, p)
    <3>1. items' = [i \in 1 .. n |-> IF i = pos THEN h[p] ELSE items[i]]
      BY <1>2, <2>2
    <3>2. ~(pos > 1 /\ h[p].value < items[parent(pos)].value)
      BY <1>2, <1>6
    <3> HIDE DEF n
    <3> QED BY <1>2, <1>3, <3>1, <3>2, UpShapeEnd
  <2>4. MatchesClosedForm'
    BY <1>2, <2>2, <2>3 DEF MatchesClosedForm, h, p
  <2> QED BY <1>1, <2>2, <2>4 DEF ClosedForm, Running
<1> QED BY <1>5, <1>6

\* The child sift_down moves is the one that wins, and it stops when none does.
LEMMA MinPosWins ==
    ASSUME IInv, mode = "down", NEW h,
           DOMAIN h = DOMAIN items, \A i \in DOMAIN items : i > pos => h[i] = items[i]
    PROVE  /\ MinPos # pos => Wins(h, MinPos, temp)
           /\ MinPos = pos => \A c \in DOMAIN items : c > 1 /\ parent(c) = pos => ~Wins(h, c, temp)
<1> DEFINE l == left_child(pos)
           r == right_child(pos)
<1>1. /\ pos \in DOMAIN items /\ pos \in Nat /\ pos >= 1 /\ temp.value \in Nat
      /\ \A i \in DOMAIN items : i \in Nat /\ items[i].value \in Nat
      /\ DOMAIN items = 1 .. Len(items) /\ Len(items) \in Nat
  BY Items DEF IInv, Running
<1>2. /\ l \in Nat /\ l > pos /\ l % 2 = 0 /\ l + 1 = r
      /\ r \in Nat /\ r > pos /\ r % 2 = 1 /\ r - 1 = l
  BY <1>1 DEF left_child, right_child
<1>3. MinPos = IF r \in DOMAIN items /\ items[r].value <
                     (IF l \in DOMAIN items /\ items[l].value < temp.value
                      THEN items[l].value ELSE temp.value)
               THEN r
               ELSE IF l \in DOMAIN items /\ items[l].value < temp.value THEN l ELSE pos
  BY <1>2 DEF MinPos, InHeap
<1> HIDE DEF l, r
<1>4. r \in DOMAIN items => l \in DOMAIN items
  BY <1>1, <1>2
<1>5. /\ l \in DOMAIN items => h[l].value = items[l].value
      /\ r \in DOMAIN items => h[r].value = items[r].value
  BY <1>2
<1>6. ASSUME MinPos # pos PROVE Wins(h, MinPos, temp)
  <2>1. CASE MinPos = r
    <3>1. r \in DOMAIN items /\ l \in DOMAIN items
      BY <1>1, <1>2, <1>3, <1>4, <1>6, <2>1
    <3>2. items[r].value < temp.value /\ items[r].value < items[l].value
      BY <1>1, <1>2, <1>3, <2>1, <3>1
    <3> QED BY <1>2, <1>5, <2>1, <3>1, <3>2 DEF Wins
  <2>2. CASE MinPos = l
    <3>1. l \in DOMAIN items /\ items[l].value < temp.value
      BY <1>1, <1>2, <1>3, <1>6, <2>2
    <3>2. r \in DOMAIN items => items[l].value <= items[r].value
      BY <1>1, <1>2, <1>3, <2>2, <3>1
    <3>3. r \in DOMAIN h => h[l].value <= h[r].value
      BY <1>5, <3>1, <3>2
    <3> QED BY <1>2, <1>5, <2>2, <3>1, <3>3 DEF Wins
  <2> QED BY <1>3, <1>6, <2>1, <2>2
<1>7. ASSUME MinPos = pos, NEW c \in DOMAIN items, c > 1, parent(c) = pos
      PROVE  ~Wins(h, c, temp)
  <2>1. temp.value <= items[c].value
    BY <1>7, MinPosLemma
  <2>2. c > pos
    BY <1>1, <1>7, Tree
  <2> QED BY <1>1, <2>1, <2>2 DEF Wins
<1> QED BY <1>6, <1>7

LEMMA DownStepForm ==
    ASSUME IInv, ClosedForm, sift_down_step
    PROVE  ClosedForm'
<1> DEFINE h == call.heap
           n == Len(items)
           p == call.pos
<1>1. mode = "down" /\ Running /\ TypeOK /\ "dir" \in DOMAIN call
  BY DEF sift_down_step, Running, IInv, ClosedForm
<1>2. /\ call.dir = "down" /\ h \in Seq(Item) /\ Len(h) = n /\ p \in 1 .. n /\ temp = h[p]
      /\ DownShape(h, n, p, pos, items)
  BY <1>1 DEF ClosedForm, Called
<1>3. HeapOf(h, n) /\ n \in Nat /\ DOMAIN h = 1 .. n
  BY <1>2, ItemsHeapOf
<1>4. pos \in DOMAIN items /\ DOMAIN items = 1 .. n /\ pos \in Nat
  BY <1>1 DEF TypeOK, Running
<1> HIDE DEF h, p
<1>5. \A i \in DOMAIN items : i > pos => h[i] = items[i]
  <2> SUFFICES ASSUME NEW i \in 1 .. n, i > pos PROVE h[i] = items[i]
    BY <1>4
  <2>1. i \notin Ancestors(pos) /\ i # pos
    BY <1>3, <1>4, AncestorBounds
  <2> QED BY <1>2, <2>1 DEF DownShape
<1>6. /\ MinPos # pos => Wins(h, MinPos, temp)
      /\ MinPos = pos => \A c \in 1 .. n : c > 1 /\ parent(c) = pos => ~Wins(h, c, temp)
  BY <1>1, <1>3, <1>4, <1>5, MinPosWins
<1>7. CASE MinPos # pos
  <2>1. /\ MinPos \in 1 .. n /\ MinPos > 1 /\ parent(MinPos) = pos
        /\ Shift(items[MinPos], MinPos)
    BY <1>1, <1>4, <1>7, MinPosLemma DEF sift_down_step
  <2> HIDE DEF MinPos
  <2>2. /\ \A i \in 1 .. n : items'[i] = IF i = pos THEN items[MinPos] ELSE items[i]
        /\ Len(items') = n /\ pos' = MinPos /\ UNCHANGED <<mode, temp, call>>
    BY <1>1, <1>4, <2>1, ShiftArray
  <2>3. DownShape(h, n, p, MinPos, items')
    BY <1>2, <1>3, <1>6, <1>7, <2>1, <2>2, DownShapeMove
  <2>4. Called'
    BY <1>1, <1>2, <2>2 DEF Called, h, p
  <2>5. MatchesClosedForm'
    BY <1>1, <2>2 DEF MatchesClosedForm
  <2> QED BY <1>1, <2>2, <2>3, <2>4, <2>5 DEF ClosedForm, h, p
<1>8. CASE MinPos = pos
  <2>1. Finish
    BY <1>8 DEF sift_down_step
  <2>2. /\ items' = [i \in 1 .. n |-> IF i = pos THEN temp ELSE items[i]]
        /\ mode' = "idle" /\ call' = call
    BY <1>1, <2>1, FinishArray
  <2>3. items' = sift_down(h, p)
    BY <1>2, <1>3, <1>6, <1>8, <2>2, DownShapeEnd
  <2>4. MatchesClosedForm'
    BY <1>2, <2>2, <2>3 DEF MatchesClosedForm, h, p
  <2> QED BY <1>1, <2>2, <2>4 DEF ClosedForm, Running
<1> QED BY <1>7, <1>8

(***************************************************************************)
(* The loops of heap.hpp, iteration by iteration, leave what sift_up and   *)
(* sift_down of HeapOps say in closed form, for a heap of any size: the    *)
(* keyspace model may use the closed form.                                 *)
(***************************************************************************)
THEOREM LoopsMatchClosedForm == Spec => []MatchesClosedForm
<1>1. Init => ClosedForm
  BY DEF Init, ClosedForm, Running, MatchesClosedForm
<1>2. IInv /\ ClosedForm /\ [Next]_vars => ClosedForm'
  <2> SUFFICES ASSUME IInv, ClosedForm, [Next]_vars PROVE ClosedForm'
    OBVIOUS
  <2>0. items \in Seq(Item)
    BY DEF IInv, TypeOK
  <2>1. ASSUME NEW id \in Ids, NEW v \in Values, push(id, v) PROVE ClosedForm'
    <3> DEFINE item == [value |-> v, ref |-> id]
    <3>1. item \in Item
      BY DEF Item
    <3>2. Start("up", Append(items, item), Len(items) + 1)
      BY <2>1 DEF push
    <3> HIDE DEF item
    <3>3. Append(items, item) \in Seq(Item) /\ Len(items) + 1 \in DOMAIN Append(items, item)
      BY <2>0, <3>1
    <3> QED BY <3>2, <3>3, StartForm
  <2>2. ASSUME NEW p \in DOMAIN items, NEW v \in Values, set_and_update(p, v) PROVE ClosedForm'
    <3> DEFINE h == [items EXCEPT ![p].value = v]
    <3>0. items[p] \in Item
      BY <2>0
    <3>1. [items[p] EXCEPT !.value = v] \in Item
      BY <3>0 DEF Item
    <3>2. h \in Seq(Item) /\ p \in DOMAIN h
      BY <2>0, <3>1
    <3>3. \E m \in {"up", "down"} : Start(m, h, p)
      BY <2>2 DEF set_and_update
    <3> HIDE DEF h
    <3> QED BY <3>2, <3>3, StartForm
  <2>3. CASE Loop
    BY <2>3, UpStepForm, DownStepForm DEF Loop
  <2>4. CASE pop
    BY <2>4 DEF pop, ClosedForm, Running, MatchesClosedForm
  <2>5. CASE clear
    <3>1. mode' = "idle" /\ items' = <<>> /\ call' = [call EXCEPT !.dir = "none"]
      BY <2>5 DEF clear
    <3>2. "dir" \in DOMAIN call' /\ call'.dir = "none"
      BY <3>1 DEF ClosedForm
    <3> QED BY <3>1, <3>2 DEF ClosedForm, Running, MatchesClosedForm
  <2>6. CASE UNCHANGED vars
    BY <2>6 DEF vars, ClosedForm, Running, MatchesClosedForm, Called, UpShape, DownShape
  <2> QED BY <2>1, <2>2, <2>3, <2>4, <2>5, <2>6 DEF Next
<1>3. ClosedForm => MatchesClosedForm
  BY DEF ClosedForm
<1> QED BY <1>1, <1>2, <1>3, Invariance, PTL DEF Spec
=============================================================================
