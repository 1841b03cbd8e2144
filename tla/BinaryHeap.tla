----------------------------- MODULE BinaryHeap -----------------------------
(***************************************************************************)
(* BinaryHeap (src/src/dsa/heap.hpp) with one step per iteration of the    *)
(* sift loops.                                                             *)
(*                                                                         *)
(* The caller owns one position variable per item, position[id], and hands *)
(* the heap a pointer to it (HeapItem::position_ref_).  The loops carry    *)
(* the moving item in `temp' and leave a hole at `pos': the slot keeps the *)
(* moved-from value, which no comparison reads.  Positions are 1-based.    *)
(***************************************************************************)
EXTENDS Integers, HeapOps

CONSTANTS
    Ids,      \* owners of heap items
    Values,   \* values of the items (deadlines)
    MaxItems  \* bound on the number of items

ASSUME BinaryHeapAssumption == Values \subseteq Nat /\ MaxItems \in Nat

VARIABLES
    items,     \* items_
    position,  \* what position_ref_ of each owner's item points to
    mode,      \* "idle", or inside "up" (sift_up) or "down" (sift_down), or "stopped"
    pos,       \* the loop variable
    temp,      \* the item being moved
    call       \* the heap and position the running or last sift started with

vars == <<items, position, mode, pos, temp, call>>

Item == [value : Values, ref : Ids]
Owners == {items[i].ref : i \in DOMAIN items}
NoItem == [value |-> 0, ref |-> 0]

\* temp = std::move(items_[p]).
Start(m, h, p) ==
    /\ items' = h
    /\ mode' = m
    /\ pos' = p
    /\ temp' = h[p]
    /\ call' = [dir |-> m, heap |-> h, pos |-> p]
    /\ UNCHANGED position

\* Mutant: a second item is pushed for an owner that has one.
MutPushTwice(id, v) ==
    /\ mode = "idle"
    /\ Len(items) < MaxItems
    /\ Start("up", Append(items, [value |-> v, ref |-> id]), Len(items) + 1)

\* EntryManager pushes an item only for an owner that has none.
push(id, v) ==
    /\ mode = "idle"
    /\ id \notin Owners
    /\ Len(items) < MaxItems
    /\ Start("up", Append(items, [value |-> v, ref |-> id]), Len(items) + 1)

\* operator[](p).set_value(v); update(p).
set_and_update(p, v) ==
    LET h == [items EXCEPT ![p].value = v]
    IN  /\ mode = "idle"
        /\ Start(IF MovesUp(h, p) THEN "up" ELSE "down", h, p)

\* *items_[p].position_ref_ = p after items_[p] = item.
Put(p, item) ==
    /\ items' = [items EXCEPT ![p] = item]
    /\ position' = [position EXCEPT ![item.ref] = p]

\* An iteration moves `item' into the hole and the hole to p.
Shift(item, p) ==
    /\ Put(pos, item)
    /\ pos' = p
    /\ UNCHANGED <<mode, temp, call>>

Finish ==
    /\ Put(pos, temp)
    /\ mode' = "idle"
    /\ UNCHANGED <<pos, temp, call>>

\* Mutant: the loop stops one level below the root (pos > 1 for pos > 0).
MutUpStopsEarly ==
    /\ mode = "up"
    /\ IF pos > 3 /\ temp.value < items[parent(pos)].value
       THEN Shift(items[parent(pos)], parent(pos))
       ELSE Finish

sift_up_step ==
    /\ mode = "up"
    /\ IF pos > 1 /\ temp.value < items[parent(pos)].value
       THEN Shift(items[parent(pos)], parent(pos))
       ELSE Finish

InHeap(p) == p \in DOMAIN items

\* min_pos after the two comparisons of an iteration of sift_down.
MinPos ==
    LET l == left_child(pos)
        r == right_child(pos)
        m == IF InHeap(l) /\ items[l].value < temp.value THEN l ELSE pos
    IN  IF InHeap(r) /\ items[r].value < (IF m = pos THEN temp.value ELSE items[m].value)
        THEN r ELSE m

\* Mutant: the right child is compared with the moving item only.
MutDownRightFirst ==
    /\ mode = "down"
    /\ LET m == IF InHeap(right_child(pos)) /\ items[right_child(pos)].value < temp.value
                THEN right_child(pos) ELSE MinPos
       IN  IF m # pos THEN Shift(items[m], m) ELSE Finish

\* Mutant: the loop does not leave when no child is smaller.
MutDownNeverEnds ==
    /\ mode = "down"
    /\ Shift(IF MinPos = pos THEN temp ELSE items[MinPos], MinPos)

sift_down_step ==
    /\ mode = "down"
    /\ IF MinPos # pos THEN Shift(items[MinPos], MinPos) ELSE Finish

\* pop() holds heap_mutex_ and calls empty(), which locks it again: the call
\* does not return (see Keyspace, RelockAborts).
pop ==
    /\ mode = "idle"
    /\ mode' = "stopped"
    /\ UNCHANGED <<items, position, pos, temp, call>>

clear ==
    /\ mode = "idle"
    /\ items' = <<>>
    /\ call' = [call EXCEPT !.dir = "none"]
    /\ UNCHANGED <<position, mode, pos, temp>>

-----------------------------------------------------------------------------
Init ==
    /\ items = <<>>
    /\ position = [id \in Ids |-> 0]
    /\ mode = "idle"
    /\ pos = 0
    /\ temp = NoItem
    /\ call = [dir |-> "none", heap |-> <<>>, pos |-> 0]

Loop == sift_up_step \/ sift_down_step

Next ==
    \/ \E id \in Ids, v \in Values : push(id, v)
    \/ \E p \in DOMAIN items, v \in Values : set_and_update(p, v)
    \/ Loop
    \/ pop
    \/ clear

Spec == Init /\ [][Next]_vars

-----------------------------------------------------------------------------
(* Properties                                                              *)

\* Every variable keeps its type, and a running loop has its hole in the heap.
TypeOK ==
    /\ items \in Seq(Item)
    /\ position \in [Ids -> Nat]
    /\ mode \in {"idle", "up", "down", "stopped"}
    /\ pos \in Nat
    /\ mode \in {"up", "down"} => pos \in DOMAIN items /\ temp \in Item

\* The items as the caller sees them, the moving item in its hole.
View ==
    IF mode \in {"up", "down"} THEN [items EXCEPT ![pos] = temp] ELSE items

\* Between two operations the items form a min-heap.
HeapOrdered ==
    mode \in {"idle", "stopped"} =>
        \A i \in DOMAIN items : i > 1 => items[parent(i)].value <= items[i].value

\* Between two operations every owner's variable holds its item's position:
\* the heap itself keeps the promise of position_ref_.
PositionsExact ==
    mode \in {"idle", "stopped"} =>
        \A i \in DOMAIN items : position[items[i].ref] = i

\* What the owners rely on between two operations: the order of the items, and
\* the positions stored through position_ref_.
HeapSound == HeapOrdered /\ PositionsExact

\* No loop loses or duplicates an item: at every iteration the owners of the
\* items, the moving item included, are distinct.
ItemsDistinct ==
    \A i, j \in DOMAIN View : View[i].ref = View[j].ref => i = j

\* At every iteration the hole is a position of the heap and no item is lost.
ItemsSound == TypeOK /\ ItemsDistinct

\* The iterations compute what HeapOps says in closed form; the keyspace
\* model uses the closed form.
MatchesClosedForm ==
    mode = "idle" =>
        CASE call.dir = "up" -> items = sift_up(call.heap, call.pos)
          [] call.dir = "down" -> items = sift_down(call.heap, call.pos)
          [] OTHER -> items = <<>>

\* Every loop ends: an iteration of sift_up that is not the last moves the hole
\* towards the root, one of sift_down moves it towards the end of the array.
LoopsProgress ==
    [][/\ mode = "up" /\ mode' = "up" => pos' < pos
       /\ mode = "down" /\ mode' = "down" => pos' > pos]_vars
=============================================================================
