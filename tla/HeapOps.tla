------------------------------ MODULE HeapOps ------------------------------
(***************************************************************************)
(* The sift loops of BinaryHeap (src/src/dsa/heap.hpp) in closed form.     *)
(*                                                                         *)
(* A heap is the sequence items_ of records with a `value' (the deadline)  *)
(* and a `ref' (the owner of position_ref_).  Positions are 1-based here   *)
(* and 0-based in the code, so parent((i + 1) / 2 - 1) is i \div 2 and the *)
(* children i * 2 + 1, i * 2 + 2 are 2 * i, 2 * i + 1.                     *)
(*                                                                         *)
(* Each loop moves one item along a path of the tree.  The path is the set *)
(* of positions the loop assigns to, and it is also the set of positions   *)
(* whose item gets its position_ref_ written.                              *)
(***************************************************************************)
EXTENDS Naturals, Sequences

parent(i) == i \div 2
left_child(i) == 2 * i
right_child(i) == 2 * i + 1

\* The proper ancestors of position p, the root included: what is in every set of
\* positions that holds the parent of p and the parent of each of its members.
Ancestors(p) ==
    LET up == 1 .. parent(p)
        Closed(S) == parent(p) \in S /\ \A x \in S : x > 1 => parent(x) \in S
    IN  {a \in up : \A S \in SUBSET up : Closed(S) => a \in S}

\* Positions sift_up(pos) assigns: pos and every ancestor that is larger than
\* the moving item, as long as all the ancestors below it are.
UpPath(h, pos) ==
    {pos} \cup {a \in Ancestors(pos) :
                    \A b \in Ancestors(pos) :
                        b >= a => h[pos].value < h[b].value}

sift_up(h, pos) ==
    LET path == UpPath(h, pos)
    IN  [i \in DOMAIN h |->
            IF i \in path
            THEN IF parent(i) \in path THEN h[parent(i)] ELSE h[pos]
            ELSE h[i]]

\* Child c takes its parent's place: it is smaller than the moving item t and
\* wins against its sibling (the left child wins a tie).
Wins(h, c, t) ==
    /\ h[c].value < t.value
    /\ IF c % 2 = 0
       THEN c + 1 \in DOMAIN h => h[c].value <= h[c + 1].value
       ELSE h[c].value < h[c - 1].value

\* Positions sift_down(pos) assigns: the chain of winning children below pos.
DownPath(h, pos) ==
    {i \in DOMAIN h :
        /\ i = pos \/ pos \in Ancestors(i)
        /\ \A a \in Ancestors(i) \cup {i} : a > pos => Wins(h, a, h[pos])}

sift_down(h, pos) ==
    LET path == DownPath(h, pos)
    IN  [i \in DOMAIN h |->
            IF i \in path
            THEN IF left_child(i) \in path THEN h[left_child(i)]
                 ELSE IF right_child(i) \in path THEN h[right_child(i)]
                 ELSE h[pos]
            ELSE h[i]]

\* Mutant: update never sifts up.
MutNeverUp(h, pos) == FALSE

\* update(pos): which way the item at pos has to move.
MovesUp(h, pos) == pos > 1 /\ h[pos].value < h[parent(pos)].value

update(h, pos) == IF MovesUp(h, pos) THEN sift_up(h, pos) ELSE sift_down(h, pos)

\* Mutant: only the item that was updated gets its position written.
MutOwnPositionOnly(h, pos) == {pos}

\* The positions update(pos) assigns.
UpdatePath(h, pos) == IF MovesUp(h, pos) THEN UpPath(h, pos) ELSE DownPath(h, pos)
=============================================================================
