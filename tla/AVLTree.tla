------------------------------- MODULE AVLTree -------------------------------
(***************************************************************************)
(* AVLTree (src/src/dsa/avl_locking.hpp): the recursive insertion and      *)
(* removal with their rotations, and set(), which looks for its key under  *)
(* a shared lock, gives the lock up, and then writes to the node it found  *)
(* or inserts a new one under an exclusive lock.                           *)
(*                                                                         *)
(* A subtree is a record that holds its children, as a unique_ptr owns     *)
(* them; `held' are the threads whose existingNode points to the node.     *)
(* The raw parent pointers are written and never read: they are left out.  *)
(* A region under tree_mutex is one step, so the locks themselves need no  *)
(* state.  get() and exists() change nothing: they are search().           *)
(***************************************************************************)
EXTENDS Integers, Sequences, FiniteSets

CONSTANTS
    Keys,       \* integers
    Threads,    \* threads that call set and del
    NoKey       \* the key of a thread that is in no call

ASSUME AVLAssumption == Keys \subseteq Int /\ NoKey \notin Keys

VARIABLES
    root_,
    call,     \* the key a thread is setting, between the two regions of set()
    found,    \* whether it found a node
    dict,     \* the keys that were set and not deleted since
    raced     \* whether a deletion ran while some set() held a node

vars == <<root_, call, found, dict, raced>>

nullptr == [depth |-> 0, weight |-> 0]

\* make_unique<AVLNode>: set(k) stores the value that belongs to k.
Value(k) == <<"value of", k>>
AVLNode(k) ==
    [key |-> k, value |-> Value(k), depth |-> 1, weight |-> 1,
     left |-> nullptr, right |-> nullptr, held |-> {}]

Greater(a, b) == IF a > b THEN a ELSE b

updateNode(n) ==
    [n EXCEPT !.depth = 1 + Greater(n.left.depth, n.right.depth),
              !.weight = 1 + n.left.weight + n.right.weight]

rotateLeft(n) ==
    IF n = nullptr \/ n.right = nullptr THEN n
    ELSE updateNode([n.right EXCEPT !.left = updateNode([n EXCEPT !.right = n.right.left])])

rotateRight(n) ==
    IF n = nullptr \/ n.left = nullptr THEN n
    ELSE updateNode([n.left EXCEPT !.right = updateNode([n EXCEPT !.left = n.left.right])])

\* Mutant: a left child that leans to the right is not rotated first.
MutFixLeftSingle(n) == rotateRight(n)

fixLeft(n) ==
    rotateRight(IF n.left.right.depth > n.left.left.depth
                THEN [n EXCEPT !.left = rotateLeft(@)] ELSE n)

fixRight(n) ==
    rotateLeft(IF n.right.left.depth > n.right.right.depth
               THEN [n EXCEPT !.right = rotateRight(@)] ELSE n)

fix(n) ==
    LET u == updateNode(n) IN
    IF u.left.depth > u.right.depth + 1 THEN fixLeft(u)
    ELSE IF u.right.depth > u.left.depth + 1 THEN fixRight(u)
    ELSE u

RECURSIVE insert(_, _)
insert(n, k) ==
    IF n = nullptr THEN AVLNode(k)
    ELSE IF k < n.key THEN fix([n EXCEPT !.left = insert(@, k)])
    ELSE IF k > n.key THEN fix([n EXCEPT !.right = insert(@, k)])
    ELSE n

\* The leftmost node of a subtree: the loop that looks for the successor.
RECURSIVE Leftmost(_)
Leftmost(n) == IF n.left = nullptr THEN n ELSE Leftmost(n.left)

\* Mutant: the successor's key is copied without its value.
RECURSIVE MutRemoveKeepsValue(_, _)
MutRemoveKeepsValue(n, k) ==
    IF n = nullptr THEN nullptr
    ELSE IF k < n.key THEN fix([n EXCEPT !.left = MutRemoveKeepsValue(@, k)])
    ELSE IF k > n.key THEN fix([n EXCEPT !.right = MutRemoveKeepsValue(@, k)])
    ELSE IF n.left = nullptr THEN n.right
    ELSE IF n.right = nullptr THEN n.left
    ELSE LET s == Leftmost(n.right)
         IN  fix([n EXCEPT !.key = s.key, !.right = MutRemoveKeepsValue(@, s.key)])

(* A node with two children stays, with the key and the value of its       *)
(* successor, and the successor's node is freed.                           *)
RECURSIVE remove(_, _)
remove(n, k) ==
    IF n = nullptr THEN nullptr
    ELSE IF k < n.key THEN fix([n EXCEPT !.left = remove(@, k)])
    ELSE IF k > n.key THEN fix([n EXCEPT !.right = remove(@, k)])
    ELSE IF n.left = nullptr THEN n.right
    ELSE IF n.right = nullptr THEN n.left
    ELSE LET s == Leftmost(n.right)
         IN  fix([n EXCEPT !.key = s.key, !.value = s.value, !.right = remove(@, s.key)])

RECURSIVE search(_, _)
search(n, k) ==
    IF n = nullptr \/ n.key = k THEN n
    ELSE search(IF k < n.key THEN n.left ELSE n.right, k)

\* The node search returns is remembered by thread t.
RECURSIVE Hold(_, _, _)
Hold(n, k, t) ==
    IF n.key = k THEN [n EXCEPT !.held = @ \cup {t}]
    ELSE IF k < n.key THEN [n EXCEPT !.left = Hold(@, k, t)]
    ELSE [n EXCEPT !.right = Hold(@, k, t)]

\* existingNode->value = value, wherever the node is now.
RECURSIVE Store(_, _, _)
Store(n, t, v) ==
    IF n = nullptr THEN n
    ELSE IF t \in n.held THEN [n EXCEPT !.held = @ \ {t}, !.value = v]
    ELSE [n EXCEPT !.left = Store(@, t, v), !.right = Store(@, t, v)]

RECURSIVE Nodes(_)
Nodes(n) == IF n = nullptr THEN {} ELSE {n} \cup Nodes(n.left) \cup Nodes(n.right)

Init ==
    /\ root_ = nullptr
    /\ call = [t \in Threads |-> NoKey] /\ found = [t \in Threads |-> FALSE]
    /\ dict = {} /\ raced = FALSE

----------------------------------------------------------------------------
\* set(), under the shared lock.
SetSearch(t, k) ==
    /\ call[t] = NoKey
    /\ call' = [call EXCEPT ![t] = k]
    /\ found' = [found EXCEPT ![t] = search(root_, k) # nullptr]
    /\ root_' = IF search(root_, k) # nullptr THEN Hold(root_, k, t) ELSE root_
    /\ UNCHANGED <<dict, raced>>

(* The write through existingNode: to the node, wherever it is now; when   *)
(* the node was freed meanwhile, to nothing in use or to a node that got   *)
(* its memory.                                                             *)
Written(t) ==
    LET v == Value(call[t]) IN
    IF \E n \in Nodes(root_) : t \in n.held THEN {Store(root_, t, v)}
    ELSE {root_} \cup {Store(Hold(root_, n.key, t), t, v) : n \in Nodes(root_)}

(* set(), after the lock was given up: the write to the node, under its    *)
(* node_mutex; or the insertion, under the exclusive lock, which ignores a *)
(* key that another thread has inserted.                                   *)
SetFinish(t) ==
    /\ call[t] # NoKey
    /\ root_' \in IF found[t] THEN Written(t) ELSE {insert(root_, call[t])}
    /\ dict' = IF found[t] THEN dict ELSE dict \cup {call[t]}
    /\ call' = [call EXCEPT ![t] = NoKey] /\ found' = [found EXCEPT ![t] = FALSE]
    /\ UNCHANGED raced

del(t, k) ==
    /\ call[t] = NoKey
    /\ root_' = remove(root_, k)
    /\ dict' = dict \ {k}
    /\ raced' = (raced \/ \E u \in Threads : found[u])
    /\ UNCHANGED <<call, found>>

Next ==
    \E t \in Threads :
        \/ SetFinish(t)
        \/ \E k \in Keys : SetSearch(t, k) \/ del(t, k)

Spec == Init /\ [][Next]_vars

----------------------------------------------------------------------------
\* The keys below a node, on its left smaller and on its right greater, each key once.
Ordered ==
    \A n \in Nodes(root_) :
        /\ \A m \in Nodes(n.left) : m.key < n.key
        /\ \A m \in Nodes(n.right) : m.key > n.key

\* No subtree is more than one level deeper than its sibling, counted anew.
RECURSIVE Height(_)
Height(n) == IF n = nullptr THEN 0 ELSE 1 + Greater(Height(n.left), Height(n.right))
Balanced ==
    \A n \in Nodes(root_) :
        Height(n.left) <= Height(n.right) + 1 /\ Height(n.right) <= Height(n.left) + 1

\* The depth and the weight stored in a node, on which fix() decides, are those of its subtree.
DepthsExact ==
    \A n \in Nodes(root_) : n.depth = Height(n) /\ n.weight = Cardinality(Nodes(n))

\* search(), from which set() decides between a write and an insertion, finds
\* exactly the keys set and not deleted.
FindsKeys == \A k \in Keys : search(root_, k) # nullptr <=> k \in dict

\* An AVL tree of the keys that are set, after any sequence of insertions and
\* removals.
TreeSound == Ordered /\ Balanced /\ DepthsExact /\ FindsKeys

(* A key has its own value: what set() wrote landed in the node of its key *)
(* and moved with the key, unless a deletion came between its two regions. *)
ValueOfKey == ~raced => \A n \in Nodes(root_) : n.value = Value(n.key)

(* The node a set() has found keeps its key while others insert and        *)
(* rotate, until the write, unless a deletion came in between.             *)
TargetLive ==
    ~raced => \A t \in Threads : found[t] =>
                 \E n \in Nodes(root_) : t \in n.held /\ n.key = call[t]

\* A value that set() writes after it gave the shared lock up lands at its key.
WritesLand == ValueOfKey /\ TargetLive
=============================================================================
