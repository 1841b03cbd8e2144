-------------------------------- MODULE HMap --------------------------------
(***************************************************************************)
(* HMap and HTable (src/src/dsa/hashtable.hpp) at the level of buckets: a  *)
(* node is in front of its bucket's list when it is inserted, keys share   *)
(* buckets, duplicates of a key are not looked for.                        *)
(*                                                                         *)
(* insert calls start_resize with map_mutex_ locked and start_resize locks *)
(* it again.  That either throws or blocks for ever (see Keyspace), so     *)
(* temporary_table_ never exists and help_resize returns at once.          *)
(***************************************************************************)
EXTENDS Integers, SequencesExt

CONSTANTS
    Keys,
    Vals,
    hash_key,          \* the FNV-1a hash of every key
    k_min_cap,         \* buckets of a table that is not empty (4 in the code)
    k_max_load_factor, \* nodes per bucket that trigger start_resize (8)
    Nothing            \* nullptr of find, nullopt of remove

ASSUME HMapAssumption ==
    /\ hash_key \in [Keys -> Nat]
    /\ k_min_cap \in Nat \ {0}
    /\ k_max_load_factor \in Nat \ {0}

VARIABLES
    buckets_,  \* primary_table_.buckets_: a list of nodes, first node first, per bucket
    size_,     \* primary_table_.size_
    ret        \* what the last call returned, or how it ended

vars == <<buckets_, size_, ret>>

Node == [key : Keys, value : Vals]
capacity == Len(buckets_)   \* mask_ + 1 once the table has buckets

\* hash & mask_, with mask_ = cap - 1 and cap a power of two; 1-based.
Pos(k, cap) == (hash_key[k] % cap) + 1

\* HTable(k_min_cap): initialize.
EmptyTable == [p \in 1 .. k_min_cap |-> <<>>]

InTable(k) == capacity > 0 /\ \E i \in DOMAIN buckets_[Pos(k, capacity)] :
                  buckets_[Pos(k, capacity)][i].key = k

\* Mutant: the loops go on to the last node with the key.
MutLastNode(k) ==
    CHOOSE i \in DOMAIN buckets_[Pos(k, capacity)] :
        /\ buckets_[Pos(k, capacity)][i].key = k
        /\ \A j \in DOMAIN buckets_[Pos(k, capacity)] :
              j > i => buckets_[Pos(k, capacity)][j].key # k

\* The first node of its bucket's list with the key: what the loops of lookup
\* and remove stop at.
NodeIdx(k) ==
    CHOOSE i \in DOMAIN buckets_[Pos(k, capacity)] :
        /\ buckets_[Pos(k, capacity)][i].key = k
        /\ \A j \in 1 .. (i - 1) : buckets_[Pos(k, capacity)][j].key # k

lookup(k) == IF InTable(k) THEN buckets_[Pos(k, capacity)][NodeIdx(k)].value ELSE Nothing

\* HMap::insert.
insert(k, v) ==
    /\ ret # "hung"
    /\ LET table == IF size_ = 0 THEN EmptyTable ELSE buckets_
       IN  IF size_ >= k_max_load_factor * Len(table)
           THEN ret' \in {"threw", "hung"} /\ UNCHANGED <<buckets_, size_>>
           ELSE /\ buckets_' = [table EXCEPT ![Pos(k, Len(table))] =
                                    <<[key |-> k, value |-> v]>> \o @]
                /\ size_' = size_ + 1
                /\ ret' = "void"

\* HMap::find.
find(k) ==
    /\ ret # "hung"
    /\ ret' = lookup(k)
    /\ UNCHANGED <<buckets_, size_>>

\* HMap::remove.
remove(k) ==
    /\ ret # "hung"
    /\ ret' = lookup(k)
    /\ IF InTable(k)
       THEN /\ buckets_' = [buckets_ EXCEPT ![Pos(k, capacity)] = RemoveAt(@, NodeIdx(k))]
            /\ size_' = size_ - 1
       ELSE UNCHANGED <<buckets_, size_>>

\* Mutant: the buckets are dropped and size_ is kept.
MutClearKeepsSize ==
    /\ ret # "hung"
    /\ buckets_' = <<>>
    /\ ret' = "void"
    /\ UNCHANGED size_

\* HMap::clear: no bucket is left, mask_ and size_ are 0.
clear ==
    /\ ret # "hung"
    /\ buckets_' = <<>>
    /\ size_' = 0
    /\ ret' = "void"

-----------------------------------------------------------------------------
Init == buckets_ = <<>> /\ size_ = 0 /\ ret = "void"

Next ==
    \/ \E k \in Keys : find(k) \/ remove(k) \/ \E v \in Vals : insert(k, v)
    \/ clear

Spec == Init /\ [][Next]_vars

-----------------------------------------------------------------------------
(* Properties                                                              *)

AllNodes == FlattenSeq(buckets_)

\* Every variable keeps its type; the table has no buckets or k_min_cap of them.
TypeOK ==
    /\ buckets_ = <<>> \/ buckets_ \in [1 .. k_min_cap -> Seq(Node)]
    /\ size_ \in Nat
    /\ ret \in Vals \cup {Nothing, "void", "threw", "hung"}

\* size_ counts the nodes, over any sequence of inserts, removes and clears: it
\* decides when the table is thrown away and when an insert is refused.
SizeExact == size_ = Len(AllNodes)

\* Every node is in the list of the bucket its hash gives, where lookup and
\* remove look for it, also after the table was thrown away and set up anew.
InOwnBucket ==
    \A p \in DOMAIN buckets_ : \A i \in DOMAIN buckets_[p] :
        Pos(buckets_[p][i].key, capacity) = p

\* The table has its shape, its nodes are where they are looked for and their
\* count is exact.
TableSound == TypeOK /\ InOwnBucket /\ SizeExact

\* What ResizeTest expects of a hundred inserts: each one returns, and the
\* table grows when its buckets are full.
InsertsReturn == ret \notin {"threw", "hung"}

\* The stack of a key: its nodes wherever they are, the first one on top.
StackOf(k) ==
    LET nodes == Reverse(SelectSeq(AllNodes, LAMBDA n : n.key = k))
    IN  [i \in DOMAIN nodes |-> nodes[i].value]

Stacks == INSTANCE KeyStacks WITH
    stack <- [k \in Keys |-> StackOf(k)],
    MaxNodes <- k_min_cap * k_max_load_factor

\* The buckets implement one stack per key, whichever keys collide: an operation
\* on one key never changes or returns a value of another key that shares its
\* bucket, and remove unlinks the node that find returns.
ImplementsKeyStacks == Stacks!SSpec

=============================================================================
