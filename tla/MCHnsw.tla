------------------------------- MODULE MCHnsw -------------------------------
EXTENDS Hnsw

CONSTANT FewPoints     \* the vectors of MixedCalls

Busy == {t \in Threads : ~At(t, "idle")}
Called == {l \in Labels : op[l].pc # "none"}
Calls == Cardinality(Busy) + Cardinality(Called)

(* Calls of every kind on at most four elements, two at a time: the fourth *)
(* element arrives alone and is not deleted, after an update or a reuse    *)
(* one call runs at a time, at most one element is deleted at a time, an   *)
(* index is loaded with at most two elements.                              *)
MixedCalls ==
    /\ Calls <= IF updates > 0 \/ element_count_ = 4 THEN 1 ELSE 2
    /\ element_count_ <= 4 /\ (element_count_ = 4 => deleted = {})
    /\ Cardinality(deleted) <= 1
    /\ loaded => element_count_ <= 2
    /\ Range(data) \cup {th[t].p : t \in Busy} \cup {op[l].p : l \in Called} \subseteq FewPoints \cup {0}

(* Lists of level 0 that are full: insertions on one level, the last two   *)
(* of which overlap.                                                       *)
FullLists ==
    /\ Cardinality(Busy) <= 1 \/ element_count_ > max_M(0) + 1
    /\ \A i \in Ids : element_levels_[i] = 0
    /\ Called = {} /\ deleted = {} /\ updates = 0 /\ ~loaded

\* The index grows in one resize, when it is full.
OneResize == capacity_ # Capacity => capacity_ = MaxCapacity /\ element_count_ >= Capacity

(* Labels are only compared with each other: new elements take them in     *)
(* ascending order, a reused element takes the last one.                   *)
InOrder(l, i) == l = i + 1 \/ (updates > 0 /\ l = Max(Labels))
LabelOrder ==
    /\ \A l \in Labels : label_map_[l] # None => InOrder(l, label_map_[l])
    /\ \A t \in Busy : ~th[t].upd => th[t].label = th[t].id + 1
    /\ \A l \in Labels : op[l].pc = "relabel" => l = Max(Labels)

Bound == OneResize /\ LabelOrder /\ (MixedCalls \/ FullLists)

(* The steps of Next.  Those that begin a call are kept within Bound as    *)
(* they are taken: what Bound leaves out is not even generated.            *)
MCInsert(t) == Insert(t) /\ Bound'
MCBeginUpdate == BeginUpdate /\ Bound'
MCmarkDelete(l) == markDelete(l) /\ Bound'
MCresizeIndex == (\E n \in element_count_ .. MaxCapacity : resizeIndex(n)) /\ Bound'
MCSaveAndLoad == SaveAndLoad /\ Bound'

MCNext ==
    \/ \E t \in Threads : Progress(t) \/ MCInsert(t) \/ \E l \in Labels : updatePoint(t, l)
    \/ MCBeginUpdate \/ MCresizeIndex \/ MCSaveAndLoad
    \/ \E l \in Labels : \/ MCmarkDelete(l) \/ unmarkDelete(l) \/ Mark(l) \/ Keep(l)
                         \/ Relabel(l) \/ Unmark(l) \/ Erase(l)
MCSpec == Init /\ [][MCNext]_vars

\* Threads are compared only with each other.
Symmetry == Permutations(Threads)
=============================================================================
