-------------------------------- MODULE Hnsw --------------------------------
(***************************************************************************)
(* HierarchicalNSW (src/src/hnsw/hnsw_scratch/hnsw_core.hpp): the layered  *)
(* proximity graph, built and changed by threads that call addPoint,       *)
(* markDelete and unmarkDelete at the same time.                           *)
(*                                                                         *)
(* A step of a thread is one region of the code under one lock.  addPoint  *)
(* of a new element keeps the link lock of that element from its           *)
(* reservation to its return, and takes the link lock of one other element *)
(* at a time; an update keeps none.  The calls that work on marks and      *)
(* names, and the start of an update, are known by the label whose         *)
(* operation lock they hold (`op'); the calls that work on the graph, by   *)
(* their thread (`th').  A neighbor list is a sequence (the                *)
(* order and the duplicates the code can write), a priority queue is a set *)
(* of pairs <<distance, id>>.  Several names in the file are misspelt      *)
(* (num_deleted_, deleted_elements, max_elements, curlevel...); they stand *)
(* for the members they are declared as.                                   *)
(***************************************************************************)
EXTENDS Integers, Sequences, FiniteSets, SequencesExt

CONSTANTS
    Threads,           \* threads that call the index
    Labels,            \* external labels
    Points,            \* vectors: integers, compared by their distance
    Levels,            \* values of getRandomLevel
    M_,                \* target degree
    efConstruction_,   \* breadth of a search during construction
    Capacity,          \* capacity given to the constructor
    MaxCapacity,       \* bound on what resizeIndex asks for
    ReuseDeleted,      \* values of reuse_deleted given to the first constructor
    Alone,             \* the calls made while nothing else runs: "update", "delete"
    MaxUpdates,        \* bound on the updates
    Free               \* no label, no owner of a lock

ASSUME HnswAssumption ==
    /\ Points \subseteq Int /\ IsFiniteSet(Points)          \* vectors of machine numbers
    /\ Levels \subseteq Nat /\ IsFiniteSet(Levels) /\ Levels # {}
    /\ M_ \in Nat \ {0, 1} /\ efConstruction_ \in Nat \ {0} /\ Capacity \in Nat
    /\ MaxCapacity \in Nat /\ Capacity <= MaxCapacity
    /\ ReuseDeleted \subseteq BOOLEAN /\ Alone \subseteq {"update", "delete"} /\ MaxUpdates \in Nat
    /\ Free \notin Threads \cup Labels
    /\ \A p, q, r \in Points : q # r => q - p # p - r   \* no ties: a vector is never halfway

VARIABLES
    capacity_,
    element_count_,
    element_levels_,    \* level of every id; 0 before it is assigned
    links,              \* neighbor list of an id on a level
    data,               \* vector of an id
    label,              \* external label stored with an id
    label_map_,         \* label -> id, -1 when absent
    deleted,            \* ids whose list header carries DELETE_MARK
    deleted_count_,
    deleted_elements_,  \* ids that may be reused
    entry_id_,
    max_level_,
    link_locks_,        \* owner of the link lock of an id
    global_lock_,
    th,                 \* the locals of every thread
    op,                 \* the call on a label that holds its operation lock
    reuse_deleted_,     \* the flag given to the constructor
    updates,            \* updates so far
    loaded              \* whether the index was restored by loadIndex

graph == <<element_levels_, links, data>>
marks == <<deleted, deleted_count_, deleted_elements_>>
names == <<capacity_, element_count_, label, label_map_>>
top == <<entry_id_, max_level_>>
history == <<reuse_deleted_, updates, loaded>>
vars == <<graph, marks, names, top, link_locks_, global_lock_, th, op, history>>

Ids == 0 .. MaxCapacity - 1
AllLevels == 0 .. Max(Levels)
None == -1

max_M(level) == IF level = 0 THEN 2 * M_ ELSE M_

distance(p, q) == IF p < q THEN q - p ELSE p - q

\* The pairs of a priority queue, closest first: no two have the same distance.
Closest(queue) ==
    [i \in 1 .. Cardinality(queue) |->
        CHOOSE x \in queue : Cardinality({y \in queue : y[1] < x[1]}) = i - 1]
Nearest(queue) == CHOOSE x \in queue : \A y \in queue : x[1] <= y[1]
Farthest(queue) == CHOOSE x \in queue : \A y \in queue : x[1] >= y[1]

\* The ids of a queue in the order its pops return them: farthest first.
Popped(queue) ==
    LET n == Cardinality(queue) IN [i \in 1 .. n |-> Closest(queue)[n + 1 - i][2]]

----------------------------------------------------------------------------
(* getNeighborsByHeuristic2: closest first, an element is kept when it is  *)
(* closer to the query than to every element kept before it.               *)

getNeighborsByHeuristic2(Top_K, M) ==
    IF Cardinality(Top_K) < M
    THEN Top_K
    ELSE FoldLeft(LAMBDA kept, x :
                     IF /\ Cardinality(kept) < M
                        /\ \A y \in kept : distance(data[y[2]], data[x[2]]) >= x[1]
                     THEN kept \cup {x} ELSE kept,
                  {}, Closest(Top_K))

\* Emplace, then pop the farthest when more than `keep' are held.
Offer(queue, x, keep) ==
    LET grown == queue \cup {x}
    IN  IF Cardinality(grown) > keep THEN grown \ {Farthest(grown)} ELSE grown

(* One popped candidate of searchBaseLayer: its neighbors that were not    *)
(* visited before are offered to the result in the order of the list.      *)
Visit(s, p, x) ==
    LET closer == Cardinality(s.Top_K) < efConstruction_ \/ s.lower_bound > distance(p, data[x])
        best == IF x \in deleted THEN s.Top_K
                ELSE Offer(s.Top_K, <<distance(p, data[x]), x>>, efConstruction_)
    IN  IF x \in s.visited THEN s
        ELSE IF ~closer THEN [s EXCEPT !.visited = @ \cup {x}]
        ELSE [s EXCEPT !.visited = @ \cup {x},
                       !.K_Set = @ \cup {<<distance(p, data[x]), x>>},
                       !.Top_K = best,
                       !.lower_bound = IF best = {} THEN @ ELSE Farthest(best)[1]]

\* Farther than any distance: numeric_limits<dist_t>::max().
Infinite == 2 * (Max(Points) - Min(Points)) + 1

(* The start of searchBaseLayer.  A deleted start enters the candidates    *)
(* ahead of everything, whatever its distance.                             *)
SearchFrom(x, p) ==
    LET d == distance(p, data[x])
    IN  IF x \in deleted
        THEN [Top_K |-> {}, K_Set |-> {<<-Infinite, x>>}, visited |-> {x}, lower_bound |-> Infinite]
        ELSE [Top_K |-> {<<d, x>>}, K_Set |-> {<<d, x>>}, visited |-> {x}, lower_bound |-> d]

SearchOver(s) ==
    s.K_Set # {} =>
        Nearest(s.K_Set)[1] > s.lower_bound /\ Cardinality(s.Top_K) = efConstruction_

NoSearch == [Top_K |-> {}, K_Set |-> {}, visited |-> {}, lower_bound |-> 0]

\* A thread outside of every call.  `d' is current_distance, `pending' what a loop has left to do.
Idle == [pc |-> "idle", upd |-> FALSE, label |-> Free, id |-> 0, p |-> 0, level |-> 0,
         max |-> 0, ep |-> 0, ep_deleted |-> FALSE, obj |-> 0, d |-> 0, lev |-> 0,
         search |-> NoSearch, pending |-> << >>, nbrs |-> << >>, cands |-> {}]

\* No call on a label.  `upd' tells an update from a deletion.
NoOp == [pc |-> "none", upd |-> FALSE, id |-> 0, p |-> 0]

Init ==
    /\ capacity_ = Capacity
    /\ element_count_ = 0
    /\ element_levels_ = [i \in Ids |-> 0]
    /\ links = [i \in Ids |-> [v \in AllLevels |-> << >>]]
    /\ data = [i \in Ids |-> 0]
    /\ label = [i \in Ids |-> Free]
    /\ label_map_ = [l \in Labels |-> None]
    /\ deleted = {} /\ deleted_count_ = 0 /\ deleted_elements_ = {}
    /\ entry_id_ = None /\ max_level_ = -1
    /\ link_locks_ = [i \in Ids |-> Free]
    /\ global_lock_ = Free
    /\ th = [t \in Threads |-> Idle]
    /\ op = [l \in Labels |-> NoOp]
    /\ reuse_deleted_ \in ReuseDeleted /\ updates = 0
    /\ loaded = FALSE

----------------------------------------------------------------------------
(* What a thread does next, shared by insertion and update.                *)

At(t, pc) == th[t].pc = pc
Step(t, c) == th' = [th EXCEPT ![t] = c]
NoOps == \A l \in Labels : op[l].pc = "none"
Quiet == NoOps /\ \A t \in Threads : At(t, "idle")
LabelFree(l) == op[l].pc = "none" /\ \A t \in Threads : th[t].label # l
Updates == (\E t \in Threads : th[t].upd) \/ \E l \in Labels : op[l].upd

(* Disciplined callers make an update while nothing else runs; insertions  *)
(* overlap with each other and, unless "delete" is in Alone as well, with  *)
(* deletions.                                                              *)
Disciplined == "update" \in Alone
MayInsert == (Disciplined => ~Updates) /\ ("delete" \in Alone => NoOps)
MayDelete == (Disciplined => ~Updates) /\ ("delete" \in Alone => Quiet)
MayUpdate == Disciplined => Quiet
LockFree(i) == link_locks_[i] = Free

\* The call of searchBaseLayer for a level.
StartSearch(c, obj, lev) == [c EXCEPT !.pc = "start", !.obj = obj, !.lev = lev]

\* The loop over the levels; whether the entry point is deleted is read once, before it.
StartLevels(c, obj) ==
    StartSearch([c EXCEPT !.ep_deleted = c.ep \in deleted], obj,
                IF c.level < c.max THEN c.level ELSE c.max)

StartDescent(c) ==
    IF c.level < c.max
    THEN [c EXCEPT !.pc = "descend", !.obj = c.ep, !.lev = c.max, !.d = distance(c.p, data[c.ep])]
    ELSE StartLevels(c, c.ep)

\* After the connections of a level: the next level below, or the end of the call.
LevelDone(c, obj) ==
    IF c.lev > 0 THEN StartSearch([c EXCEPT !.pending = << >>], obj, c.lev - 1)
    ELSE IF c.upd THEN Idle
    ELSE [c EXCEPT !.pc = "publish", !.search = NoSearch]

----------------------------------------------------------------------------
(* addPoint(data_point, label, level) of a label that is not in the index. *)

\* The vectors of the model are distinct: the queues have no ties.
Unused(p) ==
    /\ \A i \in 0 .. element_count_ - 1 : data[i] # p
    /\ \A t \in Threads : At(t, "idle") \/ th[t].p # p
    /\ \A l \in Labels : op[l].upd => op[l].p # p

(* The reservation under label_map_lock_, and the link lock of the new     *)
(* element, which nobody else can hold.  After loadIndex level_lambda_ is  *)
(* 0 and getRandomLevel converts an infinity: not modelled.                *)
Reserve(t, l, p, lvl) ==
    /\ ~loaded
    /\ label_map_[l] = None
    /\ element_count_ < capacity_
    /\ MayInsert
    /\ element_count_' = element_count_ + 1
    /\ label_map_' = [label_map_ EXCEPT ![l] = element_count_]
    /\ link_locks_' = [link_locks_ EXCEPT ![element_count_] = t]
    /\ element_levels_' = [element_levels_ EXCEPT ![element_count_] = lvl]
    /\ Step(t, [Idle EXCEPT !.pc = "global", !.label = l, !.id = element_count_,
                            !.p = p, !.level = lvl])
    /\ UNCHANGED <<capacity_, links, data, label, marks, top, global_lock_, op, history>>

\* global_lock_: kept to the end by an element that goes above the top level.
ReadMaxLevel(t) ==
    /\ At(t, "global") /\ global_lock_ = Free
    /\ global_lock_' = IF th[t].level <= max_level_ THEN Free ELSE t
    /\ Step(t, [th[t] EXCEPT !.pc = "entry", !.max = max_level_])
    /\ UNCHANGED <<graph, marks, names, top, link_locks_, op, history>>

(* entry_id_ is read after the unlock.  The element is cleared and filled; *)
(* the first one becomes the entry point.                                  *)
ReadEntry(t) ==
    LET c == [th[t] EXCEPT !.ep = entry_id_, !.obj = entry_id_] IN
    /\ At(t, "entry")
    /\ links' = [links EXCEPT ![c.id] = [v \in AllLevels |-> << >>]]
    /\ data' = [data EXCEPT ![c.id] = c.p]
    /\ label' = [label EXCEPT ![c.id] = c.label]
    /\ IF entry_id_ = None
       THEN /\ entry_id_' = 0 /\ max_level_' = c.level
            /\ Step(t, [c EXCEPT !.pc = "publish"])
       ELSE /\ UNCHANGED top
            /\ Step(t, StartDescent(c))
    /\ UNCHANGED <<capacity_, element_count_, label_map_, element_levels_, marks, link_locks_,
                   global_lock_, op, history>>

\* One round of the greedy loop above the element's level, under the lock of current_obj.
Descend(t) ==
    LET c == th[t]
        offers == {<<distance(c.p, data[x]), x>> : x \in Range(links[c.obj][c.lev])}
        better == {o \in offers : o[1] < c.d}
    IN
    /\ At(t, "descend") /\ LockFree(c.obj)
    /\ Step(t, IF better # {}
               THEN [c EXCEPT !.d = Nearest(better)[1], !.obj = Nearest(better)[2]]
               ELSE IF c.lev - 1 > c.level THEN [c EXCEPT !.lev = @ - 1]
               ELSE StartLevels(c, c.obj))
    /\ UNCHANGED <<graph, marks, names, top, link_locks_, global_lock_, op, history>>

\* The start of searchBaseLayer looks whether its element is deleted.
BeginSearch(t) ==
    LET c == th[t] IN
    /\ At(t, "start")
    /\ Step(t, [c EXCEPT !.pc = "search", !.search = SearchFrom(c.obj, c.p)])
    /\ UNCHANGED <<graph, marks, names, top, link_locks_, global_lock_, op, history>>

\* One candidate of searchBaseLayer, under its link lock.
SearchStep(t) ==
    LET c == th[t]
        x == Nearest(c.search.K_Set)
    IN
    /\ At(t, "search") /\ ~SearchOver(c.search) /\ LockFree(x[2])
    /\ Step(t, [c EXCEPT !.search =
                   FoldLeft(LAMBDA s, y : Visit(s, c.p, y),
                            [c.search EXCEPT !.K_Set = @ \ {x}], links[x[2]][c.lev])])
    /\ UNCHANGED <<graph, marks, names, top, link_locks_, global_lock_, op, history>>

\* Mutant: a deleted entry point is not offered.
MutCandidatesOnlyFound(c) == {x \in c.search.Top_K : x[2] # c.id \/ ~c.upd}

(* The candidates mutuallyConnectNewElement is given: a deleted entry      *)
(* point is offered as well; an update leaves out the element itself.      *)
Candidates(c) ==
    LET found == {x \in c.search.Top_K : x[2] # c.id \/ ~c.upd}
        ep_deleted == IF c.upd THEN found # {} /\ c.ep \in deleted ELSE c.ep_deleted
    IN  IF ep_deleted
        THEN Offer(found, <<distance(c.p, data[c.ep]), c.ep>>, efConstruction_)
        ELSE found

\* The element's own list; it must be blank when the element is new.
ConnectOwn(t) ==
    LET c == th[t]
        selected == Popped(getNeighborsByHeuristic2(Candidates(c), M_))
        throws == \/ Candidates(c) = {}
                  \/ ~c.upd /\ (links[c.id][c.lev] # << >> \/ c.id \in deleted)
                  \/ \E n \in Range(selected) : c.lev > element_levels_[n]
    IN
    /\ At(t, "search") /\ SearchOver(c.search)
    /\ c.upd => LockFree(c.id)
    /\ IF c.upd /\ Candidates(c) = {}
       THEN Step(t, LevelDone(c, c.obj)) /\ UNCHANGED links
       ELSE IF throws
       THEN Step(t, [c EXCEPT !.pc = "error"]) /\ UNCHANGED links
       ELSE /\ links' = [links EXCEPT ![c.id][c.lev] = selected]
            /\ Step(t, [c EXCEPT !.pc = "connect", !.pending = selected, !.obj = Last(selected),
                                 !.search = NoSearch])
    /\ UNCHANGED <<element_levels_, data, marks, names, top, link_locks_, global_lock_, op, history>>

\* Mutant: an update does not look for the element in the list.
MutLinkedTwice(n, id, lev, upd) ==
    LET list == links[n][lev]
        pairs == {<<distance(data[x], data[n]), x>> : x \in Range(list) \cup {id}}
    IN  IF Len(list) < max_M(lev) THEN Append(list, id)
        ELSE Popped(getNeighborsByHeuristic2(pairs, max_M(lev)))

\* The list of a neighbor n with `id' added, pruned when it is full.
Linked(n, id, lev, upd) ==
    LET list == links[n][lev]
        pairs == {<<distance(data[x], data[n]), x>> : x \in Range(list) \cup {id}}
    IN  IF upd /\ id \in Range(list) THEN list
        ELSE IF Len(list) < max_M(lev) THEN Append(list, id)
        ELSE Popped(getNeighborsByHeuristic2(pairs, max_M(lev)))

ConnectNeighbor(t) ==
    LET c == th[t]
        n == Head(c.pending)
        throws == Len(links[n][c.lev]) > max_M(c.lev) \/ n = c.id \/ c.lev > element_levels_[n]
        rest == [c EXCEPT !.pending = Tail(@)]
    IN
    /\ At(t, "connect") /\ LockFree(n)
    /\ IF throws
       THEN Step(t, [c EXCEPT !.pc = "error"]) /\ UNCHANGED links
       ELSE /\ links' = [links EXCEPT ![n][c.lev] = Linked(n, c.id, c.lev, c.upd)]
            /\ Step(t, IF rest.pending = << >> THEN LevelDone(rest, c.obj) ELSE rest)
    /\ UNCHANGED <<element_levels_, data, marks, names, top, link_locks_, global_lock_, op, history>>

\* Mutant: max_level_ is not raised.
MutPublishKeepsMaxLevel(t) ==
    LET c == th[t] IN
    /\ At(t, "publish")
    /\ IF c.level > c.max THEN entry_id_' = c.id /\ global_lock_' = Free
       ELSE UNCHANGED <<entry_id_, global_lock_>>
    /\ link_locks_' = [link_locks_ EXCEPT ![c.id] = Free]
    /\ Step(t, Idle)
    /\ UNCHANGED <<graph, marks, names, max_level_, op, history>>

\* Mutant: global_lock_ stays locked.
MutPublishKeepsLock(t) ==
    LET c == th[t] IN
    /\ At(t, "publish")
    /\ IF c.level > c.max THEN entry_id_' = c.id /\ max_level_' = c.level ELSE UNCHANGED top
    /\ link_locks_' = [link_locks_ EXCEPT ![c.id] = Free]
    /\ Step(t, Idle)
    /\ UNCHANGED <<graph, marks, names, global_lock_, op, history>>

\* The end of addPoint: the new entry point, and the release of every lock.
Publish(t) ==
    LET c == th[t] IN
    /\ At(t, "publish")
    /\ IF c.level > c.max
       THEN entry_id_' = c.id /\ max_level_' = c.level /\ global_lock_' = Free
       ELSE UNCHANGED <<top, global_lock_>>
    /\ link_locks_' = [link_locks_ EXCEPT ![c.id] = Free]
    /\ Step(t, Idle)
    /\ UNCHANGED <<graph, marks, names, op, history>>

----------------------------------------------------------------------------
(* updatePoint: the neighbors of the element are rewired layer by layer,   *)
(* then repairConnectionsForUpdate searches and connects it again.         *)

\* A call on label l goes on, ends, or begins on the element i.
Goes(l, pc) == op' = [op EXCEPT ![l].pc = pc]
Ends(l) == op' = [op EXCEPT ![l] = NoOp]
Begins(l, pc, upd, i, p) == op' = [op EXCEPT ![l] = [pc |-> pc, upd |-> upd, id |-> i, p |-> p]]

(* addPoint of a label that is in the index: the lookup under              *)
(* label_map_lock_.  It throws when the element may be reused instead.     *)
UpdateExisting(l, p) ==
    LET i == label_map_[l] IN
    /\ MayUpdate /\ updates < MaxUpdates
    /\ i # None /\ ~(reuse_deleted_ /\ i \in deleted)
    /\ updates' = updates + 1
    /\ Begins(l, "exists", TRUE, i, p)
    /\ UNCHANGED <<graph, marks, names, top, link_locks_, global_lock_, th, reuse_deleted_, loaded>>

(* addPoint with reuse_deleted: a deleted element is taken out of the set, *)
(* under its lock.  "we assume that there are no concurrent operations on  *)
(* deleted element".                                                       *)
addPoint_reuse(l, p) ==
    /\ reuse_deleted_ /\ MayUpdate /\ updates < MaxUpdates
    /\ Disciplined => label_map_[l] = None
    /\ \E i \in deleted_elements_ :
          /\ deleted_elements_' = deleted_elements_ \ {i}
          /\ Begins(l, "relabel", TRUE, i, p)
    /\ updates' = updates + 1
    /\ UNCHANGED <<graph, deleted, deleted_count_, names, top, link_locks_, global_lock_, th,
                   reuse_deleted_, loaded>>

\* Mutant: the replaced label stays in the map.
MutRelabelKeepsLabel(l) ==
    LET i == op[l].id IN
    /\ op[l].pc = "relabel"
    /\ label' = [label EXCEPT ![i] = l]
    /\ label_map_' = [label_map_ EXCEPT ![l] = i]
    /\ Goes(l, "unmark")
    /\ UNCHANGED <<graph, marks, capacity_, element_count_, top, link_locks_, global_lock_, th, history>>

\* The element takes the new label, under label_map_lock_.
Relabel(l) ==
    LET i == op[l].id IN
    /\ op[l].pc = "relabel"
    /\ label' = [label EXCEPT ![i] = l]
    /\ label_map_' = [label_map_ EXCEPT ![label[i]] = None, ![l] = i]
    /\ Goes(l, "unmark")
    /\ UNCHANGED <<graph, marks, capacity_, element_count_, top, link_locks_, global_lock_, th, history>>

\* What follows in a call on l when its element is no longer marked.
AfterMarks(l) == IF op[l].upd THEN Goes(l, "update") ELSE Ends(l)

(* unmarkDeletedInternal clears the mark, and throws when there is none; a *)
(* plain addPoint calls it only for a marked element.                      *)
Unmark(l) ==
    LET i == op[l].id IN
    /\ op[l].pc \in {"exists", "unmark"}
    /\ IF i \in deleted
       THEN /\ deleted' = deleted \ {i}
            /\ deleted_count_' = deleted_count_ - 1
            /\ IF reuse_deleted_ THEN Goes(l, "erase") ELSE AfterMarks(l)
       ELSE /\ UNCHANGED <<deleted, deleted_count_>>
            /\ IF op[l].pc = "exists" THEN Goes(l, "update") ELSE Ends(l)
    /\ UNCHANGED <<graph, deleted_elements_, names, top, link_locks_, global_lock_, th, history>>

\* The rest of unmarkDeletedInternal, under deleted_elements_lock_.
Erase(l) ==
    /\ op[l].pc = "erase"
    /\ deleted_elements_' = deleted_elements_ \ {op[l].id}
    /\ AfterMarks(l)
    /\ UNCHANGED <<graph, deleted, deleted_count_, names, top, link_locks_, global_lock_, th, history>>

\* The new vector is stored, the entry point and the top level are copied.
updatePoint(t, l) ==
    LET c == op[l] IN
    /\ At(t, "idle") /\ c.pc = "update"
    /\ data' = [data EXCEPT ![c.id] = c.p]
    /\ Step(t, IF entry_id_ = c.id /\ element_count_ = 1 THEN Idle
               ELSE [Idle EXCEPT !.pc = "onehop", !.upd = TRUE, !.label = l, !.id = c.id,
                                 !.p = c.p, !.level = element_levels_[c.id],
                                 !.max = max_level_, !.ep = entry_id_])
    /\ Ends(l)
    /\ UNCHANGED <<element_levels_, links, marks, names, top, link_locks_, global_lock_, history>>

\* The next layer of updatePoint, or repairConnectionsForUpdate.
NextLayer(c) ==
    LET n == [c EXCEPT !.pending = << >>, !.nbrs = << >>, !.cands = {}] IN
    IF c.lev < c.level THEN [n EXCEPT !.pc = "onehop", !.lev = @ + 1]
    ELSE IF c.level > c.max THEN [n EXCEPT !.pc = "error"]
    ELSE StartDescent(n)

\* getConnectionsWithLock of the element itself.
OneHop(t) ==
    LET c == th[t]
        list == links[c.id][c.lev]
    IN
    /\ At(t, "onehop") /\ LockFree(c.id)
    /\ Step(t, IF list = << >> THEN NextLayer(c)
               ELSE [c EXCEPT !.pc = "twohop", !.pending = list, !.nbrs = list,
                              !.cands = {c.id} \cup Range(list)])
    /\ UNCHANGED <<graph, marks, names, top, link_locks_, global_lock_, op, history>>

\* getConnectionsWithLock of the neighbors, one after the other.
TwoHop(t) ==
    LET c == th[t]
        n == Head(c.pending)
        more == [c EXCEPT !.pending = Tail(@), !.cands = @ \cup Range(links[n][c.lev])]
    IN
    /\ At(t, "twohop") /\ LockFree(n)
    /\ Step(t, IF more.pending # << >> THEN more
               ELSE [more EXCEPT !.pc = "rewire", !.pending = c.nbrs])
    /\ UNCHANGED <<graph, marks, names, top, link_locks_, global_lock_, op, history>>

\* The list a neighbor gets: the closest candidates, thinned out by the heuristic.
Rewired(n, lev, cands) ==
    LET pairs == {<<distance(data[n], data[x]), x>> : x \in cands \ {n}}
        kept == {x \in pairs : Cardinality({y \in pairs : y[1] < x[1]}) < efConstruction_}
    IN  Popped(getNeighborsByHeuristic2(kept, max_M(lev)))

Rewire(t) ==
    LET c == th[t]
        n == Head(c.pending)
        rest == [c EXCEPT !.pending = Tail(@)]
    IN
    /\ At(t, "rewire") /\ LockFree(n)
    /\ links' = [links EXCEPT ![n][c.lev] = Rewired(n, c.lev, c.cands)]
    /\ Step(t, IF rest.pending # << >> THEN rest ELSE NextLayer(rest))
    /\ UNCHANGED <<element_levels_, data, marks, names, top, link_locks_, global_lock_, op, history>>

----------------------------------------------------------------------------
(* The other operations.                                                   *)

\* The lookup under label_map_lock_, of markDelete and of unmarkDelete.
markDelete(l) ==
    /\ MayDelete /\ LabelFree(l) /\ label_map_[l] # None
    /\ Begins(l, "mark", FALSE, label_map_[l], 0)
    /\ UNCHANGED <<graph, marks, names, top, link_locks_, global_lock_, th, history>>

\* "not safe to use when replacement of deleted elements is enabled"
unmarkDelete(l) ==
    /\ ~reuse_deleted_
    /\ MayDelete /\ LabelFree(l) /\ label_map_[l] # None
    /\ Begins(l, "unmark", FALSE, label_map_[l], 0)
    /\ UNCHANGED <<graph, marks, names, top, link_locks_, global_lock_, th, history>>

\* markDeletedInternal; it throws when the element is marked already.
Mark(l) ==
    LET i == op[l].id IN
    /\ op[l].pc = "mark"
    /\ IF i \in deleted
       THEN UNCHANGED <<deleted, deleted_count_>> /\ Ends(l)
       ELSE /\ deleted' = deleted \cup {i}
            /\ deleted_count_' = deleted_count_ + 1
            /\ IF reuse_deleted_ THEN Goes(l, "keep") ELSE Ends(l)
    /\ UNCHANGED <<graph, deleted_elements_, names, top, link_locks_, global_lock_, th, history>>

\* The rest of markDeletedInternal, under deleted_elements_lock_.
Keep(l) ==
    /\ op[l].pc = "keep"
    /\ deleted_elements_' = deleted_elements_ \cup {op[l].id}
    /\ Ends(l)
    /\ UNCHANGED <<graph, deleted, deleted_count_, names, top, link_locks_, global_lock_, th, history>>

\* resizeIndex replaces the link locks: it is for an index nobody else uses.
resizeIndex(n) ==
    /\ Quiet
    /\ n # capacity_ /\ n >= element_count_
    /\ capacity_' = n
    /\ link_locks_' = [i \in Ids |-> Free]
    /\ UNCHANGED <<graph, marks, element_count_, label, label_map_, top, global_lock_, th, op, history>>

\* Mutant: the count of deleted elements is not rebuilt.
MutLoadForgetsCount ==
    LET saved == 0 .. element_count_ - 1 IN
    /\ Quiet /\ ~loaded
    /\ label_map_' = [l \in Labels |->
                         IF \E i \in saved : label[i] = l
                         THEN Max({i \in saved : label[i] = l}) ELSE None]
    /\ deleted_count_' = 0
    /\ reuse_deleted_' \in BOOLEAN
    /\ deleted_elements_' = IF reuse_deleted_' THEN deleted \cap saved ELSE {}
    /\ loaded' = TRUE
    /\ UNCHANGED <<graph, deleted, capacity_, element_count_, label, top, link_locks_,
                   global_lock_, th, op, updates>>

(* saveIndex, and later the constructor that calls loadIndex: the label    *)
(* map, the count of deleted elements and the reusable ids are rebuilt     *)
(* from the elements.                                                      *)
SaveAndLoad ==
    LET saved == 0 .. element_count_ - 1 IN
    /\ Quiet /\ ~loaded
    /\ label_map_' = [l \in Labels |->
                         IF \E i \in saved : label[i] = l
                         THEN Max({i \in saved : label[i] = l}) ELSE None]
    /\ deleted_count_' = Cardinality(deleted \cap saved)
    /\ reuse_deleted_' \in BOOLEAN
    /\ deleted_elements_' = IF reuse_deleted_' THEN deleted \cap saved ELSE {}
    /\ link_locks_' = [i \in Ids |-> Free]
    /\ loaded' = TRUE
    /\ UNCHANGED <<graph, deleted, capacity_, element_count_, label, top, global_lock_, th, op, updates>>

Insertion(t) == ReadMaxLevel(t) \/ ReadEntry(t) \/ Publish(t)
Connection(t) ==
    Descend(t) \/ BeginSearch(t) \/ SearchStep(t) \/ ConnectOwn(t) \/ ConnectNeighbor(t)
Update(t) == OneHop(t) \/ TwoHop(t) \/ Rewire(t)
Progress(t) == Insertion(t) \/ Connection(t) \/ Update(t)

Insert(t) ==
    /\ At(t, "idle")
    /\ \E l \in {l \in Labels : LabelFree(l)}, p \in {p \in Points : Unused(p)}, lvl \in Levels :
          Reserve(t, l, p, lvl)
BeginUpdate ==
    \E l \in {l \in Labels : LabelFree(l)}, p \in {p \in Points : Unused(p)} :
        UpdateExisting(l, p) \/ addPoint_reuse(l, p)
OnLabel(l) == markDelete(l) \/ unmarkDelete(l) \/ Mark(l) \/ Keep(l) \/ Relabel(l) \/ Unmark(l) \/ Erase(l)

Next ==
    \/ \E t \in Threads : Progress(t) \/ Insert(t) \/ \E l \in Labels : updatePoint(t, l)
    \/ BeginUpdate \/ \E l \in Labels : OnLabel(l)
    \/ \E n \in element_count_ .. MaxCapacity : resizeIndex(n)
    \/ SaveAndLoad

Spec == Init /\ [][Next]_vars

----------------------------------------------------------------------------
Elements == 0 .. element_count_ - 1

TypeOK ==
    /\ capacity_ \in 0 .. MaxCapacity /\ element_count_ \in 0 .. capacity_
    /\ element_levels_ \in [Ids -> AllLevels]
    /\ \A i \in Ids, v \in AllLevels : Range(links[i][v]) \subseteq Ids
    /\ data \in [Ids -> Points \cup {0}]
    /\ label \in [Ids -> Labels \cup {Free}]
    /\ label_map_ \in [Labels -> Ids \cup {None}]
    /\ deleted \subseteq Ids /\ deleted_elements_ \subseteq Ids /\ deleted_count_ \in 0 .. MaxCapacity
    /\ entry_id_ \in Ids \cup {None} /\ max_level_ \in AllLevels \cup {-1}
    /\ link_locks_ \in [Ids -> Threads \cup {Free}] /\ global_lock_ \in Threads \cup {Free}
    /\ reuse_deleted_ \in BOOLEAN /\ updates \in 0 .. MaxUpdates /\ loaded \in BOOLEAN
    /\ op \in [Labels -> [pc : {"none", "mark", "keep", "unmark", "exists", "erase", "relabel", "update"},
                          upd : BOOLEAN, id : Ids \cup {0}, p : Points \cup {0}]]

(* The asserts of checkIntegrity on every list: it leads to other elements *)
(* of the index, to each at most once, and only to elements that have the  *)
(* level; a list is never longer than its block.                           *)
LinksSound ==
    \A i \in Elements, v \in AllLevels :
        LET list == links[i][v] IN
        /\ Len(list) <= max_M(v)
        /\ IsInjective(list)
        /\ \A n \in Range(list) : n \in Elements \ {i} /\ element_levels_[n] >= v

(* The entry point was marked deleted after addPoint had looked at its     *)
(* mark, and before the search came to it: the search has no result, and   *)
(* the entry point is not offered in its place.                            *)
MarkedTooLate(t) ==
    LET c == th[t] IN
    ~c.upd /\ ~c.ep_deleted /\ c.ep \in c.search.visited /\ c.search.Top_K = {}

(* No call of addPoint runs into the exceptions that report a damaged      *)
(* graph, or finds no element to connect to, deleted entry points and full *)
(* lists included.  The one case the code does not prevent is an entry     *)
(* point that is marked too late.                                          *)
NoError == \A t \in Threads : At(t, "error") => MarkedTooLate(t)

(* A thread that descends or searches on a level is at an element that     *)
(* has a list there: the entry point is read after the top level and       *)
(* outside of the lock, and must never be lower than it.                   *)
OnLevel ==
    \A t \in Threads :
        /\ At(t, "descend") \/ At(t, "start") => element_levels_[th[t].obj] >= th[t].lev
        /\ At(t, "search") => \A x \in th[t].search.K_Set : element_levels_[x[2]] >= th[t].lev

(* Outside of an insertion above the top level, the entry point is an      *)
(* element of the top level and no finished element is higher: what lets a *)
(* thread read entry_id_ after it gave up global_lock_.                    *)
EntryOnTop ==
    global_lock_ = Free /\ entry_id_ # None =>
        /\ entry_id_ \in Elements
        /\ element_levels_[entry_id_] = max_level_
        /\ \A i \in Elements : LockFree(i) => element_levels_[i] <= max_level_

(* The lock a thread inside a call waits for.                              *)
WaitsFor(t) ==
    LET c == th[t] IN
    CASE c.pc = "descend" -> {c.obj}
      [] c.pc = "search" /\ ~SearchOver(c.search) -> {Nearest(c.search.K_Set)[2]}
      [] c.pc = "search" /\ c.upd -> {c.id}
      [] c.pc = "onehop" -> {c.id}
      [] c.pc \in {"connect", "twohop", "rewire"} -> {Head(c.pending)}
      [] OTHER -> {}
Blocked(t) ==
    \/ \E i \in WaitsFor(t) : ~LockFree(i)
    \/ At(t, "global") /\ global_lock_ # Free

(* Some thread inside a call can always go on: the link lock an insertion  *)
(* keeps to its end and the locks it waits for never form a cycle.         *)
NoDeadlock ==
    (\E t \in Threads : ~At(t, "idle")) => \E t \in Threads : ~At(t, "idle") /\ ~Blocked(t)

\* The label map and the labels stored with the elements are inverse to each other.
LabelsExact ==
    \A l \in Labels : LabelFree(l) =>
        {i \in Elements : label[i] = l} = {label_map_[l]} \ {None}

(* The count of deleted elements and the reusable ids follow the marks,    *)
(* except on the elements of the calls that are changing them.             *)
DeletedExact ==
    /\ deleted_count_ = Cardinality(deleted)
    /\ \A i \in Elements \ {op[l].id : l \in {l \in Labels : op[l].pc # "none"}} :
          i \in deleted_elements_ <=> reuse_deleted_ /\ i \in deleted

(* The assert of checkIntegrity that every element is linked to by another *)
(* one, between calls.  Insertions that overlap break it: neither finds    *)
(* the other, and the full list that both are put on keeps one of them.    *)
InboundLinks ==
    Quiet /\ element_count_ > 1 =>
        \A i \in Elements : \E n \in Elements, v \in AllLevels : i \in Range(links[n][v])

(* What checkIntegrity asserts of the lists, at every step of every        *)
(* thread; and nobody walks on a level its element does not have a list    *)
(* on.                                                                     *)
GraphSound == TypeOK /\ LinksSound /\ OnLevel
=============================================================================
