--------------------------- MODULE VisitedListPool ---------------------------
(***************************************************************************)
(* VisitedListPool (src/src/hnsw/hnsw_scratch/visited_list_pool.hpp) and   *)
(* the searches of HierarchicalNSW::searchBaseLayer that share it.         *)
(*                                                                         *)
(* A search marks an element as visited by storing the list's tag in       *)
(* visitedAt[element].  A list is reused by the next search with a new     *)
(* tag, so nothing is cleared until the vl_type tag wraps around; the      *)
(* wrap-around is the case no test reaches (65535 searches on one list).   *)
(* poolguard is held for the deque operation only: reset() runs after the  *)
(* unlock, on a list the thread already owns.                              *)
(***************************************************************************)
EXTENDS Integers, Sequences, FiniteSets

CONSTANTS
    Threads,       \* threads that search
    Elements,      \* internal ids of the index
    TagRange,      \* 2^16: values of a vl_type
    initmaxpools,  \* lists created with the pool (1 in HierarchicalNSW)
    MaxLists       \* bound on the lists that are ever created

ASSUME VisitedListPoolAssumption ==
    /\ TagRange \in Nat /\ TagRange >= 2
    /\ IsFiniteSet(Threads)
    /\ initmaxpools \in Nat
    /\ MaxLists \in Nat /\ initmaxpools <= MaxLists

VARIABLES
    pool,            \* the deque of free lists, front first
    made,            \* lists created so far; a list is a number in 1 .. made
    currentVisited,  \* the tag of every list
    visitedAt,       \* the tag every element was last visited with
    pc,              \* what every thread is doing
    Visited_List,    \* the list of a thread that is not idle
    Tag,             \* Visited_Array_Tag, the tag a search read at its start
    seen             \* the elements the running search has come across

vars == <<pool, made, currentVisited, visitedAt, pc, Visited_List, Tag, seen>>

vl_type == 0 .. TagRange - 1
Lists == 1 .. MaxLists
NoList == 0

\* currentVisited(-1), converted to an unsigned short.
FreshTag == TagRange - 1

\* new VisitedList(numelements).  `new vl_type[n]' leaves the array uninitialised.
new_list(t) ==
    /\ made < MaxLists
    /\ made' = made + 1
    /\ Visited_List' = [Visited_List EXCEPT ![t] = made + 1]
    /\ currentVisited' = [currentVisited EXCEPT ![made + 1] = FreshTag]
    /\ \E garbage \in [Elements -> vl_type] :
          visitedAt' = [visitedAt EXCEPT ![made + 1] = garbage]
    /\ UNCHANGED pool

\* Mutant: front() without pop_front().
MutNoPopFront(t) ==
    /\ pc[t] = "idle"
    /\ IF Len(pool) > 0
       THEN /\ Visited_List' = [Visited_List EXCEPT ![t] = Head(pool)]
            /\ UNCHANGED <<pool, made, currentVisited, visitedAt>>
       ELSE new_list(t)
    /\ pc' = [pc EXCEPT ![t] = "taken"]
    /\ UNCHANGED <<Tag, seen>>

\* The locked part of getFreeVisitedList.
getFreeVisitedList(t) ==
    /\ pc[t] = "idle"
    /\ IF Len(pool) > 0
       THEN /\ Visited_List' = [Visited_List EXCEPT ![t] = Head(pool)]
            /\ pool' = Tail(pool)
            /\ UNCHANGED <<made, currentVisited, visitedAt>>
       ELSE new_list(t)
    /\ pc' = [pc EXCEPT ![t] = "taken"]
    /\ UNCHANGED <<Tag, seen>>

\* Mutant: the tag wraps around and the array keeps its old marks.
MutNoMemset(t) ==
    /\ pc[t] = "taken"
    /\ LET l == Visited_List[t]
           c == (currentVisited[l] + 1) % TagRange
       IN  currentVisited' = [currentVisited EXCEPT ![l] = IF c = 0 THEN 1 ELSE c]
    /\ pc' = [pc EXCEPT ![t] = "ready"]
    /\ UNCHANGED <<pool, made, visitedAt, Visited_List, Tag, seen>>

\* rez->reset(), outside the lock.
reset(t) ==
    /\ pc[t] = "taken"
    /\ LET l == Visited_List[t]
           c == (currentVisited[l] + 1) % TagRange
       IN  IF c = 0
           THEN /\ visitedAt' = [visitedAt EXCEPT ![l] = [e \in Elements |-> 0]]
                /\ currentVisited' = [currentVisited EXCEPT ![l] = 1]
           ELSE /\ currentVisited' = [currentVisited EXCEPT ![l] = c]
                /\ UNCHANGED visitedAt
    /\ pc' = [pc EXCEPT ![t] = "ready"]
    /\ UNCHANGED <<pool, made, Visited_List, Tag, seen>>

mark(t, e, tag) ==
    visitedAt' = [visitedAt EXCEPT ![Visited_List[t]][e] = tag]

\* searchBaseLayer reads the tag and marks the entry point.
start_search(t, start_id) ==
    /\ pc[t] = "ready"
    /\ Tag' = [Tag EXCEPT ![t] = currentVisited[Visited_List[t]]]
    /\ mark(t, start_id, Tag'[t])
    /\ seen' = [seen EXCEPT ![t] = {start_id}]
    /\ pc' = [pc EXCEPT ![t] = "searching"]
    /\ UNCHANGED <<pool, made, currentVisited, Visited_List>>

Skips(t, e) == visitedAt[Visited_List[t]][e] = Tag[t]

\* One neighbour of the element being expanded: skipped when its mark is the
\* tag of this search, marked (and its distance computed) otherwise.
visit_neighbour(t, e) ==
    /\ pc[t] = "searching"
    /\ IF Skips(t, e) THEN UNCHANGED visitedAt ELSE mark(t, e, Tag[t])
    /\ seen' = [seen EXCEPT ![t] = @ \cup {e}]
    /\ UNCHANGED <<pool, made, currentVisited, pc, Visited_List, Tag>>

\* Mutant: the list is not pushed back.
MutNotPushed(t) ==
    /\ pc[t] = "searching"
    /\ Visited_List' = [Visited_List EXCEPT ![t] = NoList]
    /\ pc' = [pc EXCEPT ![t] = "idle"]
    /\ seen' = [seen EXCEPT ![t] = {}]
    /\ UNCHANGED <<pool, made, currentVisited, visitedAt, Tag>>

releaseVisitedList(t) ==
    /\ pc[t] = "searching"
    /\ pool' = <<Visited_List[t]>> \o pool
    /\ Visited_List' = [Visited_List EXCEPT ![t] = NoList]
    /\ pc' = [pc EXCEPT ![t] = "idle"]
    /\ seen' = [seen EXCEPT ![t] = {}]
    /\ UNCHANGED <<made, currentVisited, visitedAt, Tag>>

-----------------------------------------------------------------------------
\* The constructor pushes every new list in front.
Init ==
    /\ pool = [i \in 1 .. initmaxpools |-> initmaxpools + 1 - i]
    /\ made = initmaxpools
    /\ currentVisited = [l \in Lists |-> FreshTag]
    /\ \E garbage \in [1 .. initmaxpools -> [Elements -> vl_type]] :
          visitedAt = [l \in Lists |-> IF l <= initmaxpools THEN garbage[l]
                                                          ELSE [e \in Elements |-> 0]]
    /\ pc = [t \in Threads |-> "idle"]
    /\ Visited_List = [t \in Threads |-> NoList]
    /\ Tag = [t \in Threads |-> 0]
    /\ seen = [t \in Threads |-> {}]

Next ==
    \E t \in Threads :
        \/ getFreeVisitedList(t)
        \/ reset(t)
        \/ \E e \in Elements : start_search(t, e) \/ visit_neighbour(t, e)
        \/ releaseVisitedList(t)

Spec == Init /\ [][Next]_vars

-----------------------------------------------------------------------------
(* Properties                                                              *)

\* Every variable keeps its type, and a thread that is not idle has a list.
TypeOK ==
    /\ pool \in Seq(Lists)
    /\ made \in 0 .. MaxLists
    /\ currentVisited \in [Lists -> vl_type]
    /\ visitedAt \in [Lists -> [Elements -> vl_type]]
    /\ pc \in [Threads -> {"idle", "taken", "ready", "searching"}]
    /\ Visited_List \in [Threads -> Lists \cup {NoList}]
    /\ Tag \in [Threads -> vl_type]
    /\ seen \in [Threads -> SUBSET Elements]
    /\ \A t \in Threads : pc[t] # "idle" => Visited_List[t] \in 1 .. made

\* A list belongs to one search or is once in the pool, never both: what
\* lets reset() and the marks run without the lock.
ListsExclusive ==
    /\ \A i, j \in DOMAIN pool : pool[i] = pool[j] => i = j
    /\ \A s, t \in Threads :
          pc[s] # "idle" /\ Visited_List[s] = Visited_List[t] => s = t
    /\ \A t \in Threads, i \in DOMAIN pool : pc[t] # "idle" => pool[i] # Visited_List[t]

\* Tags, marks and threads have their types, and lists are exclusive.
ListsSound == TypeOK /\ ListsExclusive

\* The comparison of line 334 skips exactly the elements this search has
\* already come across: no mark of an earlier search, of another thread, of
\* the uninitialised array or from before the tag wrapped around is taken for
\* one of this search's.
VisitedExact ==
    \A t \in Threads :
        pc[t] = "searching" => \A e \in Elements : Skips(t, e) <=> e \in seen[t]

\* No list is lost: every list ever created is in the pool or in use.
NoListLost ==
    \A l \in 1 .. made :
        \/ \E i \in DOMAIN pool : pool[i] = l
        \/ \E t \in Threads : pc[t] # "idle" /\ Visited_List[t] = l

\* Lists are reused: over any number of searches no more lists are created
\* than there are threads (or than the pool started with).
PoolBounded == made <= initmaxpools \/ made <= Cardinality(Threads)

\* Lists are given back by every search and reused by later ones.
ListsReused == NoListLost /\ PoolBounded
=============================================================================
