------------------------ MODULE VisitedListPoolProofs ------------------------
(***************************************************************************)
(* Proofs about VisitedListPool for any number of threads, elements and    *)
(* lists and any width of the tag.                                         *)
(*                                                                         *)
(* ListsExclusive is inductive with the ownership facts of Owned; it makes *)
(* the marks of a list the business of one thread at a time.  VisitedExact *)
(* then rests on MarksOld: no mark is ever larger than the list's tag, and *)
(* after reset() every mark is smaller.  A fresh list starts with the      *)
(* largest tag, which is why its garbage satisfies MarksOld too.           *)
(***************************************************************************)
EXTENDS VisitedListPool, FiniteSetTheorems, TLAPS

\* Which lists the pool and the threads hold.
Owned ==
    /\ \A i \in DOMAIN pool : pool[i] \in 1 .. made
    /\ \A t \in Threads : pc[t] = "idle" => Visited_List[t] = NoList

MarksOld ==
    /\ \A l \in Lists : \A e \in Elements : visitedAt[l][e] <= currentVisited[l]
    /\ \A t \in Threads : pc[t] = "ready" =>
          \A e \in Elements : visitedAt[Visited_List[t]][e] < currentVisited[Visited_List[t]]
    /\ \A t \in Threads : pc[t] = "searching" => Tag[t] = currentVisited[Visited_List[t]]

PoolInv == TypeOK /\ Owned /\ ListsExclusive
MarksInv == MarksOld /\ VisitedExact

LEMMA FreshIsTag == FreshTag \in vl_type
BY VisitedListPoolAssumption DEF FreshTag, vl_type

LEMMA InitPool == Init => PoolInv
<1> SUFFICES ASSUME Init PROVE PoolInv
  OBVIOUS
<1> USE VisitedListPoolAssumption
<1>1. pool \in Seq(Lists)
  BY DEF Init, Lists
<1>2. currentVisited \in [Lists -> vl_type] /\ Tag \in [Threads -> vl_type]
  BY FreshIsTag DEF Init, vl_type
<1>3. visitedAt \in [Lists -> [Elements -> vl_type]]
  <2>1. PICK garbage \in [1 .. initmaxpools -> [Elements -> vl_type]] :
          visitedAt = [l \in Lists |-> IF l <= initmaxpools THEN garbage[l]
                                                          ELSE [e \in Elements |-> 0]]
    BY DEF Init
  <2>2. \A l \in Lists : l <= initmaxpools => garbage[l] \in [Elements -> vl_type]
    BY DEF Lists
  <2>3. [e \in Elements |-> 0] \in [Elements -> vl_type]
    BY DEF vl_type
  <2> QED BY <2>1, <2>2, <2>3
<1>4. TypeOK
  BY <1>1, <1>2, <1>3 DEF Init, TypeOK
<1>5. Owned /\ ListsExclusive
  BY DEF Init, Owned, ListsExclusive
<1> QED BY <1>4, <1>5 DEF PoolInv

LEMMA InitMarks == Init => MarksInv
<1> SUFFICES ASSUME Init PROVE MarksInv
  OBVIOUS
<1>1. \A l \in Lists : \A e \in Elements : visitedAt[l][e] \in vl_type
  BY InitPool DEF PoolInv, TypeOK
<1>2. \A l \in Lists : \A e \in Elements : visitedAt[l][e] <= currentVisited[l]
  BY <1>1, VisitedListPoolAssumption DEF Init, FreshTag, vl_type
<1>3. \A t \in Threads : pc[t] = "idle"
  BY DEF Init
<1> QED BY <1>2, <1>3 DEF MarksInv, MarksOld, VisitedExact

-----------------------------------------------------------------------------
(* Ownership of the lists                                                  *)

LEMMA TakePool ==
  ASSUME PoolInv, NEW t \in Threads, getFreeVisitedList(t)
  PROVE  PoolInv'
<1> USE VisitedListPoolAssumption
<1>0. TypeOK /\ Owned /\ ListsExclusive /\ pc[t] = "idle"
  BY DEF PoolInv, getFreeVisitedList
<1>1. /\ pc' = [pc EXCEPT ![t] = "taken"]
      /\ Tag' = Tag /\ seen' = seen
  BY DEF getFreeVisitedList
<1>2. CASE Len(pool) > 0
  <2>1. /\ Visited_List' = [Visited_List EXCEPT ![t] = Head(pool)]
        /\ pool' = Tail(pool)
        /\ made' = made /\ currentVisited' = currentVisited /\ visitedAt' = visitedAt
    BY <1>2 DEF getFreeVisitedList
  <2>2. pool \in Seq(Lists) /\ pool # <<>>
    BY <1>0, <1>2 DEF TypeOK
  <2>3. /\ Head(pool) = pool[1] /\ 1 \in DOMAIN pool
        /\ \A i \in DOMAIN Tail(pool) :
              i + 1 \in DOMAIN pool /\ i + 1 # 1 /\ Tail(pool)[i] = pool[i + 1]
    BY <2>2
  <2>4. Tail(pool) \in Seq(Lists) /\ Head(pool) \in 1 .. made /\ Head(pool) \in Lists
    BY <2>2, <2>3, <1>0 DEF Owned
  <2>5. TypeOK'
    BY <1>0, <1>1, <2>1, <2>4 DEF TypeOK
  <2>6. Owned'
    BY <1>0, <1>1, <2>1, <2>3 DEF Owned, TypeOK
  <2>7. ListsExclusive'
    <3>1. \A i, j \in DOMAIN pool' : pool'[i] = pool'[j] => i = j
      <4>1. \A i, j \in DOMAIN Tail(pool) : Tail(pool)[i] = Tail(pool)[j] => i + 1 = j + 1
        BY <2>3, <1>0 DEF ListsExclusive
      <4>2. DOMAIN Tail(pool) \subseteq Nat
        BY <2>4
      <4> QED BY <2>1, <4>1, <4>2
    <3>2. \A s \in Threads : s # t => Visited_List'[s] # Head(pool)
      BY <1>0, <2>1, <2>3, <2>4 DEF ListsExclusive, Owned, TypeOK, NoList
    <3>3. \A s, u \in Threads :
            pc'[s] # "idle" /\ Visited_List'[s] = Visited_List'[u] => s = u
      BY <1>0, <1>1, <2>1, <3>2 DEF ListsExclusive, TypeOK
    <3>4. \A i \in DOMAIN Tail(pool) : Tail(pool)[i] # Head(pool)
      BY <2>3, <1>0 DEF ListsExclusive
    <3>5. \A u \in Threads, i \in DOMAIN pool' : pc'[u] # "idle" => pool'[i] # Visited_List'[u]
      BY <1>0, <1>1, <2>1, <2>3, <3>4 DEF ListsExclusive, TypeOK
    <3> QED BY <3>1, <3>3, <3>5 DEF ListsExclusive
  <2> QED BY <2>5, <2>6, <2>7 DEF PoolInv
<1>3. CASE ~(Len(pool) > 0)
  <2>1. /\ made < MaxLists /\ made' = made + 1
        /\ Visited_List' = [Visited_List EXCEPT ![t] = made + 1]
        /\ currentVisited' = [currentVisited EXCEPT ![made + 1] = FreshTag]
        /\ pool' = pool
    BY <1>3 DEF getFreeVisitedList, new_list
  <2>2. PICK garbage \in [Elements -> vl_type] :
            visitedAt' = [visitedAt EXCEPT ![made + 1] = garbage]
    BY <1>3 DEF getFreeVisitedList, new_list
  <2>3. made + 1 \in Lists /\ made \in Nat
    BY <1>0, <2>1 DEF TypeOK, Lists
  <2>4. DOMAIN pool = {}
    BY <1>3, <1>0 DEF TypeOK
  <2>5. visitedAt' \in [Lists -> [Elements -> vl_type]]
    BY <1>0, <2>2 DEF TypeOK
  <2>6. currentVisited' \in [Lists -> vl_type]
    BY <1>0, <2>1, FreshIsTag DEF TypeOK
  <2>7. Visited_List' \in [Threads -> Lists \cup {NoList}]
    BY <1>0, <2>1, <2>3 DEF TypeOK
  <2>8. \A u \in Threads : pc'[u] # "idle" => Visited_List'[u] \in 1 .. made'
    BY <1>0, <1>1, <2>1, <2>3 DEF TypeOK
  <2>9. TypeOK'
    BY <1>0, <1>1, <2>1, <2>3, <2>5, <2>6, <2>7, <2>8 DEF TypeOK
  <2>10. Owned'
    BY <1>0, <1>1, <2>1, <2>4 DEF Owned, TypeOK
  <2>11. ListsExclusive'
    <3>1. \A s \in Threads : s # t => Visited_List'[s] # made + 1
      BY <1>0, <2>1, <2>3 DEF TypeOK, Owned, NoList
    <3> QED BY <1>0, <1>1, <2>1, <2>4, <3>1 DEF ListsExclusive, TypeOK
  <2> QED BY <2>9, <2>10, <2>11 DEF PoolInv
<1> QED BY <1>2, <1>3

\* A step that changes only marks, tags and the state of a thread that keeps
\* its list.
LEMMA KeepPool ==
  ASSUME PoolInv, NEW t \in Threads,
         pc[t] # "idle", NEW s \in {"ready", "searching"}, pc' = [pc EXCEPT ![t] = s],
         UNCHANGED <<pool, made, Visited_List>>,
         currentVisited' \in [Lists -> vl_type],
         visitedAt' \in [Lists -> [Elements -> vl_type]],
         Tag' \in [Threads -> vl_type],
         seen' \in [Threads -> SUBSET Elements]
  PROVE  PoolInv'
<1>1. TypeOK'
  BY DEF PoolInv, TypeOK
<1>2. Owned' /\ ListsExclusive'
  BY DEF PoolInv, TypeOK, Owned, ListsExclusive
<1> QED BY <1>1, <1>2 DEF PoolInv

\* What reset() does to the marks and the tag of its list.
LEMMA ResetEffect ==
  ASSUME TypeOK, NEW t \in Threads, reset(t)
  PROVE  LET l == Visited_List[t]
         IN  /\ l \in Lists
             /\ \E c \in vl_type : currentVisited' = [currentVisited EXCEPT ![l] = c]
             /\ visitedAt' \in [Lists -> [Elements -> vl_type]]
             /\ \A k \in Lists : k # l => visitedAt'[k] = visitedAt[k]
             /\ MarksOld => \A e \in Elements : visitedAt'[l][e] < currentVisited'[l]
<1> USE VisitedListPoolAssumption
<1> DEFINE l == Visited_List[t]
           c == (currentVisited[l] + 1) % TagRange
<1>1. l \in Lists
  BY DEF TypeOK, reset, Lists
<1>2. currentVisited[l] \in vl_type /\ visitedAt[l] \in [Elements -> vl_type]
  BY <1>1 DEF TypeOK
<1>3. CASE c = 0
  <2>1. /\ visitedAt' = [visitedAt EXCEPT ![l] = [e \in Elements |-> 0]]
        /\ currentVisited' = [currentVisited EXCEPT ![l] = 1]
    BY <1>3 DEF reset
  <2>2. 1 \in vl_type /\ [e \in Elements |-> 0] \in [Elements -> vl_type]
    BY DEF vl_type
  <2>3. visitedAt' \in [Lists -> [Elements -> vl_type]]
    BY <2>1, <2>2 DEF TypeOK
  <2>4. \A e \in Elements : visitedAt'[l][e] = 0
    BY <2>1, <1>1 DEF TypeOK
  <2>5. currentVisited'[l] = 1
    BY <2>1, <1>1 DEF TypeOK
  <2>6. \A k \in Lists : k # l => visitedAt'[k] = visitedAt[k]
    BY <2>1 DEF TypeOK
  <2>7. \E d \in vl_type : currentVisited' = [currentVisited EXCEPT ![l] = d]
    BY <2>1, <2>2
  <2>8. \A e \in Elements : visitedAt'[l][e] < currentVisited'[l]
    BY <2>4, <2>5
  <2> QED BY <1>1, <2>3, <2>6, <2>7, <2>8
<1>4. CASE c # 0
  <2>1. visitedAt' = visitedAt /\ currentVisited' = [currentVisited EXCEPT ![l] = c]
    BY <1>4 DEF reset
  <2>2. c = currentVisited[l] + 1 /\ c \in vl_type
    <3>1. CASE currentVisited[l] + 1 = TagRange
      BY <1>4, <3>1
    <3>2. CASE currentVisited[l] + 1 < TagRange
      BY <1>2, <3>2 DEF vl_type
    <3> QED BY <1>2, <3>1, <3>2 DEF vl_type
  <2>3. currentVisited'[l] = currentVisited[l] + 1
    BY <1>1, <2>1, <2>2 DEF TypeOK
  <2>4. \A e \in Elements : visitedAt[l][e] \in vl_type
    BY <1>2
  <2>5. MarksOld => \A e \in Elements : visitedAt'[l][e] < currentVisited'[l]
    BY <1>1, <1>2, <2>1, <2>3, <2>4 DEF MarksOld, vl_type
  <2>6. visitedAt' \in [Lists -> [Elements -> vl_type]]
    BY <2>1 DEF TypeOK
  <2> HIDE DEF c
  <2> QED BY <1>1, <2>1, <2>2, <2>5, <2>6
<1> QED BY <1>3, <1>4

LEMMA ReleasePool ==
  ASSUME PoolInv, NEW t \in Threads, releaseVisitedList(t)
  PROVE  PoolInv'
<1> DEFINE l == Visited_List[t]
<1>0. TypeOK /\ Owned /\ ListsExclusive /\ pc[t] = "searching"
  BY DEF PoolInv, releaseVisitedList
<1>1. /\ pool' = <<l>> \o pool
      /\ Visited_List' = [Visited_List EXCEPT ![t] = NoList]
      /\ pc' = [pc EXCEPT ![t] = "idle"]
      /\ seen' = [seen EXCEPT ![t] = {}]
      /\ made' = made /\ currentVisited' = currentVisited
      /\ visitedAt' = visitedAt /\ Tag' = Tag
  BY DEF releaseVisitedList
<1>2. pool \in Seq(Lists) /\ l \in 1 .. made /\ l \in Lists /\ made \in Nat
  BY <1>0, VisitedListPoolAssumption DEF TypeOK, Lists
<1>3. /\ pool' \in Seq(Lists)
      /\ DOMAIN pool' = 1 .. Len(pool) + 1
      /\ pool'[1] = l
      /\ \A i \in DOMAIN pool' : i # 1 => i - 1 \in DOMAIN pool /\ pool'[i] = pool[i - 1]
  BY <1>1, <1>2
<1>4. TypeOK'
  BY <1>0, <1>1, <1>3 DEF TypeOK
<1>5. Owned'
  <2>1. \A i \in DOMAIN pool' : pool'[i] \in 1 .. made
    BY <1>0, <1>2, <1>3 DEF Owned
  <2> QED BY <1>0, <1>1, <2>1 DEF Owned, TypeOK
<1>6. ListsExclusive'
  <2>1. \A i \in DOMAIN pool : pool[i] # l
    BY <1>0 DEF ListsExclusive
  <2>2. ASSUME NEW i \in DOMAIN pool', NEW j \in DOMAIN pool', pool'[i] = pool'[j]
        PROVE  i = j
    <3>1. CASE i = 1 \/ j = 1
      BY <1>3, <2>1, <2>2, <3>1
    <3>2. CASE i # 1 /\ j # 1
      <4>1. pool[i - 1] = pool[j - 1] /\ i - 1 \in DOMAIN pool /\ j - 1 \in DOMAIN pool
        BY <1>3, <2>2, <3>2
      <4>2. i - 1 = j - 1
        BY <4>1, <1>0 DEF ListsExclusive
      <4> QED BY <4>2, <1>3, <1>2
    <3> QED BY <3>1, <3>2
  <2>3. \A s, u \in Threads :
          pc'[s] # "idle" /\ Visited_List'[s] = Visited_List'[u] => s = u
    <3>1. \A s \in Threads : pc[s] # "idle" => Visited_List[s] # NoList
      BY <1>0 DEF TypeOK, NoList
    <3> QED BY <1>0, <1>1, <3>1 DEF ListsExclusive, TypeOK
  <2>4. ASSUME NEW u \in Threads, NEW i \in DOMAIN pool', pc'[u] # "idle"
        PROVE  pool'[i] # Visited_List'[u]
    <3>1. u # t /\ pc[u] # "idle" /\ Visited_List'[u] = Visited_List[u]
      BY <1>0, <1>1, <2>4 DEF TypeOK
    <3>2. Visited_List[u] # l
      BY <1>0, <3>1 DEF ListsExclusive
    <3>3. \A j \in DOMAIN pool : pool[j] # Visited_List[u]
      BY <1>0, <3>1 DEF ListsExclusive
    <3> QED BY <1>3, <3>1, <3>2, <3>3
  <2> QED BY <2>2, <2>3, <2>4 DEF ListsExclusive
<1> QED BY <1>4, <1>5, <1>6 DEF PoolInv

\* What a search step does to the marks of its list.
LEMMA MarkType ==
  ASSUME TypeOK, NEW t \in Threads, NEW e \in Elements, NEW tag \in vl_type,
         pc[t] # "idle", mark(t, e, tag)
  PROVE  LET l == Visited_List[t]
         IN  /\ visitedAt' \in [Lists -> [Elements -> vl_type]]
             /\ l \in Lists
             /\ \A k \in Lists : k # l => visitedAt'[k] = visitedAt[k]
             /\ \A f \in Elements : visitedAt'[l][f] = IF f = e THEN tag ELSE visitedAt[l][f]
<1> DEFINE l == Visited_List[t]
<1>1. l \in Lists
  BY VisitedListPoolAssumption DEF TypeOK, Lists
<1>2. visitedAt' = [visitedAt EXCEPT ![l][e] = tag]
  BY DEF mark
<1>3. visitedAt \in [Lists -> [Elements -> vl_type]]
  BY DEF TypeOK
<1> QED BY <1>1, <1>2, <1>3

LEMMA NextPool == PoolInv /\ [Next]_vars => PoolInv'
<1> SUFFICES ASSUME PoolInv, [Next]_vars PROVE PoolInv'
  OBVIOUS
<1>1. CASE UNCHANGED vars
  BY <1>1 DEF vars, PoolInv, TypeOK, Owned, ListsExclusive
<1>2. ASSUME NEW t \in Threads, getFreeVisitedList(t) PROVE PoolInv'
  BY <1>2, TakePool
<1>3. ASSUME NEW t \in Threads, reset(t) PROVE PoolInv'
  <2>1. TypeOK
    BY DEF PoolInv
  <2>2. PICK c \in vl_type : currentVisited' = [currentVisited EXCEPT ![Visited_List[t]] = c]
    BY <1>3, <2>1, ResetEffect
  <2>3. currentVisited' \in [Lists -> vl_type]
    BY <2>1, <2>2 DEF TypeOK
  <2>4. visitedAt' \in [Lists -> [Elements -> vl_type]]
    BY <1>3, <2>1, ResetEffect
  <2>5. /\ pc[t] # "idle" /\ pc' = [pc EXCEPT ![t] = "ready"]
        /\ UNCHANGED <<pool, made, Visited_List>>
        /\ Tag' = Tag /\ seen' = seen
    BY <1>3 DEF reset
  <2>6. Tag' \in [Threads -> vl_type] /\ seen' \in [Threads -> SUBSET Elements]
    BY <2>1, <2>5 DEF TypeOK
  <2> QED BY <2>3, <2>4, <2>5, <2>6, KeepPool
<1>4. ASSUME NEW t \in Threads, NEW e \in Elements, start_search(t, e) PROVE PoolInv'
  <2>1. /\ TypeOK /\ pc[t] = "ready" /\ Visited_List[t] \in Lists
        /\ currentVisited[Visited_List[t]] \in vl_type
    BY <1>4, VisitedListPoolAssumption DEF PoolInv, TypeOK, start_search, Lists
  <2>2. /\ Tag' = [Tag EXCEPT ![t] = currentVisited[Visited_List[t]]]
        /\ Tag'[t] = currentVisited[Visited_List[t]]
        /\ Tag' \in [Threads -> vl_type]
    BY <1>4, <2>1 DEF start_search, TypeOK
  <2>3. mark(t, e, currentVisited[Visited_List[t]])
    BY <1>4, <2>2 DEF start_search
  <2>4. visitedAt' \in [Lists -> [Elements -> vl_type]]
    BY <2>1, <2>3, MarkType
  <2>5. seen' \in [Threads -> SUBSET Elements]
    BY <1>4, <2>1 DEF start_search, TypeOK
  <2>6. /\ pc' = [pc EXCEPT ![t] = "searching"]
        /\ UNCHANGED <<pool, made, Visited_List>>
        /\ currentVisited' \in [Lists -> vl_type]
    BY <1>4, <2>1 DEF start_search, TypeOK
  <2> QED BY <2>1, <2>2, <2>4, <2>5, <2>6, KeepPool
<1>5. ASSUME NEW t \in Threads, NEW e \in Elements, visit_neighbour(t, e) PROVE PoolInv'
  <2>1. TypeOK /\ pc[t] = "searching" /\ Tag[t] \in vl_type
    BY <1>5 DEF PoolInv, TypeOK, visit_neighbour
  <2>2. visitedAt' \in [Lists -> [Elements -> vl_type]]
    <3>1. CASE Skips(t, e)
      BY <1>5, <2>1, <3>1 DEF visit_neighbour, TypeOK
    <3>2. CASE ~Skips(t, e)
      BY <1>5, <2>1, <3>2, MarkType DEF visit_neighbour
    <3> QED BY <3>1, <3>2
  <2>3. pc' = [pc EXCEPT ![t] = "searching"]
    BY <1>5, <2>1 DEF visit_neighbour, TypeOK
  <2>4. seen' \in [Threads -> SUBSET Elements]
    BY <1>5, <2>1 DEF visit_neighbour, TypeOK
  <2>5. /\ UNCHANGED <<pool, made, Visited_List>>
        /\ currentVisited' \in [Lists -> vl_type] /\ Tag' \in [Threads -> vl_type]
    BY <1>5, <2>1 DEF visit_neighbour, TypeOK
  <2> QED BY <2>1, <2>2, <2>3, <2>4, <2>5, KeepPool
<1>6. ASSUME NEW t \in Threads, releaseVisitedList(t) PROVE PoolInv'
  BY <1>6, ReleasePool
<1> QED BY <1>1, <1>2, <1>3, <1>4, <1>5, <1>6 DEF Next

-----------------------------------------------------------------------------
(* The marks                                                               *)

\* Thread t changes the marks and the tag of no list but its own, so the
\* facts about another thread's list are not disturbed.
LEMMA OtherLists ==
  ASSUME PoolInv, MarksInv, NEW t \in Threads, NEW u \in Threads, u # t,
         pc[t] # "idle", pc'[u] = pc[u], Tag'[u] = Tag[u], seen'[u] = seen[u],
         Visited_List'[u] = Visited_List[u],
         \A k \in Lists : k # Visited_List[t] =>
            visitedAt'[k] = visitedAt[k] /\ currentVisited'[k] = currentVisited[k]
  PROVE  /\ pc'[u] = "ready" =>
               \A e \in Elements :
                  visitedAt'[Visited_List'[u]][e] < currentVisited'[Visited_List'[u]]
         /\ pc'[u] = "searching" => Tag'[u] = currentVisited'[Visited_List'[u]]
         /\ pc'[u] = "searching" => \A e \in Elements : Skips(u, e)' <=> e \in seen'[u]
<1> SUFFICES ASSUME pc[u] # "idle" PROVE
       /\ pc[u] = "ready" =>
               \A e \in Elements :
                  visitedAt'[Visited_List[u]][e] < currentVisited'[Visited_List[u]]
       /\ pc[u] = "searching" => Tag[u] = currentVisited'[Visited_List[u]]
       /\ pc[u] = "searching" =>
             \A e \in Elements : (visitedAt'[Visited_List[u]][e] = Tag[u]) <=> e \in seen[u]
  BY DEF Skips
<1>1. Visited_List[u] \in Lists /\ Visited_List[u] # Visited_List[t]
  BY VisitedListPoolAssumption DEF PoolInv, TypeOK, ListsExclusive, Lists
<1>2. /\ visitedAt'[Visited_List[u]] = visitedAt[Visited_List[u]]
      /\ currentVisited'[Visited_List[u]] = currentVisited[Visited_List[u]]
  BY <1>1
<1> QED BY <1>2 DEF MarksInv, MarksOld, VisitedExact, Skips

LEMMA NextMarks == PoolInv /\ MarksInv /\ [Next]_vars => MarksInv'
<1> SUFFICES ASSUME PoolInv, MarksInv, [Next]_vars PROVE MarksInv'
  OBVIOUS
<1> USE VisitedListPoolAssumption
<1>0. TypeOK /\ MarksOld /\ VisitedExact
  BY DEF PoolInv, MarksInv
<1>1. CASE UNCHANGED vars
  BY <1>1 DEF vars, MarksInv, MarksOld, VisitedExact, Skips
<1>2. ASSUME NEW t \in Threads, getFreeVisitedList(t) PROVE MarksInv'
  <2>1. /\ pc' = [pc EXCEPT ![t] = "taken"] /\ Tag' = Tag /\ seen' = seen
        /\ \A u \in Threads : u # t => Visited_List'[u] = Visited_List[u]
    BY <1>0, <1>2 DEF getFreeVisitedList, new_list, TypeOK
  <2>2. /\ \A l \in 1 .. made : visitedAt'[l] = visitedAt[l] /\ currentVisited'[l] = currentVisited[l]
        /\ \A l \in Lists : \A e \in Elements : visitedAt'[l][e] <= currentVisited'[l]
    <3>1. CASE Len(pool) > 0
      BY <1>0, <1>2, <3>1 DEF getFreeVisitedList, MarksOld
    <3>2. CASE ~(Len(pool) > 0)
      <4>1. made + 1 \in Lists /\ currentVisited' = [currentVisited EXCEPT ![made + 1] = FreshTag]
            /\ made \in Nat
        BY <1>0, <1>2, <3>2 DEF getFreeVisitedList, new_list, TypeOK, Lists
      <4>2. PICK garbage \in [Elements -> vl_type] :
              visitedAt' = [visitedAt EXCEPT ![made + 1] = garbage]
        BY <1>2, <3>2 DEF getFreeVisitedList, new_list
      <4>3. \A l \in Lists : l # made + 1 =>
               visitedAt'[l] = visitedAt[l] /\ currentVisited'[l] = currentVisited[l]
        BY <1>0, <4>1, <4>2 DEF TypeOK
      <4>4. \A l \in 1 .. made : l \in Lists /\ l # made + 1
        BY <1>0, <4>1 DEF TypeOK, Lists
      <4>5. \A e \in Elements : garbage[e] <= FreshTag
        BY DEF vl_type, FreshTag
      <4>6. visitedAt'[made + 1] = garbage /\ currentVisited'[made + 1] = FreshTag
        BY <1>0, <4>1, <4>2 DEF TypeOK
      <4>7. \A l \in Lists : \A e \in Elements : visitedAt'[l][e] <= currentVisited'[l]
        BY <1>0, <4>3, <4>5, <4>6 DEF MarksOld
      <4> QED BY <4>3, <4>4, <4>7
    <3> QED BY <3>1, <3>2
  <2>3. ASSUME NEW u \in Threads, pc'[u] \in {"ready", "searching"}
        PROVE  /\ u # t /\ pc'[u] = pc[u] /\ Visited_List'[u] = Visited_List[u]
               /\ Visited_List[u] \in 1 .. made
    BY <1>0, <2>1, <2>3 DEF TypeOK
  <2>4. MarksOld'
    BY <1>0, <2>1, <2>2, <2>3 DEF MarksOld
  <2>5. VisitedExact'
    BY <1>0, <2>1, <2>2, <2>3 DEF VisitedExact, Skips
  <2> QED BY <2>4, <2>5 DEF MarksInv
<1>3. ASSUME NEW t \in Threads, reset(t) PROVE MarksInv'
  <2> DEFINE l == Visited_List[t]
  <2>1. /\ pc[t] = "taken" /\ pc' = [pc EXCEPT ![t] = "ready"]
        /\ Tag' = Tag /\ seen' = seen /\ Visited_List' = Visited_List
    BY <1>3 DEF reset
  <2>2. PICK c \in vl_type : currentVisited' = [currentVisited EXCEPT ![l] = c]
    BY <1>0, <1>3, ResetEffect
  <2>3. /\ l \in Lists
        /\ \A k \in Lists : k # l =>
              visitedAt'[k] = visitedAt[k] /\ currentVisited'[k] = currentVisited[k]
    BY <1>0, <1>3, <2>2, ResetEffect DEF TypeOK
  <2>4. \A e \in Elements : visitedAt'[l][e] < currentVisited'[l]
    BY <1>0, <1>3, ResetEffect
  <2>5. \A k \in Lists : \A e \in Elements : visitedAt'[k][e] <= currentVisited'[k]
    <3>1. \A e \in Elements : visitedAt'[l][e] \in Int /\ currentVisited'[l] \in Int
      <4>1. visitedAt' \in [Lists -> [Elements -> vl_type]]
        BY <1>0, <1>3, ResetEffect
      <4>2. currentVisited'[l] = c
        BY <1>0, <2>2, <2>3 DEF TypeOK
      <4> QED BY <4>1, <4>2, <2>3 DEF vl_type
    <3> QED BY <1>0, <2>3, <2>4, <3>1 DEF MarksOld
  <2>6. ASSUME NEW u \in Threads, u # t
        PROVE  pc'[u] = pc[u] /\ Tag'[u] = Tag[u] /\ seen'[u] = seen[u]
               /\ Visited_List'[u] = Visited_List[u]
    BY <1>0, <2>1, <2>6 DEF TypeOK
  <2>7. pc'[t] = "ready"
    BY <1>0, <2>1 DEF TypeOK
  <2>8. pc[t] # "idle"
    BY <2>1
  <2>9. MarksOld'
    <3>1. \A u \in Threads : pc'[u] = "ready" =>
             \A e \in Elements :
                visitedAt'[Visited_List'[u]][e] < currentVisited'[Visited_List'[u]]
      BY <2>1, <2>3, <2>4, <2>6, <2>8, OtherLists
    <3>2. \A u \in Threads : pc'[u] = "searching" => Tag'[u] = currentVisited'[Visited_List'[u]]
      BY <2>7, <2>3, <2>6, <2>8, OtherLists
    <3> QED BY <2>5, <3>1, <3>2 DEF MarksOld
  <2>10. ASSUME NEW u \in Threads, pc'[u] = "searching"
         PROVE  \A e \in Elements : Skips(u, e)' <=> e \in seen'[u]
    <3>1. u # t
      BY <2>7, <2>10
    <3> QED BY <3>1, <2>3, <2>6, <2>8, <2>10, OtherLists
  <2>11. VisitedExact'
    BY <2>10 DEF VisitedExact
  <2> QED BY <2>9, <2>11 DEF MarksInv
<1>4. ASSUME NEW t \in Threads, NEW e \in Elements, start_search(t, e) PROVE MarksInv'
  <2> DEFINE l == Visited_List[t]
             tag == currentVisited[l]
  <2>1. /\ pc[t] = "ready" /\ l \in Lists /\ tag \in vl_type
        /\ pc' = [pc EXCEPT ![t] = "searching"]
        /\ currentVisited' = currentVisited /\ Visited_List' = Visited_List
        /\ seen' = [seen EXCEPT ![t] = {e}]
        /\ Tag' = [Tag EXCEPT ![t] = tag]
    BY <1>0, <1>4 DEF start_search, TypeOK, Lists
  <2>2. Tag'[t] = tag /\ pc'[t] = "searching" /\ seen'[t] = {e}
    BY <1>0, <2>1 DEF TypeOK
  <2>3. mark(t, e, tag)
    BY <1>4, <2>2 DEF start_search
  <2>4. /\ \A k \in Lists : k # l => visitedAt'[k] = visitedAt[k]
        /\ \A f \in Elements : visitedAt'[l][f] = IF f = e THEN tag ELSE visitedAt[l][f]
    BY <1>0, <2>1, <2>3, MarkType
  <2>5. \A f \in Elements : visitedAt[l][f] < tag /\ visitedAt[l][f] \in Int /\ tag \in Int
    BY <1>0, <2>1 DEF MarksOld, TypeOK, vl_type
  <2>6. \A k \in Lists : \A f \in Elements : visitedAt'[k][f] <= currentVisited'[k]
    BY <1>0, <2>1, <2>4, <2>5 DEF MarksOld
  <2>7. \A f \in Elements : Skips(t, f)' <=> f \in seen'[t]
    BY <2>1, <2>2, <2>4, <2>5 DEF Skips
  <2>8. ASSUME NEW u \in Threads, u # t
        PROVE  pc'[u] = pc[u] /\ Tag'[u] = Tag[u] /\ seen'[u] = seen[u]
               /\ Visited_List'[u] = Visited_List[u]
    BY <1>0, <2>1, <2>8 DEF TypeOK
  <2>9. pc[t] # "idle"
    BY <2>1
  <2>10. MarksOld'
    <3>1. \A u \in Threads : pc'[u] = "ready" =>
             \A f \in Elements :
                visitedAt'[Visited_List'[u]][f] < currentVisited'[Visited_List'[u]]
      BY <2>1, <2>2, <2>4, <2>8, <2>9, OtherLists
    <3>2. \A u \in Threads : pc'[u] = "searching" => Tag'[u] = currentVisited'[Visited_List'[u]]
      BY <2>1, <2>2, <2>4, <2>8, <2>9, OtherLists
    <3> QED BY <2>6, <3>1, <3>2 DEF MarksOld
  <2>11. ASSUME NEW u \in Threads, pc'[u] = "searching"
         PROVE  \A f \in Elements : Skips(u, f)' <=> f \in seen'[u]
    <3>1. CASE u = t
      BY <3>1, <2>7
    <3>2. CASE u # t
      BY <3>2, <2>1, <2>4, <2>8, <2>9, <2>11, OtherLists
    <3> QED BY <3>1, <3>2
  <2>12. VisitedExact'
    BY <2>11 DEF VisitedExact
  <2> QED BY <2>10, <2>12 DEF MarksInv
<1>5. ASSUME NEW t \in Threads, NEW e \in Elements, visit_neighbour(t, e) PROVE MarksInv'
  <2> DEFINE l == Visited_List[t]
             tag == Tag[t]
  <2>1. /\ pc[t] = "searching" /\ l \in Lists /\ tag \in vl_type /\ tag = currentVisited[l]
        /\ pc' = pc /\ Tag' = Tag
        /\ currentVisited' = currentVisited /\ Visited_List' = Visited_List
        /\ seen' = [seen EXCEPT ![t] = @ \cup {e}]
    BY <1>0, <1>5 DEF visit_neighbour, TypeOK, Lists, MarksOld
  <2>2. seen'[t] = seen[t] \cup {e}
    BY <1>0, <2>1 DEF TypeOK
  <2>3. /\ \A k \in Lists : k # l => visitedAt'[k] = visitedAt[k]
        /\ \A f \in Elements : visitedAt'[l][f] = IF f = e THEN tag ELSE visitedAt[l][f]
    <3>1. CASE Skips(t, e)
      BY <1>5, <3>1 DEF visit_neighbour, Skips
    <3>2. CASE ~Skips(t, e)
      BY <1>0, <1>5, <2>1, <3>2, MarkType DEF visit_neighbour
    <3> QED BY <3>1, <3>2
  <2>4. \A f \in Elements : (visitedAt[l][f] = tag) <=> f \in seen[t]
    BY <1>0, <2>1 DEF VisitedExact, Skips
  <2>5. \A f \in Elements : Skips(t, f)' <=> f \in seen'[t]
    BY <2>1, <2>2, <2>3, <2>4 DEF Skips
  <2>6. \A k \in Lists : \A f \in Elements : visitedAt'[k][f] <= currentVisited'[k]
    BY <1>0, <2>1, <2>3 DEF MarksOld, vl_type
  <2>8. ASSUME NEW u \in Threads, u # t
        PROVE  pc'[u] = pc[u] /\ Tag'[u] = Tag[u] /\ seen'[u] = seen[u]
               /\ Visited_List'[u] = Visited_List[u]
    BY <1>0, <2>1, <2>8 DEF TypeOK
  <2>9. pc[t] # "idle"
    BY <2>1
  <2>10. MarksOld'
    <3>1. \A u \in Threads : pc'[u] = "ready" =>
             \A f \in Elements :
                visitedAt'[Visited_List'[u]][f] < currentVisited'[Visited_List'[u]]
      BY <2>1, <2>3, <2>8, <2>9, OtherLists
    <3>2. \A u \in Threads : pc'[u] = "searching" => Tag'[u] = currentVisited'[Visited_List'[u]]
      BY <2>1, <2>3, <2>8, <2>9, OtherLists
    <3> QED BY <2>6, <3>1, <3>2 DEF MarksOld
  <2>11. ASSUME NEW u \in Threads, pc'[u] = "searching"
         PROVE  \A f \in Elements : Skips(u, f)' <=> f \in seen'[u]
    <3>1. CASE u = t
      BY <3>1, <2>5
    <3>2. CASE u # t
      BY <3>2, <2>1, <2>3, <2>8, <2>9, <2>11, OtherLists
    <3> QED BY <3>1, <3>2
  <2>12. VisitedExact'
    BY <2>11 DEF VisitedExact
  <2> QED BY <2>10, <2>12 DEF MarksInv
<1>6. ASSUME NEW t \in Threads, releaseVisitedList(t) PROVE MarksInv'
  <2>1. /\ pc' = [pc EXCEPT ![t] = "idle"]
        /\ Visited_List' = [Visited_List EXCEPT ![t] = NoList]
        /\ seen' = [seen EXCEPT ![t] = {}]
        /\ currentVisited' = currentVisited /\ visitedAt' = visitedAt /\ Tag' = Tag
    BY <1>6 DEF releaseVisitedList
  <2>2. \A u \in Threads : pc'[u] \in {"ready", "searching"} =>
           /\ pc'[u] = pc[u] /\ Visited_List'[u] = Visited_List[u] /\ seen'[u] = seen[u]
    BY <1>0, <2>1 DEF TypeOK
  <2> QED BY <1>0, <2>1, <2>2 DEF MarksInv, MarksOld, VisitedExact, Skips
<1> QED BY <1>1, <1>2, <1>3, <1>4, <1>5, <1>6 DEF Next

\* Type correctness: in particular no tag or mark leaves the vl_type range, and a
\* thread between getFreeVisitedList and releaseVisitedList has a list that exists.
THEOREM PoolTypeCorrect == Spec => []TypeOK
<1>1. PoolInv => TypeOK
  BY DEF PoolInv
<1> QED BY InitPool, NextPool, <1>1, PTL DEF Spec

\* Whatever the threads interleave, a list is in the pool once or belongs to one
\* search: reset() and the marks need no lock.
THEOREM PoolExclusive == Spec => []ListsSound
<1>1. PoolInv => ListsSound
  BY DEF PoolInv, ListsSound
<1> QED BY InitPool, NextPool, <1>1, PTL DEF Spec

\* A search of searchBaseLayer skips exactly what it has come across itself, for
\* every tag width, any number of reuses of a list and any uninitialised contents.
THEOREM VisitedCorrect == Spec => []VisitedExact
<1>1. MarksInv => VisitedExact
  BY DEF MarksInv
<1> QED BY InitPool, NextPool, InitMarks, NextMarks, <1>1, PTL DEF Spec

-----------------------------------------------------------------------------
(* How many lists there are                                                *)

LEMMA NextNoListLost == PoolInv /\ NoListLost /\ [Next]_vars => NoListLost'
<1> SUFFICES ASSUME PoolInv, NoListLost, [Next]_vars PROVE NoListLost'
  OBVIOUS
<1>0. TypeOK
  BY DEF PoolInv
<1>1. CASE UNCHANGED vars
  BY <1>1 DEF vars, NoListLost
<1>2. ASSUME NEW t \in Threads, getFreeVisitedList(t) PROVE NoListLost'
  <2>0. pc' = [pc EXCEPT ![t] = "taken"] /\ pc[t] = "idle"
    BY <1>2 DEF getFreeVisitedList
  <2>1. CASE Len(pool) > 0
    <3>1. /\ Visited_List' = [Visited_List EXCEPT ![t] = Head(pool)]
          /\ pool' = Tail(pool) /\ made' = made
      BY <1>2, <2>1 DEF getFreeVisitedList
    <3>2. SUFFICES ASSUME NEW l \in 1 .. made
                   PROVE  \/ \E i \in DOMAIN pool' : pool'[i] = l
                          \/ \E u \in Threads : pc'[u] # "idle" /\ Visited_List'[u] = l
      BY <3>1 DEF NoListLost
    <3>3. CASE \E i \in DOMAIN pool : pool[i] = l
      <4>1. PICK i \in DOMAIN pool : pool[i] = l
        BY <3>3
      <4>2. CASE i = 1
        <5>1. Visited_List'[t] = l /\ pc'[t] # "idle"
          BY <1>0, <2>0, <3>1, <4>1, <4>2 DEF TypeOK
        <5> QED BY <5>1
      <4>3. CASE i # 1
        <5>1. i - 1 \in DOMAIN Tail(pool) /\ Tail(pool)[i - 1] = pool[i]
          BY <1>0, <2>1, <4>1, <4>3 DEF TypeOK
        <5> QED BY <3>1, <4>1, <5>1
      <4> QED BY <4>2, <4>3
    <3>4. CASE \E u \in Threads : pc[u] # "idle" /\ Visited_List[u] = l
      <4>1. PICK u \in Threads : pc[u] # "idle" /\ Visited_List[u] = l
        BY <3>4
      <4>2. pc'[u] # "idle" /\ Visited_List'[u] = l
        BY <1>0, <2>0, <3>1, <4>1 DEF TypeOK
      <4> QED BY <4>2
    <3> QED BY <3>3, <3>4 DEF NoListLost
  <2>2. CASE ~(Len(pool) > 0)
    <3>1. /\ Visited_List' = [Visited_List EXCEPT ![t] = made + 1]
          /\ pool' = pool /\ made' = made + 1 /\ made \in Nat
      BY <1>0, <1>2, <2>2 DEF getFreeVisitedList, new_list, TypeOK
    <3>2. SUFFICES ASSUME NEW l \in 1 .. made + 1
                   PROVE  \/ \E i \in DOMAIN pool : pool[i] = l
                          \/ \E u \in Threads : pc'[u] # "idle" /\ Visited_List'[u] = l
      BY <3>1 DEF NoListLost
    <3>3. CASE l = made + 1
      <4>1. Visited_List'[t] = l /\ pc'[t] # "idle"
        BY <1>0, <2>0, <3>1, <3>3 DEF TypeOK
      <4> QED BY <4>1
    <3>4. CASE l # made + 1
      <4>1. l \in 1 .. made
        BY <3>1, <3>4
      <4>2. ASSUME NEW u \in Threads, pc[u] # "idle", Visited_List[u] = l
            PROVE  pc'[u] # "idle" /\ Visited_List'[u] = l
        BY <1>0, <2>0, <3>1, <4>2 DEF TypeOK
      <4> QED BY <4>1, <4>2 DEF NoListLost
    <3> QED BY <3>3, <3>4
  <2> QED BY <2>1, <2>2
<1>3. ASSUME NEW t \in Threads,
             \/ reset(t)
             \/ \E e \in Elements : start_search(t, e) \/ visit_neighbour(t, e)
      PROVE  NoListLost'
  <2>1. /\ pool' = pool /\ made' = made /\ Visited_List' = Visited_List
        /\ \A u \in Threads : pc[u] # "idle" => pc'[u] # "idle"
    BY <1>0, <1>3 DEF reset, start_search, visit_neighbour, TypeOK
  <2> QED BY <2>1 DEF NoListLost
<1>4. ASSUME NEW t \in Threads, releaseVisitedList(t) PROVE NoListLost'
  <2>1. /\ pool' = <<Visited_List[t]>> \o pool /\ made' = made
        /\ Visited_List' = [Visited_List EXCEPT ![t] = NoList]
        /\ pc' = [pc EXCEPT ![t] = "idle"] /\ pc[t] = "searching"
    BY <1>4 DEF releaseVisitedList
  <2>2. pool \in Seq(Lists) /\ Visited_List[t] \in Lists
    BY <1>0, <2>1, VisitedListPoolAssumption DEF TypeOK, Lists
  <2>3. /\ 1 \in DOMAIN pool' /\ pool'[1] = Visited_List[t]
        /\ \A i \in DOMAIN pool : i + 1 \in DOMAIN pool' /\ pool'[i + 1] = pool[i]
    BY <2>1, <2>2
  <2>4. \A u \in Threads : u # t => pc'[u] = pc[u] /\ Visited_List'[u] = Visited_List[u]
    BY <1>0, <2>1 DEF TypeOK
  <2>5. ASSUME NEW l \in 1 .. made
        PROVE  \/ \E i \in DOMAIN pool' : pool'[i] = l
               \/ \E u \in Threads : pc'[u] # "idle" /\ Visited_List'[u] = l
    <3>1. CASE l = Visited_List[t]
      BY <2>3, <3>1
    <3>2. CASE \E i \in DOMAIN pool : pool[i] = l
      BY <2>3, <3>2
    <3>3. CASE \E u \in Threads : u # t /\ pc[u] # "idle" /\ Visited_List[u] = l
      BY <2>4, <3>3
    <3> QED BY <3>1, <3>2, <3>3 DEF NoListLost
  <2> QED BY <2>1, <2>5 DEF NoListLost
<1> QED BY <1>1, <1>2, <1>3, <1>4 DEF Next

\* A thread that finds the pool empty is not one of the threads that hold the
\* lists, so the new list stays within one per thread.
LEMMA NewListFits ==
  ASSUME PoolInv, NoListLost, NEW t \in Threads, pc[t] = "idle", pool = <<>>
  PROVE  made + 1 <= Cardinality(Threads)
<1> DEFINE Busy == {u \in Threads : pc[u] # "idle"}
           f == [u \in Busy |-> Visited_List[u]]
<1> USE VisitedListPoolAssumption
<1>1. made \in Nat
  BY DEF PoolInv, TypeOK
<1>2. IsFiniteSet(Threads) /\ IsFiniteSet(Threads \ {t})
  BY FS_RemoveElement
<1>3. Busy \subseteq Threads \ {t}
  OBVIOUS
<1>4. IsFiniteSet(Busy) /\ Cardinality(Busy) <= Cardinality(Threads \ {t})
  BY <1>2, <1>3, FS_Subset
<1>5. f \in Surjection(Busy, 1 .. made)
  <2>1. \A u \in Busy : Visited_List[u] \in 1 .. made
    BY DEF PoolInv, TypeOK
  <2>2. \A l \in 1 .. made : \E u \in Busy : Visited_List[u] = l
    BY DEF NoListLost
  <2> QED BY <2>1, <2>2 DEF Surjection
<1>6. Cardinality(1 .. made) <= Cardinality(Busy)
  BY <1>4, <1>5, FS_Surjection
<1>7. Cardinality(1 .. made) = made
  BY <1>1, FS_Interval
<1>8. Cardinality(Threads \ {t}) = Cardinality(Threads) - 1
  BY FS_RemoveElement
<1>9. Cardinality(Threads) \in Nat /\ Cardinality(Busy) \in Nat
  BY <1>2, <1>4, FS_CardinalityType
<1> QED BY <1>1, <1>4, <1>6, <1>7, <1>8, <1>9

\* No list leaks and no more are created than threads can hold at a time: the
\* pool reuses its lists over any number of searches.
THEOREM PoolReusesLists == Spec => []ListsReused
<1> DEFINE Inv == PoolInv /\ NoListLost /\ PoolBounded
<1> USE VisitedListPoolAssumption
<1>1. Init => Inv
  <2> SUFFICES ASSUME Init PROVE NoListLost /\ PoolBounded
    BY InitPool
  <2>1. ASSUME NEW l \in 1 .. made PROVE \E i \in DOMAIN pool : pool[i] = l
    <3>1. /\ l \in 1 .. initmaxpools
          /\ pool = [i \in 1 .. initmaxpools |-> initmaxpools + 1 - i]
      BY DEF Init
    <3>2. initmaxpools + 1 - l \in DOMAIN pool /\ pool[initmaxpools + 1 - l] = l
      BY <3>1
    <3> QED BY <3>2
  <2> QED BY <2>1 DEF Init, NoListLost, PoolBounded
<1>2. Inv /\ [Next]_vars => Inv'
  <2> SUFFICES ASSUME Inv, [Next]_vars PROVE PoolBounded'
    BY NextPool, NextNoListLost
  <2>1. CASE made' = made
    BY <2>1 DEF PoolBounded
  <2>2. CASE made' # made
    <3>1. PICK t \in Threads : getFreeVisitedList(t)
      BY <2>2 DEF Next, vars, reset, start_search, visit_neighbour, releaseVisitedList
    <3>2. pc[t] = "idle" /\ ~(Len(pool) > 0) /\ made' = made + 1
      BY <2>2, <3>1 DEF getFreeVisitedList, new_list
    <3>3. pool = <<>>
      BY <3>2 DEF PoolInv, TypeOK
    <3> QED BY <3>2, <3>3, NewListFits DEF PoolBounded
  <2> QED BY <2>1, <2>2
<1>3. Inv => ListsReused
  BY DEF ListsReused
<1> QED BY <1>1, <1>2, <1>3, PTL DEF Spec
=============================================================================
