--------------------------- MODULE KeyspaceProofs ---------------------------
(***************************************************************************)
(* Proofs about the keyspace for any set of keys, values and TTLs, any     *)
(* table capacity and any clock bound.                                     *)
(***************************************************************************)
EXTENDS Keyspace, HeapOpsProofs, SequenceTheorems, FiniteSetTheorems, TLAPS

Chains == [Keys -> Seq(Entry)]

(***************************************************************************)
(* What the sift loops do to the items: the result has the same length and *)
(* holds only items that were in the heap before.                          *)
(***************************************************************************)
Rearranges(h, g) ==
    /\ g \in Seq(HeapItem)
    /\ Len(g) = Len(h)
    /\ DOMAIN g = DOMAIN h
    /\ \A i \in DOMAIN g : \E j \in DOMAIN h : g[i] = h[j]

\* A function on the positions of a heap whose values are items of that heap
\* is a heap again.
LEMMA RearrangeLemma ==
    ASSUME NEW h \in Seq(HeapItem), NEW g,
           g = [i \in DOMAIN h |-> g[i]],
           \A i \in DOMAIN h : \E j \in DOMAIN h : g[i] = h[j]
    PROVE  Rearranges(h, g)
<1>1. /\ DOMAIN h = 1 .. Len(h) /\ Len(h) \in Nat
      /\ \A i \in 1 .. Len(h) : h[i] \in HeapItem
  OBVIOUS
<1>2. \A i \in 1 .. Len(h) : g[i] \in HeapItem
  BY <1>1
<1>3. DOMAIN g = 1 .. Len(h)
  BY <1>1
<1>4. g \in Seq(HeapItem) /\ Len(g) = Len(h)
  BY <1>1, <1>2, <1>3
<1> QED BY <1>1, <1>3, <1>4 DEF Rearranges

\* Positions sift_up assigns are positions of the heap.
LEMMA UpPathInHeap ==
    ASSUME NEW h \in Seq(HeapItem), NEW pos \in DOMAIN h
    PROVE  UpPath(h, pos) \subseteq DOMAIN h
BY AncestorBounds DEF UpPath

\* sift_up loses and invents no item's type or owner.
LEMMA SiftUpRearranges ==
    ASSUME NEW h \in Seq(HeapItem), NEW pos \in DOMAIN h
    PROVE  Rearranges(h, sift_up(h, pos))
<1> DEFINE path == UpPath(h, pos)
           G(i) == IF i \in path
                   THEN IF parent(i) \in path THEN h[parent(i)] ELSE h[pos]
                   ELSE h[i]
<1>1. path \subseteq DOMAIN h
  BY UpPathInHeap
<1>2. \A i \in DOMAIN h : \E j \in DOMAIN h : G(i) = h[j]
  BY <1>1, Zenon
<1>3. sift_up(h, pos) = [i \in DOMAIN h |-> G(i)]
  BY Zenon DEF sift_up
<1> HIDE DEF G
<1> QED BY <1>2, <1>3, RearrangeLemma

\* sift_down loses and invents no item's type or owner.
LEMMA SiftDownRearranges ==
    ASSUME NEW h \in Seq(HeapItem), NEW pos \in DOMAIN h
    PROVE  Rearranges(h, sift_down(h, pos))
<1> DEFINE path == DownPath(h, pos)
           G(i) == IF i \in path
                   THEN IF left_child(i) \in path THEN h[left_child(i)]
                        ELSE IF right_child(i) \in path THEN h[right_child(i)]
                        ELSE h[pos]
                   ELSE h[i]
<1>1. path \subseteq DOMAIN h
  BY DEF DownPath
<1>2. \A i \in DOMAIN h : \E j \in DOMAIN h : G(i) = h[j]
  BY <1>1, Zenon
<1>3. sift_down(h, pos) = [i \in DOMAIN h |-> G(i)]
  BY Zenon DEF sift_down
<1> HIDE DEF G
<1> QED BY <1>2, <1>3, RearrangeLemma

\* update moves items along positions of the heap and keeps them all items.
LEMMA UpdateRearranges ==
    ASSUME NEW h \in Seq(HeapItem), NEW pos \in DOMAIN h
    PROVE  /\ Rearranges(h, update(h, pos))
           /\ UpdatePath(h, pos) \subseteq DOMAIN h
<1>1. DownPath(h, pos) \subseteq DOMAIN h
  BY DEF DownPath
<1> QED
  BY <1>1, UpPathInHeap, SiftUpRearranges, SiftDownRearranges DEF update, UpdatePath

(***************************************************************************)
(* What writing the positions through position_ref_ does to the entries.   *)
(***************************************************************************)
LEMMA WriteRefsLemma ==
    ASSUME NEW c \in Chains, NEW h \in Seq(HeapItem), NEW path \in SUBSET DOMAIN h
    PROVE  LET d == WriteRefs(c, h, path)
           IN  /\ d \in Chains
               /\ \A k \in Keys : DOMAIN d[k] = DOMAIN c[k] /\ Len(d[k]) = Len(c[k])
               /\ \A k \in Keys : \A n \in DOMAIN c[k] :
                     \/ d[k][n].heap_idx = c[k][n].heap_idx
                     \/ d[k][n].heap_idx \in path
<1> DEFINE E(k, n) == IF \E i \in path : h[i].ref = <<k, n>>
                      THEN [c[k][n] EXCEPT !.heap_idx = CHOOSE i \in path : h[i].ref = <<k, n>>]
                      ELSE c[k][n]
           d == [k \in Keys |-> [n \in DOMAIN c[k] |-> E(k, n)]]
<1>1. ASSUME NEW k \in Keys, NEW n \in DOMAIN c[k]
      PROVE  /\ E(k, n) \in Entry
             /\ E(k, n).heap_idx = c[k][n].heap_idx \/ E(k, n).heap_idx \in path
  <2>1. c[k][n] \in Entry
    BY DEF Chains
  <2>2. path \subseteq Nat
    BY SMT
  <2>3. CASE \E i \in path : h[i].ref = <<k, n>>
    <3> DEFINE p == CHOOSE i \in path : h[i].ref = <<k, n>>
    <3>1. p \in path
      BY <2>3, Zenon
    <3>2. E(k, n) = [c[k][n] EXCEPT !.heap_idx = p]
      BY <2>3, Zenon
    <3> HIDE DEF p, E
    <3> QED BY <2>1, <2>2, <3>1, <3>2 DEF Entry
  <2>4. CASE ~\E i \in path : h[i].ref = <<k, n>>
    <3>1. E(k, n) = c[k][n]
      BY <2>4, Zenon
    <3> HIDE DEF E
    <3> QED BY <2>1, <3>1
  <2> QED BY <2>3, <2>4
<1> HIDE DEF E
<1>2. ASSUME NEW k \in Keys
      PROVE  /\ d[k] \in Seq(Entry) /\ DOMAIN d[k] = DOMAIN c[k] /\ Len(d[k]) = Len(c[k])
             /\ \A n \in DOMAIN c[k] : d[k][n] = E(k, n)
  <2>1. c[k] \in Seq(Entry) /\ DOMAIN c[k] = 1 .. Len(c[k]) /\ Len(c[k]) \in Nat
    BY DEF Chains
  <2> QED BY <1>1, <2>1
<1>3. d = WriteRefs(c, h, path)
  BY Zenon DEF WriteRefs, E
<1>4. d \in Chains
  BY <1>2 DEF Chains
<1> HIDE DEF d
<1> QED BY <1>1, <1>2, <1>3, <1>4
(***************************************************************************)
(* The inductive invariant.  StoreInv is the part about the table and the  *)
(* heap: RefsLive alone is not inductive, because a deleted entry is known *)
(* to own no item only through its heap_idx, and heap_idx is a position    *)
(* only by IdxInHeap.                                                      *)
(***************************************************************************)
StoreInv ==
    /\ chain \in Chains
    /\ heap \in Seq(HeapItem)
    /\ RefsLive
    /\ IdxInHeap

\* Every entry of the table keeps its place in its stack.
SameShape == \A k \in Keys : DOMAIN chain'[k] = DOMAIN chain[k]

\* Moving items of the heap around and writing their positions keeps StoreInv:
\* c and h are the table and heap before the items are moved, g is the heap
\* after, and the positions in path are then written.
LEMMA MoveLemma ==
    ASSUME NEW c \in Chains, NEW h \in Seq(HeapItem), NEW g, NEW path \in SUBSET DOMAIN h,
           Rearranges(h, g),
           \A i \in DOMAIN h :
               /\ h[i].ref[2] \in DOMAIN c[h[i].ref[1]]
               /\ c[h[i].ref[1]][h[i].ref[2]].heap_idx # None,
           \A k \in Keys : \A n \in DOMAIN c[k] : c[k][n].heap_idx \in {None} \cup DOMAIN h
    PROVE  LET d == WriteRefs(c, g, path)
           IN  /\ d \in Chains
               /\ \A k \in Keys : DOMAIN d[k] = DOMAIN c[k] /\ Len(d[k]) = Len(c[k])
               /\ \A i \in DOMAIN g :
                     /\ g[i].ref[2] \in DOMAIN d[g[i].ref[1]]
                     /\ d[g[i].ref[1]][g[i].ref[2]].heap_idx # None
               /\ \A k \in Keys : \A n \in DOMAIN d[k] : d[k][n].heap_idx \in {None} \cup DOMAIN g
<1> DEFINE d == WriteRefs(c, g, path)
<1>1. /\ g \in Seq(HeapItem)
      /\ DOMAIN g = DOMAIN h
      /\ \A i \in DOMAIN g : \E j \in DOMAIN h : g[i] = h[j]
      /\ path \in SUBSET DOMAIN g
  BY DEF Rearranges
<1>2. /\ d \in Chains
      /\ \A k \in Keys : DOMAIN d[k] = DOMAIN c[k] /\ Len(d[k]) = Len(c[k])
      /\ \A k \in Keys : \A n \in DOMAIN c[k] :
            \/ d[k][n].heap_idx = c[k][n].heap_idx
            \/ d[k][n].heap_idx \in path
  BY <1>1, WriteRefsLemma
<1> HIDE DEF d
<1>3. None \notin DOMAIN h
  BY DEF None
<1>4. ASSUME NEW i \in DOMAIN g
      PROVE  /\ g[i].ref[2] \in DOMAIN d[g[i].ref[1]]
             /\ d[g[i].ref[1]][g[i].ref[2]].heap_idx # None
  <2>1. PICK j \in DOMAIN h : g[i] = h[j]
    BY <1>1
  <2>2. h[j] \in HeapItem
    OBVIOUS
  <2>3. h[j].ref[1] \in Keys
    BY <2>2 DEF HeapItem
  <2> QED BY <1>2, <1>3, <2>1, <2>3
<1>5. ASSUME NEW k \in Keys, NEW n \in DOMAIN d[k]
      PROVE  d[k][n].heap_idx \in {None} \cup DOMAIN g
  BY <1>1, <1>2
<1> QED BY <1>2, <1>4, <1>5 DEF d
\* add_to_heap keeps StoreInv although it stores a wrong index: the index it
\* stores is still a position of the heap.
LEMMA AddToHeapLemma ==
    ASSUME StoreInv, NEW k \in Keys, Found(k), NEW e \in Nat, add_to_heap(k, e)
    PROVE  StoreInv' /\ SameShape
<1> DEFINE end == Len(heap) + 1
           item == [value |-> e, ref |-> <<k, Top(k)>>]
           appended == Append(heap, item)
           pushed == sift_up(appended, end)
           w == WriteRefs(chain, pushed, UpPath(appended, end))
           indexed == [w EXCEPT ![k][Top(k)].heap_idx = end]
<1>1. /\ chain[k] \in Seq(Entry) /\ Top(k) \in Nat \ {0} /\ Top(k) \in DOMAIN chain[k]
      /\ Len(heap) \in Nat
  BY DEF StoreInv, Chains, Found, Top
<1>2. item \in HeapItem /\ item.ref = <<k, Top(k)>>
  BY <1>1 DEF HeapItem
<1> HIDE DEF item
<1>3. /\ appended \in Seq(HeapItem) /\ Len(appended) = end
      /\ DOMAIN appended = DOMAIN heap \cup {end} /\ end \in DOMAIN appended
      /\ \A i \in DOMAIN heap : appended[i] = heap[i]
      /\ appended[end] = item
  BY <1>1, <1>2 DEF StoreInv
<1> HIDE DEF appended
<1>4. Rearranges(appended, pushed) /\ UpPath(appended, end) \in SUBSET DOMAIN appended
  BY <1>3, SiftUpRearranges, UpPathInHeap
<1> HIDE DEF pushed
<1>5. pushed \in Seq(HeapItem) /\ DOMAIN pushed = DOMAIN appended
  BY <1>4 DEF Rearranges
<1>6. /\ w \in Chains
      /\ \A j \in Keys : DOMAIN w[j] = DOMAIN chain[j]
      /\ \A j \in Keys : \A n \in DOMAIN chain[j] :
            \/ w[j][n].heap_idx = chain[j][n].heap_idx
            \/ w[j][n].heap_idx \in DOMAIN appended
  BY <1>4, <1>5, WriteRefsLemma DEF StoreInv
<1> HIDE DEF w
<1>7. end \in Nat /\ end # None /\ None \notin DOMAIN appended
  BY <1>1, <1>3 DEF None
<1>8. /\ indexed \in Chains
      /\ \A j \in Keys : DOMAIN indexed[j] = DOMAIN chain[j]
      /\ \A j \in Keys : \A n \in DOMAIN chain[j] :
            indexed[j][n].heap_idx = IF j = k /\ n = Top(k) THEN end ELSE w[j][n].heap_idx
  <2>1. w[k] \in Seq(Entry) /\ w[k][Top(k)] \in Entry
    BY <1>1, <1>6 DEF Chains
  <2> DEFINE top == [w[k][Top(k)] EXCEPT !.heap_idx = end]
             col == [w[k] EXCEPT ![Top(k)] = top]
  <2>2. top \in Entry /\ top.heap_idx = end
    BY <1>7, <2>1 DEF Entry
  <2>3. indexed = [w EXCEPT ![k] = col]
    OBVIOUS
  <2> HIDE DEF top, indexed
  <2>4. /\ col \in Seq(Entry) /\ DOMAIN col = DOMAIN chain[k]
        /\ \A n \in DOMAIN chain[k] : col[n] = IF n = Top(k) THEN top ELSE w[k][n]
    BY <1>1, <1>6, <2>1, <2>2
  <2> HIDE DEF col
  <2>5. \A j \in Keys : indexed[j] = IF j = k THEN col ELSE w[j]
    BY <1>6, <2>3 DEF Chains
  <2>6. indexed \in Chains
    BY <1>6, <2>3, <2>4 DEF Chains
  <2> QED BY <1>6, <2>2, <2>4, <2>5, <2>6
<1> HIDE DEF indexed
<1>9. ASSUME NEW i \in DOMAIN pushed
      PROVE  /\ pushed[i].ref[2] \in DOMAIN indexed[pushed[i].ref[1]]
             /\ indexed[pushed[i].ref[1]][pushed[i].ref[2]].heap_idx # None
  <2>1. PICK j \in DOMAIN appended : pushed[i] = appended[j]
    BY <1>4 DEF Rearranges
  <2>2. CASE j = end
    BY <1>1, <1>2, <1>3, <1>7, <1>8, <2>1, <2>2
  <2>3. CASE j \in DOMAIN heap
    <3>1. /\ heap[j] \in HeapItem
          /\ heap[j].ref[2] \in DOMAIN chain[heap[j].ref[1]]
          /\ chain[heap[j].ref[1]][heap[j].ref[2]].heap_idx # None
      BY <2>3 DEF StoreInv, RefsLive, Live, EntryAt
    <3>2. heap[j].ref[1] \in Keys
      BY <3>1 DEF HeapItem
    <3> QED BY <1>3, <1>6, <1>7, <1>8, <2>1, <2>3, <3>1, <3>2
  <2> QED BY <1>3, <2>2, <2>3
<1>10. ASSUME NEW j \in Keys, NEW n \in DOMAIN indexed[j]
       PROVE  indexed[j][n].heap_idx \in {None} \cup DOMAIN pushed
  <2>1. n \in DOMAIN chain[j]
    BY <1>8
  <2>2. w[j][n].heap_idx \in {None} \cup DOMAIN pushed
    BY <1>3, <1>5, <1>6, <2>1 DEF StoreInv, IdxInHeap
  <2>3. end \in DOMAIN pushed
    BY <1>3, <1>5
  <2> QED BY <1>8, <2>1, <2>2, <2>3
<1>11. Rearranges(pushed, update(pushed, end)) /\ UpdatePath(pushed, end) \in SUBSET DOMAIN pushed
  BY <1>3, <1>5, UpdateRearranges
<1>12. heap' = update(pushed, end) /\ chain' = WriteRefs(indexed, heap', UpdatePath(pushed, end))
  BY DEF add_to_heap, indexed, w, pushed, appended, item
<1>13. /\ chain' \in Chains
       /\ \A j \in Keys : DOMAIN chain'[j] = DOMAIN indexed[j]
       /\ \A i \in DOMAIN heap' :
             /\ heap'[i].ref[2] \in DOMAIN chain'[heap'[i].ref[1]]
             /\ chain'[heap'[i].ref[1]][heap'[i].ref[2]].heap_idx # None
       /\ \A j \in Keys : \A n \in DOMAIN chain'[j] : chain'[j][n].heap_idx \in {None} \cup DOMAIN heap'
  BY <1>5, <1>8, <1>9, <1>10, <1>11, <1>12, MoveLemma
<1>14. heap' \in Seq(HeapItem)
  BY <1>11, <1>12 DEF Rearranges
<1> QED
  BY <1>8, <1>13, <1>14 DEF StoreInv, SameShape, RefsLive, IdxInHeap, Live, EntryAt

\* update_heap keeps StoreInv whichever entry's item it writes.
LEMMA UpdateHeapLemma ==
    ASSUME StoreInv, NEW k \in Keys, Found(k), NEW e \in Nat, update_heap(k, e)
    PROVE  StoreInv' /\ SameShape
<1> DEFINE pos == find_entry(k).heap_idx
           written == [heap EXCEPT ![pos].value = e]
<1>1. CASE pos \in DOMAIN heap
  <2>1. heap[pos] \in HeapItem
    BY <1>1 DEF StoreInv
  <2>2. [heap[pos] EXCEPT !.value = e] \in HeapItem /\ [heap[pos] EXCEPT !.value = e].ref = heap[pos].ref
    BY <2>1 DEF HeapItem
  <2>3. /\ written \in Seq(HeapItem) /\ DOMAIN written = DOMAIN heap
        /\ \A i \in DOMAIN heap : written[i].ref = heap[i].ref
    BY <1>1, <2>1, <2>2 DEF StoreInv
  <2>4. heap' = update(written, pos) /\ chain' = WriteRefs(chain, heap', UpdatePath(written, pos))
    BY <1>1 DEF update_heap
  <2> HIDE DEF written, pos
  <2>5. Rearranges(written, heap') /\ UpdatePath(written, pos) \in SUBSET DOMAIN written
    BY <1>1, <2>3, <2>4, UpdateRearranges
  <2>6. /\ \A i \in DOMAIN written :
             /\ written[i].ref[2] \in DOMAIN chain[written[i].ref[1]]
             /\ chain[written[i].ref[1]][written[i].ref[2]].heap_idx # None
        /\ \A j \in Keys : \A n \in DOMAIN chain[j] :
              chain[j][n].heap_idx \in {None} \cup DOMAIN written
    BY <2>3 DEF StoreInv, RefsLive, Live, EntryAt, IdxInHeap
  <2>7. /\ chain' \in Chains
        /\ \A j \in Keys : DOMAIN chain'[j] = DOMAIN chain[j]
        /\ \A i \in DOMAIN heap' :
              /\ heap'[i].ref[2] \in DOMAIN chain'[heap'[i].ref[1]]
              /\ chain'[heap'[i].ref[1]][heap'[i].ref[2]].heap_idx # None
        /\ \A j \in Keys : \A n \in DOMAIN chain'[j] : chain'[j][n].heap_idx \in {None} \cup DOMAIN heap'
    BY <2>3, <2>4, <2>5, <2>6, MoveLemma DEF StoreInv
  <2>8. heap' \in Seq(HeapItem)
    BY <2>5 DEF Rearranges
  <2> QED BY <2>7, <2>8 DEF StoreInv, SameShape, RefsLive, IdxInHeap, Live, EntryAt
<1>2. CASE pos \notin DOMAIN heap
  <2>1. UNCHANGED <<chain, heap>>
    BY <1>2 DEF update_heap
  <2> QED BY <2>1 DEF StoreInv, SameShape, RefsLive, IdxInHeap, Live, EntryAt
<1> QED BY <1>1, <1>2
-----------------------------------------------------------------------------
\* The part of the invariant about the table and the heap.
DataInv ==
    /\ StoreInv
    /\ size \in Nat
    /\ IsFiniteSet(Nodes)
    /\ SizeExact

\* The part about the clock, the process and the last reply.
RestOK ==
    /\ now \in 0 .. MaxClock
    /\ status \in {"up", "hung", "aborted"}
    /\ last \in [cmd : Commands, key : Keys \cup {NoKey}, reply : Replies]

IInv == DataInv /\ RestOK

\* Nodes only depends on the places of the entries.
LEMMA SameNodes ==
    ASSUME SameShape PROVE Nodes' = Nodes
BY DEF SameShape, Nodes

\* A new entry is one more node.
LEMMA CreateNodes ==
    ASSUME chain \in Chains, NEW k \in Keys, NEW e \in Entry, create_entry(k, e)
    PROVE  /\ chain' \in Chains
           /\ \A j \in Keys : \A n \in DOMAIN chain[j] :
                 n \in DOMAIN chain'[j] /\ chain'[j][n] = chain[j][n]
           /\ \A j \in Keys : \A n \in DOMAIN chain'[j] :
                 n \in DOMAIN chain[j] \/ chain'[j][n] = e
           /\ <<k, Len(chain[k]) + 1>> \notin Nodes
           /\ Nodes' = Nodes \cup {<<k, Len(chain[k]) + 1>>}
<1>1. chain[k] \in Seq(Entry) /\ Len(chain[k]) \in Nat /\ DOMAIN chain[k] = 1 .. Len(chain[k])
  BY DEF Chains
<1> DEFINE c == Append(chain[k], e)
<1>2. /\ c \in Seq(Entry) /\ DOMAIN c = DOMAIN chain[k] \cup {Len(chain[k]) + 1}
      /\ \A n \in DOMAIN chain[k] : c[n] = chain[k][n]
      /\ c[Len(chain[k]) + 1] = e
      /\ Len(chain[k]) + 1 \notin DOMAIN chain[k]
  BY <1>1
<1>3. chain' = [chain EXCEPT ![k] = c]
  BY DEF create_entry
<1> HIDE DEF c
<1>4. chain' \in Chains /\ \A j \in Keys : chain'[j] = IF j = k THEN c ELSE chain[j]
  BY <1>2, <1>3 DEF Chains
<1>5. \A j \in Keys : DOMAIN chain'[j] =
          IF j = k THEN DOMAIN chain[k] \cup {Len(chain[k]) + 1} ELSE DOMAIN chain[j]
  BY <1>2, <1>4
<1>6. <<k, Len(chain[k]) + 1>> \notin Nodes
  BY <1>2 DEF Nodes
<1>7. Nodes' = Nodes \cup {<<k, Len(chain[k]) + 1>>}
  BY <1>5 DEF Nodes
<1> QED BY <1>2, <1>4, <1>6, <1>7

\* Removing the newest entry of a key is one node less.
LEMMA RemoveNodes ==
    ASSUME chain \in Chains, NEW k \in Keys, Found(k),
           chain' = [chain EXCEPT ![k] = SubSeq(@, 1, Len(@) - 1)]
    PROVE  /\ chain' \in Chains
           /\ \A j \in Keys : \A n \in DOMAIN chain[j] :
                 <<j, n>> # <<k, Top(k)>> => n \in DOMAIN chain'[j]
           /\ \A j \in Keys : \A n \in DOMAIN chain'[j] :
                 n \in DOMAIN chain[j] /\ chain'[j][n] = chain[j][n]
           /\ <<k, Top(k)>> \in Nodes
           /\ Nodes' = Nodes \ {<<k, Top(k)>>}
<1>1. /\ chain[k] \in Seq(Entry) /\ Len(chain[k]) \in Nat \ {0}
      /\ DOMAIN chain[k] = 1 .. Len(chain[k])
  BY DEF Chains, Found
<1> DEFINE c == SubSeq(chain[k], 1, Len(chain[k]) - 1)
<1>2. /\ c \in Seq(Entry) /\ DOMAIN c = DOMAIN chain[k] \ {Top(k)}
      /\ \A n \in DOMAIN c : c[n] = chain[k][n]
      /\ Top(k) \in DOMAIN chain[k]
  BY <1>1 DEF Top
<1> HIDE DEF c
<1>3. chain' \in Chains /\ \A j \in Keys : chain'[j] = IF j = k THEN c ELSE chain[j]
  BY <1>2 DEF Chains, c
<1>4. \A j \in Keys : DOMAIN chain'[j] =
          IF j = k THEN DOMAIN chain[k] \ {Top(k)} ELSE DOMAIN chain[j]
  BY <1>2, <1>3
<1>5. <<k, Top(k)>> \in Nodes
  BY <1>2 DEF Nodes
<1>6. Nodes' = Nodes \ {<<k, Top(k)>>}
  <2>1. \A p : p \in Nodes <=> \E j \in Keys : \E n \in DOMAIN chain[j] : p = <<j, n>>
    BY DEF Nodes
  <2>2. \A p : p \in Nodes' <=> \E j \in Keys : \E n \in DOMAIN chain'[j] : p = <<j, n>>
    BY DEF Nodes
  <2>3. \A j \in Keys : \A n : n \in DOMAIN chain'[j] <=>
            n \in DOMAIN chain[j] /\ <<j, n>> # <<k, Top(k)>>
    BY <1>4
  <2>4. \A p : p \in Nodes' <=> p \in Nodes /\ p # <<k, Top(k)>>
    BY <2>1, <2>2, <2>3
  <2> QED BY <2>4
<1> QED BY <1>2, <1>3, <1>4, <1>5, <1>6
\* The constructors of replies build replies.
LEMMA ReplyTypes ==
    /\ \A n \in Int : int(n) \in Replies
    /\ \A s \in Vals \cup {NoVal, "OK"} : str(s) \in Replies
    /\ nil \in Replies /\ closed \in Replies /\ lost \in Replies
    /\ err("ARG") \in Replies /\ err("UNKNOWN") \in Replies /\ err("TYPE") \in Replies
<1>1. \A n \in Int : int(n) \in Replies
  BY Zenon DEF int, Replies
<1>2. \A s \in Vals \cup {NoVal, "OK"} : str(s) \in Replies
  BY Zenon DEF str, Replies
<1>3. nil \in Replies /\ closed \in Replies /\ lost \in Replies
  BY Zenon DEF nil, closed, lost, Replies
<1>4. err("ARG") \in Replies /\ err("UNKNOWN") \in Replies /\ err("TYPE") \in Replies
  BY Zenon DEF err, Replies
<1> QED BY <1>1, <1>2, <1>3, <1>4

\* A step that answers with a reply and leaves the clock alone.
LEMMA RestKeeps ==
    ASSUME RestOK, NEW cmd \in Commands, NEW k \in Keys \cup {NoKey}, NEW r \in Replies,
           Reply(cmd, k, r), UNCHANGED now, status' \in {"up", "hung", "aborted"}
    PROVE  RestOK'
BY DEF RestOK, Reply

\* DataInv only depends on the table, its size and the heap.
LEMMA DataUnchanged ==
    ASSUME DataInv, UNCHANGED <<chain, size, heap>>
    PROVE  DataInv'
BY DEF DataInv, StoreInv, RefsLive, IdxInHeap, Live, EntryAt, SizeExact, Nodes

\* A push in front of a key's stack.
LEMMA CreateKeeps ==
    ASSUME DataInv, NEW k \in Keys, NEW e \in Entry, e.heap_idx = None,
           create_entry(k, e), UNCHANGED heap
    PROVE  DataInv'
<1>1. /\ chain' \in Chains
      /\ \A j \in Keys : \A n \in DOMAIN chain[j] :
            n \in DOMAIN chain'[j] /\ chain'[j][n] = chain[j][n]
      /\ \A j \in Keys : \A n \in DOMAIN chain'[j] :
            n \in DOMAIN chain[j] \/ chain'[j][n] = e
      /\ <<k, Len(chain[k]) + 1>> \notin Nodes
      /\ Nodes' = Nodes \cup {<<k, Len(chain[k]) + 1>>}
  BY CreateNodes DEF DataInv, StoreInv
<1>2. ASSUME NEW i \in DOMAIN heap
      PROVE  Live(heap[i].ref)' /\ EntryAt(heap[i].ref)'.heap_idx # None
  <2>1. heap[i] \in HeapItem /\ heap' = heap
    BY DEF DataInv, StoreInv
  <2>2. heap[i].ref[1] \in Keys
    BY <2>1 DEF HeapItem
  <2>3. Live(heap[i].ref) /\ EntryAt(heap[i].ref).heap_idx # None
    BY DEF DataInv, StoreInv, RefsLive
  <2> QED BY <1>1, <2>1, <2>2, <2>3 DEF Live, EntryAt
<1>3. RefsLive'
  BY <1>2 DEF RefsLive
<1>4. IdxInHeap'
  BY <1>1 DEF IdxInHeap, DataInv, StoreInv
<1>5. IsFiniteSet(Nodes') /\ Cardinality(Nodes') = Cardinality(Nodes) + 1
  BY <1>1, FS_AddElement DEF DataInv
<1>6. size' = size + 1
  BY DEF create_entry
<1>7. SizeExact' /\ size' \in Nat
  BY <1>5, <1>6 DEF SizeExact, DataInv
<1> QED BY <1>1, <1>3, <1>4, <1>5, <1>7 DEF DataInv, StoreInv

\* delete_entry: the entry it removes owns no heap item, because an entry that
\* owns one is not removed (the process stops instead).
LEMMA DeleteKeeps ==
    ASSUME DataInv, RestOK, NEW k \in Keys, Found(k), NEW cmd \in Commands,
           delete_entry(cmd, k), UNCHANGED <<heap, now>>
    PROVE  DataInv' /\ RestOK'
<1>1. CASE find_entry(k).heap_idx \in DOMAIN heap
  <2>1. /\ status' \in {"aborted", "hung"} /\ UNCHANGED <<chain, size, heap>>
        /\ last' = [cmd |-> cmd, key |-> k, reply |-> lost]
    BY <1>1 DEF delete_entry, RelockAborts, Reply
  <2>2. RestOK'
    BY <2>1, ReplyTypes, RestKeeps DEF Reply
  <2> QED BY <2>1, <2>2, DataUnchanged
<1>2. CASE find_entry(k).heap_idx \notin DOMAIN heap
  <2>1. /\ chain' = [chain EXCEPT ![k] = SubSeq(@, 1, Len(@) - 1)]
        /\ size' = size - 1
        /\ last' = [cmd |-> cmd, key |-> k, reply |-> int(1)]
        /\ status' = status
    BY <1>2 DEF delete_entry, Reply
  <2>2. RestOK'
    <3>1. int(1) \in Replies /\ status' \in {"up", "hung", "aborted"}
      BY <2>1, ReplyTypes DEF RestOK
    <3> QED BY <2>1, <3>1, RestKeeps DEF Reply
  <2>3. /\ chain' \in Chains
        /\ \A j \in Keys : \A n \in DOMAIN chain[j] :
              <<j, n>> # <<k, Top(k)>> => n \in DOMAIN chain'[j]
        /\ \A j \in Keys : \A n \in DOMAIN chain'[j] :
              n \in DOMAIN chain[j] /\ chain'[j][n] = chain[j][n]
        /\ <<k, Top(k)>> \in Nodes
        /\ Nodes' = Nodes \ {<<k, Top(k)>>}
    BY <2>1, RemoveNodes DEF DataInv, StoreInv
  <2>4. find_entry(k).heap_idx = None
    <3>1. Top(k) \in DOMAIN chain[k]
      BY DEF DataInv, StoreInv, Chains, Found, Top
    <3> QED BY <1>2, <3>1 DEF find_entry, DataInv, StoreInv, IdxInHeap
  <2>5. ASSUME NEW i \in DOMAIN heap
        PROVE  Live(heap[i].ref)' /\ EntryAt(heap[i].ref)'.heap_idx # None
    <3>1. heap[i] \in HeapItem /\ heap' = heap
      BY DEF DataInv, StoreInv
    <3>2. heap[i].ref[1] \in Keys
      BY <3>1 DEF HeapItem
    <3>3. Live(heap[i].ref) /\ EntryAt(heap[i].ref).heap_idx # None
      BY DEF DataInv, StoreInv, RefsLive
    <3>4. <<heap[i].ref[1], heap[i].ref[2]>> # <<k, Top(k)>>
      BY <2>4, <3>3 DEF EntryAt, find_entry
    <3> QED BY <2>3, <3>1, <3>2, <3>3, <3>4 DEF Live, EntryAt
  <2>6. RefsLive'
    BY <2>5 DEF RefsLive
  <2>7. IdxInHeap'
    BY <2>3 DEF IdxInHeap, DataInv, StoreInv
  <2>8. /\ IsFiniteSet(Nodes') /\ Cardinality(Nodes') = Cardinality(Nodes) - 1
        /\ Cardinality(Nodes) \in Nat
    BY <2>3, FS_RemoveElement, FS_CardinalityType DEF DataInv
  <2>9. Cardinality(Nodes) > 0
    BY <2>3, FS_EmptySet, FS_CardinalityType DEF DataInv
  <2>10. SizeExact' /\ size' \in Nat
    BY <2>1, <2>8, <2>9 DEF SizeExact, DataInv
  <2> QED BY <2>2, <2>3, <2>6, <2>7, <2>8, <2>10 DEF DataInv, StoreInv
<1> QED BY <1>1, <1>2
\* Locking an owned mutex outside noexcept code.
LEMMA RelockKeeps ==
    ASSUME RestOK, NEW cmd \in Commands, NEW k \in Keys, RelockThrows(cmd, k), UNCHANGED now
    PROVE  RestOK'
BY ReplyTypes, RestKeeps DEF RelockThrows

\* The answer of PTTL is an integer.
LEMMA ExpiryType ==
    ASSUME DataInv, RestOK, NEW k \in Keys, Found(k)
    PROVE  get_expiry_time(k) \in Int
<1> DEFINE pos == find_entry(k).heap_idx
           q == (heap[pos].value - now) % Word
<1>1. CASE pos \in DOMAIN heap
  <2>1. heap[pos] \in HeapItem
    BY <1>1 DEF DataInv, StoreInv
  <2>2. heap[pos].value - now \in Int
    BY <2>1 DEF HeapItem, RestOK
  <2>3. q \in Int
    BY <2>2, KeyspaceAssumption
  <2>4. Word \in Int /\ Word \div 2 \in Int /\ q \div UsecPerMs \in Int
    BY <2>3, KeyspaceAssumption
  <2> HIDE DEF q, pos
  <2>5. Signed(q \div UsecPerMs) \in Int
    BY <2>4 DEF Signed
  <2> QED BY <2>5 DEF get_expiry_time, q, pos
<1>2. CASE pos \notin DOMAIN heap
  BY <1>2 DEF get_expiry_time
<1> QED BY <1>1, <1>2

\* Setting a TTL on a key that is in the table.
LEMMA SetTtlKeeps ==
    ASSUME DataInv, now \in Nat, NEW k \in Keys, Found(k), NEW ttl \in Nat,
           set_entry_ttl(k, ttl), UNCHANGED size
    PROVE  DataInv'
<1>1. Expiry(ttl) \in Nat
  <2>1. ttl * UsecPerMs \in Nat
    BY KeyspaceAssumption
  <2>2. now + ttl * UsecPerMs \in Nat
    BY <2>1
  <2> QED BY <2>2, KeyspaceAssumption DEF Expiry
<1>2. StoreInv' /\ SameShape
  BY <1>1, AddToHeapLemma, UpdateHeapLemma DEF set_entry_ttl, DataInv
<1>3. Nodes' = Nodes
  BY <1>2, SameNodes
<1> QED BY <1>2, <1>3 DEF DataInv, SizeExact

\* The initial state satisfies the invariant.
LEMMA InitIInv == Init => IInv
<1> SUFFICES ASSUME Init PROVE IInv
  OBVIOUS
<1>1. chain \in Chains /\ heap \in Seq(HeapItem) /\ RefsLive /\ IdxInHeap
  BY DEF Init, Chains, RefsLive, IdxInHeap
<1>2. Nodes = {}
  BY DEF Init, Nodes
<1>3. IsFiniteSet(Nodes) /\ SizeExact /\ size \in Nat
  BY <1>2, FS_EmptySet DEF Init, SizeExact
<1>4. RestOK
  <2>1. last \in [cmd : Commands, key : Keys \cup {NoKey}, reply : Replies]
    BY ReplyTypes DEF Init, Commands
  <2> QED BY <2>1, KeyspaceAssumption DEF Init, RestOK
<1> QED BY <1>1, <1>3, <1>4 DEF IInv, DataInv, StoreInv

\* Commands that only read keep the invariant.
LEMMA ReadOnlyKeeps ==
    ASSUME IInv, NEW cmd \in Commands, NEW k \in Keys \cup {NoKey}, NEW r \in Replies,
           ReadOnly(cmd, k, r)
    PROVE  IInv'
<1>1. DataInv'
  BY DataUnchanged DEF IInv, ReadOnly
<1>2. RestOK'
  BY RestKeeps DEF IInv, ReadOnly, RestOK
<1> QED BY <1>1, <1>2 DEF IInv
\* Every step keeps the invariant.
LEMMA NextIInv == IInv /\ [Next]_vars => IInv'
<1> SUFFICES ASSUME IInv, [Next]_vars PROVE IInv'
  OBVIOUS
<1>0. DataInv /\ RestOK /\ now \in Nat
  BY KeyspaceAssumption DEF IInv, RestOK
<1>1. ASSUME NEW k \in Keys, handle_get(k) PROVE IInv'
  <2>1. Found(k) => find_entry(k) \in Entry
    BY <1>0 DEF DataInv, StoreInv, Chains, Found, find_entry, Top
  <2>2. CASE ~Found(k)
    BY <1>1, <2>2, ReplyTypes, ReadOnlyKeeps DEF handle_get, Commands
  <2>3. CASE Found(k) /\ find_entry(k).kind # "str"
    BY <1>1, <2>3, ReplyTypes, ReadOnlyKeeps DEF handle_get, Commands
  <2>4. CASE Found(k) /\ find_entry(k).kind = "str"
    <3>1. str(find_entry(k).value) \in Replies
      BY <2>1, <2>4, ReplyTypes DEF Entry
    <3> QED BY <1>1, <2>4, <3>1, ReadOnlyKeeps DEF handle_get, Commands
  <2> QED BY <2>2, <2>3, <2>4
<1>2. ASSUME NEW k \in Keys, handle_exists(k) PROVE IInv'
  <2>1. int(IF Found(k) THEN 1 ELSE 0) \in Replies
    BY ReplyTypes
  <2> QED BY <1>2, <2>1, ReadOnlyKeeps DEF handle_exists, Commands
<1>3. ASSUME NEW k \in Keys, handle_pttl(k) PROVE IInv'
  <2>1. (IF Found(k) THEN get_expiry_time(k) ELSE -2) \in Int
    BY <1>0, ExpiryType
  <2>2. int(IF Found(k) THEN get_expiry_time(k) ELSE -2) \in Replies
    BY <2>1, ReplyTypes
  <2> QED BY <1>3, <2>2, ReadOnlyKeeps DEF handle_pttl, Commands
<1>4. ASSUME NEW k \in Keys, handle_zrem(k) PROVE IInv'
  BY <1>4, ReplyTypes, ReadOnlyKeeps DEF handle_zrem, Commands
<1>5. ASSUME process_invalid PROVE IInv'
  BY <1>5, ReplyTypes, ReadOnlyKeeps DEF process_invalid, Commands
<1>6. ASSUME NEW k \in Keys, NEW v \in Vals, handle_set(k, v) PROVE IInv'
  <2>1. CASE TableFull
    <3>1. RelockThrows("set", k) /\ UNCHANGED <<chain, size, heap, now>>
      BY <1>6, <2>1 DEF handle_set
    <3> QED BY <1>0, <3>1, DataUnchanged, RelockKeeps DEF IInv, Commands
  <2>2. CASE ~TableFull
    <3>1. /\ create_entry(k, NewEntry("str", v)) /\ Reply("set", k, str("OK"))
          /\ UNCHANGED <<heap, now, status>>
      BY <1>6, <2>2 DEF handle_set
    <3>2. NewEntry("str", v) \in Entry /\ NewEntry("str", v).heap_idx = None
      BY DEF NewEntry, Entry, None
    <3>3. DataInv'
      BY <1>0, <3>1, <3>2, CreateKeeps
    <3>4. str("OK") \in Replies /\ status' \in {"up", "hung", "aborted"}
      BY <1>0, <3>1, ReplyTypes DEF RestOK
    <3>5. RestOK'
      BY <1>0, <3>1, <3>4, RestKeeps DEF Commands
    <3> QED BY <3>3, <3>5 DEF IInv
  <2> QED BY <2>1, <2>2
<1>7. ASSUME NEW k \in Keys, handle_del(k) PROVE IInv'
  <2>1. CASE Found(k)
    BY <1>0, <1>7, <2>1, DeleteKeeps DEF handle_del, IInv, Commands
  <2>2. CASE ~Found(k)
    <3>1. Reply("del", k, int(0)) /\ UNCHANGED <<chain, size, heap, now, status>>
      BY <1>7, <2>2 DEF handle_del
    <3>2. int(0) \in Replies /\ status' \in {"up", "hung", "aborted"}
      BY <1>0, <3>1, ReplyTypes DEF RestOK
    <3> QED BY <1>0, <3>1, <3>2, DataUnchanged, RestKeeps DEF IInv, Commands
  <2> QED BY <2>1, <2>2
<1>8. ASSUME handle_flushall PROVE IInv'
  <2>1. /\ chain' = [j \in Keys |-> <<>>] /\ size' = 0 /\ heap' = <<>>
        /\ Reply("flushall", NoKey, int(1)) /\ UNCHANGED <<now, status>>
    BY <1>8 DEF handle_flushall
  <2>2. chain' \in Chains /\ heap' \in Seq(HeapItem) /\ RefsLive' /\ IdxInHeap'
    BY <2>1 DEF Chains, RefsLive, IdxInHeap
  <2>3. Nodes' = {}
    BY <2>1 DEF Nodes
  <2>4. IsFiniteSet(Nodes') /\ SizeExact' /\ size' \in Nat
    BY <2>1, <2>3, FS_EmptySet DEF SizeExact
  <2>5. int(1) \in Replies /\ status' \in {"up", "hung", "aborted"}
    BY <1>0, <2>1, ReplyTypes DEF RestOK
  <2>6. RestOK'
    BY <1>0, <2>1, <2>5, RestKeeps DEF Commands
  <2> QED BY <2>2, <2>4, <2>6 DEF IInv, DataInv, StoreInv
<1>9. ASSUME NEW k \in Keys, handle_zadd(k) PROVE IInv'
  <2>1. CASE Found(k) /\ find_entry(k).kind # "zset"
    <3>1. Reply("zadd", k, err("TYPE")) /\ UNCHANGED <<chain, size, heap, now, status>>
      BY <1>9, <2>1 DEF handle_zadd
    <3>2. err("TYPE") \in Replies /\ status' \in {"up", "hung", "aborted"}
      BY <1>0, <3>1, ReplyTypes DEF RestOK
    <3> QED BY <1>0, <3>1, <3>2, DataUnchanged, RestKeeps DEF IInv, Commands
  <2>2. CASE ~(Found(k) /\ find_entry(k).kind # "zset")
    <3>1. /\ RelockThrows("zadd", k) /\ UNCHANGED <<heap, now>>
          /\ IF Found(k) \/ TableFull
             THEN UNCHANGED <<chain, size>>
             ELSE create_entry(k, NewEntry("zset", NoVal))
      BY <1>9, <2>2 DEF handle_zadd
    <3>2. RestOK'
      BY <1>0, <3>1, RelockKeeps DEF Commands
    <3>3. NewEntry("zset", NoVal) \in Entry /\ NewEntry("zset", NoVal).heap_idx = None
      BY DEF NewEntry, Entry, None
    <3>4. DataInv'
      BY <1>0, <3>1, <3>3, DataUnchanged, CreateKeeps
    <3> QED BY <3>2, <3>4 DEF IInv
  <2> QED BY <2>1, <2>2
<1>10. ASSUME NEW k \in Keys, NEW ttl \in TTLs, handle_pexpire(k, ttl) PROVE IInv'
  <2>1. CASE ~Found(k)
    <3>1. Reply("pexpire", k, int(0)) /\ UNCHANGED <<chain, size, heap, now, status>>
      BY <1>10, <2>1 DEF handle_pexpire
    <3>2. int(0) \in Replies /\ status' \in {"up", "hung", "aborted"}
      BY <1>0, <3>1, ReplyTypes DEF RestOK
    <3> QED BY <1>0, <3>1, <3>2, DataUnchanged, RestKeeps DEF IInv, Commands
  <2>2. CASE Found(k) /\ ttl = 0
    BY <1>0, <1>10, <2>2, DeleteKeeps DEF handle_pexpire, IInv, Commands
  <2>3. CASE Found(k) /\ ttl # 0
    <3>1. /\ set_entry_ttl(k, ttl) /\ Reply("pexpire", k, int(1))
          /\ UNCHANGED <<size, now, status>>
      BY <1>10, <2>3 DEF handle_pexpire
    <3>2. ttl \in Nat
      BY KeyspaceAssumption
    <3>3. DataInv'
      BY <1>0, <2>3, <3>1, <3>2, SetTtlKeeps
    <3>4. int(1) \in Replies /\ status' \in {"up", "hung", "aborted"}
      BY <1>0, <3>1, ReplyTypes DEF RestOK
    <3>5. RestOK'
      BY <1>0, <3>1, <3>4, RestKeeps DEF Commands
    <3> QED BY <3>3, <3>5 DEF IInv
  <2> QED BY <2>1, <2>2, <2>3
<1>11. ASSUME Tick PROVE IInv'
  <2>1. DataInv'
    BY <1>0, <1>11, DataUnchanged DEF Tick
  <2>2. RestOK'
    BY <1>0, <1>11, KeyspaceAssumption DEF Tick, RestOK
  <2> QED BY <2>1, <2>2 DEF IInv
<1>12. ASSUME UNCHANGED vars PROVE IInv'
  <2>1. DataInv'
    BY <1>0, <1>12, DataUnchanged DEF vars
  <2>2. RestOK'
    BY <1>0, <1>12 DEF vars, RestOK
  <2> QED BY <2>1, <2>2 DEF IInv
<1> QED
  BY <1>1, <1>2, <1>3, <1>4, <1>5, <1>6, <1>7, <1>8, <1>9, <1>10, <1>11, <1>12 DEF Next

\* The invariant holds in every reachable state.
LEMMA Invariance == Spec => []IInv
BY InitIInv, NextIInv, PTL DEF Spec

(***************************************************************************)
(* Type correctness: size_ never wraps below zero and every reply is one   *)
(* the serializer knows.                                                   *)
(***************************************************************************)
THEOREM TypeCorrect == Spec => []TypeOK
<1>1. IInv => TypeOK
  BY DEF IInv, DataInv, StoreInv, RestOK, TypeOK, Chains
<1> QED BY <1>1, Invariance, PTL

(***************************************************************************)
(* No heap item ever points into a deleted entry, for any number of keys,  *)
(* table capacity and sequence of commands: the raw position_ref_ pointers *)
(* of heap.hpp are written only while their entry is in the table.         *)
(***************************************************************************)
THEOREM NoDanglingRefs == Spec => []RefsSound
<1>1. IInv => RefsSound
  BY DEF IInv, DataInv, StoreInv, RefsSound
<1> QED BY <1>1, Invariance, PTL

(***************************************************************************)
(* size_ counts the nodes of the table exactly, duplicates of a key        *)
(* included, for any keys and capacity and after any sequence of commands, *)
(* those that are abandoned at a double lock included.                     *)
(***************************************************************************)
THEOREM SizeCountsNodes == Spec => []SizeExact
<1>1. IInv => SizeExact
  BY DEF IInv, DataInv
<1> QED BY <1>1, Invariance, PTL
-----------------------------------------------------------------------------
(***************************************************************************)
(* What the table and the heap see of a step: they are kept (entries may   *)
(* come and go, but only entries without a TTL), both are emptied, or one  *)
(* entry gets a deadline.                                                  *)
(***************************************************************************)
Keeps ==
    /\ heap' = heap
    /\ \A k \in Keys : \A n \in DOMAIN chain'[k] :
          \/ n \in DOMAIN chain[k] /\ chain'[k][n] = chain[k][n]
          \/ chain'[k][n].heap_idx = None

Flushes == heap' = <<>> /\ chain' = [k \in Keys |-> <<>>]

Adds(k, e) == Found(k) /\ find_entry(k).heap_idx = None /\ add_to_heap(k, e)
Updates(k, e) == Found(k) /\ find_entry(k).heap_idx # None /\ update_heap(k, e)

\* An entry comes or goes without a TTL.
LEMMA DeleteStep ==
    ASSUME DataInv, NEW k \in Keys, Found(k), NEW cmd, delete_entry(cmd, k), UNCHANGED heap
    PROVE  Keeps
<1>1. CASE find_entry(k).heap_idx \in DOMAIN heap
  BY <1>1 DEF delete_entry, Keeps
<1>2. CASE find_entry(k).heap_idx \notin DOMAIN heap
  <2>1. chain' = [chain EXCEPT ![k] = SubSeq(@, 1, Len(@) - 1)]
    BY <1>2 DEF delete_entry
  <2>2. \A j \in Keys : \A n \in DOMAIN chain'[j] :
            n \in DOMAIN chain[j] /\ chain'[j][n] = chain[j][n]
    BY <2>1, RemoveNodes DEF DataInv, StoreInv
  <2> QED BY <2>2 DEF Keeps
<1> QED BY <1>1, <1>2

LEMMA CreateStep ==
    ASSUME DataInv, NEW k \in Keys, NEW e \in Entry, e.heap_idx = None,
           create_entry(k, e), UNCHANGED heap
    PROVE  /\ Keeps
           /\ \A j \in Keys : \A n \in DOMAIN chain[j] :
                 n \in DOMAIN chain'[j] /\ chain'[j][n] = chain[j][n]
<1>1. /\ \A j \in Keys : \A n \in DOMAIN chain[j] :
            n \in DOMAIN chain'[j] /\ chain'[j][n] = chain[j][n]
      /\ \A j \in Keys : \A n \in DOMAIN chain'[j] :
            n \in DOMAIN chain[j] \/ chain'[j][n] = e
  BY CreateNodes DEF DataInv, StoreInv
<1> QED BY <1>1 DEF Keeps

LEMMA SameStep == ASSUME UNCHANGED <<chain, heap>> PROVE Keeps
BY DEF Keeps

LEMMA StoreSteps ==
    ASSUME IInv, [Next]_vars
    PROVE  \/ Keeps
           \/ Flushes
           \/ \E k \in Keys, e \in Nat : Adds(k, e) \/ Updates(k, e)
<1>0. DataInv /\ now \in Nat
  BY KeyspaceAssumption DEF IInv, RestOK
<1>1. ASSUME NEW k \in Keys,
             handle_get(k) \/ handle_exists(k) \/ handle_pttl(k) \/ handle_zrem(k)
      PROVE  Keeps
  BY <1>1, SameStep DEF handle_get, handle_exists, handle_pttl, handle_zrem, ReadOnly
<1>2. ASSUME process_invalid \/ Tick \/ UNCHANGED vars PROVE Keeps
  BY <1>2, SameStep DEF process_invalid, ReadOnly, Tick, vars
<1>3. ASSUME NEW k \in Keys, NEW v \in Vals, handle_set(k, v) PROVE Keeps
  <2>1. NewEntry("str", v) \in Entry /\ NewEntry("str", v).heap_idx = None
    BY DEF NewEntry, Entry, None
  <2>2. CASE TableFull
    BY <1>3, <2>2, SameStep DEF handle_set
  <2>3. CASE ~TableFull
    BY <1>0, <1>3, <2>1, <2>3, CreateStep DEF handle_set
  <2> QED BY <2>2, <2>3
<1>4. ASSUME NEW k \in Keys, handle_del(k) PROVE Keeps
  BY <1>0, <1>4, DeleteStep, SameStep DEF handle_del
<1>5. ASSUME handle_flushall PROVE Flushes
  BY <1>5 DEF handle_flushall, Flushes
<1>6. ASSUME NEW k \in Keys, handle_zadd(k) PROVE Keeps
  <2>1. NewEntry("zset", NoVal) \in Entry /\ NewEntry("zset", NoVal).heap_idx = None
    BY DEF NewEntry, Entry, None
  <2>2. heap' = heap /\ (chain' = chain \/ create_entry(k, NewEntry("zset", NoVal)))
    BY <1>6 DEF handle_zadd
  <2> QED BY <1>0, <2>1, <2>2, CreateStep, SameStep
<1>7. ASSUME NEW k \in Keys, NEW ttl \in TTLs, handle_pexpire(k, ttl)
      PROVE  Keeps \/ \E e \in Nat : Adds(k, e) \/ Updates(k, e)
  <2>1. CASE ~Found(k)
    BY <1>7, <2>1, SameStep DEF handle_pexpire
  <2>2. CASE Found(k) /\ ttl = 0
    BY <1>0, <1>7, <2>2, DeleteStep DEF handle_pexpire
  <2>3. CASE Found(k) /\ ttl # 0
    <3>1. set_entry_ttl(k, ttl)
      BY <1>7, <2>3 DEF handle_pexpire
    <3>2. ttl \in Nat /\ ttl * UsecPerMs \in Nat
      BY KeyspaceAssumption
    <3>3. Expiry(ttl) \in Nat
      BY <1>0, <3>2, KeyspaceAssumption DEF Expiry
    <3> HIDE DEF Expiry
    <3>4. Adds(k, Expiry(ttl)) \/ Updates(k, Expiry(ttl))
      BY <2>3, <3>1, Zenon DEF set_entry_ttl, Adds, Updates
    <3> QED BY <3>3, <3>4
  <2> QED BY <2>1, <2>2, <2>3
<1> QED BY <1>1, <1>2, <1>3, <1>4, <1>5, <1>6, <1>7, Zenon DEF Next
-----------------------------------------------------------------------------
(***************************************************************************)
(* The second layer of the invariant: each TTL has its one item, and the   *)
(* items are in heap order.                                                *)
(***************************************************************************)
TtlInv == OneItemPerTtl /\ HeapOrdered

\* Exactly one item of h belongs to the entry r.
OneItem(h, r) == \E i \in DOMAIN h : \A j \in DOMAIN h : h[j].ref = r <=> i = j

LEMMA PermutesOneItem ==
    ASSUME NEW h, NEW g, Permutes(h, g), NEW r, OneItem(h, r)
    PROVE  OneItem(g, r)
<1>1. PICK pi \in [DOMAIN h -> DOMAIN h] :
          /\ g = [i \in DOMAIN h |-> h[pi[i]]]
          /\ \A i, j \in DOMAIN h : pi[i] = pi[j] => i = j
          /\ \A j \in DOMAIN h : \E i \in DOMAIN h : pi[i] = j
  BY DEF Permutes
<1>2. PICK i \in DOMAIN h : \A j \in DOMAIN h : h[j].ref = r <=> i = j
  BY DEF OneItem
<1>3. PICK s \in DOMAIN h : pi[s] = i
  BY <1>1, <1>2
<1>4. DOMAIN g = DOMAIN h /\ \A j \in DOMAIN h : g[j].ref = h[pi[j]].ref
  BY <1>1
<1>5. \A j \in DOMAIN g : g[j].ref = r <=> s = j
  BY <1>1, <1>2, <1>3, <1>4
<1> QED BY <1>3, <1>4, <1>5 DEF OneItem

\* An item of a permuted heap was an item before.
LEMMA PermutesItems ==
    ASSUME NEW h, NEW g, Permutes(h, g)
    PROVE  DOMAIN g = DOMAIN h /\ \A i \in DOMAIN g : \E j \in DOMAIN h : g[i] = h[j]
BY DEF Permutes

\* What writing the positions leaves in an entry: the position of an item of
\* its own, or what was there if no item on the path is its own.
Written(c, d, h, path, k, n) ==
    \/ \E i \in path : h[i].ref = <<k, n>> /\ d[k][n].heap_idx = i
    \/ (\A i \in path : h[i].ref # <<k, n>>) /\ d[k][n] = c[k][n]

LEMMA WriteRefsExact ==
    ASSUME NEW c \in Chains, NEW h, NEW path \in SUBSET Nat, NEW k \in Keys, NEW n \in DOMAIN c[k],
           NEW d, d = WriteRefs(c, h, path)
    PROVE  Written(c, d, h, path, k, n)
<1> DEFINE E(m) == IF \E i \in path : h[i].ref = <<k, m>>
                   THEN [c[k][m] EXCEPT !.heap_idx = CHOOSE i \in path : h[i].ref = <<k, m>>]
                   ELSE c[k][m]
<1>1. d[k] = [m \in DOMAIN c[k] |-> E(m)]
  BY Zenon DEF WriteRefs
<1>2. d[k][n] = E(n)
  BY <1>1, Zenon
<1>3. c[k][n] \in Entry
  BY DEF Chains
<1>4. CASE \E i \in path : h[i].ref = <<k, n>>
  <2> DEFINE p == CHOOSE i \in path : h[i].ref = <<k, n>>
  <2>1. p \in path /\ h[p].ref = <<k, n>>
    BY <1>4, Zenon
  <2>2. d[k][n] = [c[k][n] EXCEPT !.heap_idx = p]
    BY <1>2, <1>4, Zenon
  <2> HIDE DEF p
  <2>3. d[k][n].heap_idx = p
    BY <1>3, <2>2 DEF Entry
  <2> QED BY <2>1, <2>3 DEF Written
<1>5. CASE ~\E i \in path : h[i].ref = <<k, n>>
  BY <1>2, <1>5, Zenon DEF Written
<1> QED BY <1>4, <1>5

\* A heap of items is a heap of the sift loops.
LEMMA ItemsHeapOf ==
    ASSUME NEW h \in Seq(HeapItem)
    PROVE  HeapOf(h, Len(h)) /\ DOMAIN h = 1 .. Len(h)
<1>1. DOMAIN h = 1 .. Len(h) /\ Len(h) \in Nat /\ \A i \in 1 .. Len(h) : h[i] \in HeapItem
  OBVIOUS
<1>2. \A i \in 1 .. Len(h) : h[i].value \in Nat
  BY <1>1 DEF HeapItem
<1> QED BY <1>1, <1>2 DEF HeapOf

\* Distinct items belong to distinct entries.
LEMMA RefsDistinct ==
    ASSUME StoreInv, OneItemPerTtl, NEW i \in DOMAIN heap, NEW j \in DOMAIN heap,
           heap[i].ref = heap[j].ref
    PROVE  i = j
<1>1. heap[i] \in HeapItem
  BY DEF StoreInv
<1>2. PICK k \in Keys, n \in Nat \ {0} : heap[i].ref = <<k, n>>
  BY <1>1 DEF HeapItem
<1>3. n \in DOMAIN chain[k] /\ chain[k][n].heap_idx # None
  BY <1>2 DEF StoreInv, RefsLive, Live, EntryAt
<1> QED BY <1>2, <1>3, Zenon DEF OneItemPerTtl

-----------------------------------------------------------------------------
(* add_to_heap and the second layer.                                       *)
LEMMA AddTtl ==
    ASSUME StoreInv, TtlInv, NEW k \in Keys, NEW e \in Nat, Adds(k, e)
    PROVE  TtlInv' /\ Len(heap') = Len(heap) + 1
<1> DEFINE end == Len(heap) + 1
           ref == <<k, Top(k)>>
           item == [value |-> e, ref |-> ref]
           appended == Append(heap, item)
           pushed == sift_up(appended, end)
           w == WriteRefs(chain, pushed, UpPath(appended, end))
           indexed == [w EXCEPT ![k][Top(k)].heap_idx = end]
<1>1. /\ chain[k] \in Seq(Entry) /\ Top(k) \in Nat \ {0} /\ Top(k) \in DOMAIN chain[k]
      /\ Len(heap) \in Nat /\ end \in Nat /\ heap \in Seq(HeapItem) /\ chain \in Chains
  BY DEF StoreInv, Chains, Adds, Found, Top
<1>2. item \in HeapItem /\ item.ref = ref /\ item.value = e
  BY <1>1 DEF HeapItem
<1> HIDE DEF item
<1>3. /\ appended \in Seq(HeapItem) /\ Len(appended) = end
      /\ DOMAIN appended = 1 .. end /\ DOMAIN heap = 1 .. Len(heap)
      /\ \A i \in DOMAIN heap : appended[i] = heap[i]
      /\ appended[end] = item
  BY <1>1, <1>2
<1>4. heap' = update(pushed, end) /\ chain' = WriteRefs(indexed, heap', UpdatePath(pushed, end))
  BY DEF Adds, add_to_heap, item
<1> HIDE DEF appended
\* The order.
<1>5. HeapOf(appended, end) /\ end \in 1 .. end
  BY <1>1, <1>3, ItemsHeapOf
<1>6. Ordered(pushed)
  <2>1. ASSUME NEW i \in 1 .. end, i > 1, i # end
        PROVE  appended[parent(i)].value <= appended[i].value
    <3>1. i \in DOMAIN heap /\ parent(i) \in DOMAIN heap
      BY <1>1, <1>3, <2>1, ParentFacts
    <3>2. heap[parent(i)].value <= heap[i].value
      BY <2>1, <3>1 DEF TtlInv, HeapOrdered
    <3> QED BY <1>3, <3>1, <3>2
  <2>2. ASSUME NEW i \in 1 .. end, i > 1, parent(i) = end
        PROVE  FALSE
    BY <1>1, <2>2, ParentFacts
  <2> QED BY <1>5, <2>1, <2>2, SiftUpOrders
<1>7. /\ Permutes(appended, pushed)
      /\ Rearranges(appended, pushed)
      /\ UpPath(appended, end) \in SUBSET DOMAIN appended
  BY <1>3, <1>5, SiftUpPermutes, SiftUpRearranges, UpPathInHeap
<1> HIDE DEF pushed
<1>8. pushed \in Seq(HeapItem) /\ Len(pushed) = end /\ DOMAIN pushed = 1 .. end
  BY <1>3, <1>7 DEF Rearranges
<1>9. HeapOf(pushed, end)
  BY <1>8, ItemsHeapOf
<1>10. Ordered(heap')
  <2>1. \A i \in 1 .. end : i > 1 => pushed[parent(i)].value <= pushed[i].value
    BY <1>6, <1>8 DEF Ordered
  <2>2. ASSUME NEW i \in 1 .. end, i > 1, end > 1, parent(i) = end PROVE FALSE
    BY <1>1, <2>2, ParentFacts
  <2> QED BY <1>4, <1>5, <1>9, <2>1, <2>2, UpdateOrders
<1>11. HeapOrdered'
  BY <1>10 DEF HeapOrdered, Ordered
<1>12. Permutes(pushed, heap') /\ UpdatePath(pushed, end) \subseteq 1 .. end
  BY <1>4, <1>5, <1>9, UpdatePermutes
<1>13. Len(heap') = end
  <2>1. Rearranges(pushed, heap')
    BY <1>4, <1>5, <1>8, UpdateRearranges
  <2> QED BY <1>8, <2>1 DEF Rearranges
\* The owners.
<1>14. chain[k][Top(k)].heap_idx = None
  BY DEF Adds, find_entry
<1>15. \A i \in DOMAIN heap : heap[i].ref # ref
  BY <1>14 DEF StoreInv, RefsLive, Live, EntryAt
<1>16. OneItem(appended, ref)
  <2>1. \A j \in DOMAIN appended : appended[j].ref = ref <=> end = j
    BY <1>1, <1>2, <1>3, <1>15
  <2>2. end \in DOMAIN appended
    BY <1>3, <1>5
  <2> QED BY <2>1, <2>2, Zenon DEF OneItem
<1>17. ASSUME NEW j \in Keys, NEW n \in DOMAIN chain[j], chain[j][n].heap_idx # None
       PROVE  OneItem(appended, <<j, n>>)
  <2>1. PICK i \in DOMAIN heap : \A m \in DOMAIN heap : heap[m].ref = <<j, n>> <=> i = m
    BY <1>17 DEF TtlInv, OneItemPerTtl
  <2>2. <<j, n>> # ref
    BY <1>14, <1>17
  <2>3. i \in DOMAIN appended /\ \A m \in DOMAIN appended : appended[m].ref = <<j, n>> <=> i = m
    BY <1>1, <1>2, <1>3, <2>1, <2>2
  <2> QED BY <2>3 DEF OneItem
<1>18. ASSUME NEW j \in Keys, NEW n \in DOMAIN chain[j],
              \/ \E i \in DOMAIN appended : appended[i].ref = <<j, n>>
              \/ chain[j][n].heap_idx # None
       PROVE  OneItem(heap', <<j, n>>)
  <2>1. CASE <<j, n>> = ref
    BY <1>7, <1>12, <1>16, <2>1, PermutesOneItem
  <2>2. CASE <<j, n>> # ref
    <3>1. chain[j][n].heap_idx # None
      <4>1. CASE \E i \in DOMAIN heap : heap[i].ref = <<j, n>>
        BY <4>1 DEF StoreInv, RefsLive, Live, EntryAt
      <4> QED BY <1>1, <1>2, <1>3, <1>18, <2>2, <4>1
    <3> QED BY <1>7, <1>12, <1>17, <3>1, PermutesOneItem
  <2> QED BY <2>1, <2>2
<1>19. /\ \A i \in DOMAIN pushed : \E j \in DOMAIN appended : pushed[i] = appended[j]
       /\ \A i \in DOMAIN heap' : \E j \in DOMAIN pushed : heap'[i] = pushed[j]
       /\ DOMAIN heap' = DOMAIN pushed
  BY <1>7, <1>12, PermutesItems
<1>20. w \in Chains /\ \A j \in Keys : DOMAIN w[j] = DOMAIN chain[j]
  BY <1>1, <1>3, <1>7, <1>8, WriteRefsLemma
<1>w. w = WriteRefs(chain, pushed, UpPath(appended, end))
  OBVIOUS
<1> HIDE DEF w
<1>21. ASSUME NEW j \in Keys, NEW n \in DOMAIN chain[j], w[j][n].heap_idx # None
       PROVE  OneItem(heap', <<j, n>>)
  <2>1. UpPath(appended, end) \in SUBSET Nat
    BY <1>3, <1>7
  <2>2. \/ \E i \in UpPath(appended, end) : pushed[i].ref = <<j, n>>
        \/ w[j][n] = chain[j][n]
    <3>1. Written(chain, w, pushed, UpPath(appended, end), j, n)
      BY <1>1, <1>w, <2>1, WriteRefsExact, Zenon
    <3> QED BY <3>1, Zenon DEF Written
  <2>3. CASE \E i \in UpPath(appended, end) : pushed[i].ref = <<j, n>>
    <3>1. PICK i \in DOMAIN pushed : pushed[i].ref = <<j, n>>
      BY <1>3, <1>7, <1>8, <2>3
    <3>2. PICK m \in DOMAIN appended : pushed[i] = appended[m]
      BY <1>19
    <3> QED BY <1>18, <3>1, <3>2
  <2>4. CASE w[j][n] = chain[j][n]
    BY <1>18, <1>21, <2>4
  <2> QED BY <2>2, <2>3, <2>4
<1>22. /\ indexed \in Chains
       /\ \A j \in Keys : DOMAIN indexed[j] = DOMAIN chain[j]
       /\ \A j \in Keys : \A n \in DOMAIN chain[j] :
             <<j, n>> = ref \/ indexed[j][n] = w[j][n]
  <2>1. w[k] \in Seq(Entry) /\ w[k][Top(k)] \in Entry /\ DOMAIN w[k] = DOMAIN chain[k]
    BY <1>1, <1>20 DEF Chains
  <2> DEFINE top == [w[k][Top(k)] EXCEPT !.heap_idx = end]
             col == [w[k] EXCEPT ![Top(k)] = top]
  <2>2. top \in Entry
    BY <1>1, <2>1 DEF Entry
  <2>3. indexed = [w EXCEPT ![k] = col]
    OBVIOUS
  <2> HIDE DEF top, indexed
  <2>4. /\ col \in Seq(Entry) /\ DOMAIN col = DOMAIN chain[k]
        /\ \A n \in DOMAIN chain[k] : n = Top(k) \/ col[n] = w[k][n]
    BY <1>1, <2>1, <2>2
  <2> HIDE DEF col
  <2>5. \A j \in Keys : indexed[j] = IF j = k THEN col ELSE w[j]
    BY <1>20, <2>3 DEF Chains
  <2>6. indexed \in Chains
    BY <1>20, <2>3, <2>4 DEF Chains
  <2> QED BY <1>20, <2>4, <2>5, <2>6
<1> HIDE DEF indexed
<1>23. ASSUME NEW j \in Keys, NEW n \in DOMAIN chain'[j], chain'[j][n].heap_idx # None
       PROVE  OneItem(heap', <<j, n>>)
  <2>1. UpdatePath(pushed, end) \in SUBSET Nat
    BY <1>1, <1>12
  <2>2. /\ n \in DOMAIN indexed[j] /\ n \in DOMAIN chain[j]
        /\ \/ \E i \in UpdatePath(pushed, end) : heap'[i].ref = <<j, n>>
           \/ chain'[j][n] = indexed[j][n]
    <3>1. DOMAIN chain'[j] = DOMAIN indexed[j]
      BY <1>4, <1>22, Zenon DEF WriteRefs
    <3>2. n \in DOMAIN indexed[j] /\ n \in DOMAIN chain[j]
      BY <1>22, <3>1
    <3>3. Written(indexed, chain', heap', UpdatePath(pushed, end), j, n)
      BY <1>4, <1>22, <2>1, <3>2, WriteRefsExact, Zenon
    <3> QED BY <3>2, <3>3, Zenon DEF Written
  <2>3. CASE \E i \in UpdatePath(pushed, end) : heap'[i].ref = <<j, n>>
    <3>1. PICK i \in DOMAIN heap' : heap'[i].ref = <<j, n>>
      BY <1>8, <1>12, <1>19, <2>3
    <3>2. PICK m \in DOMAIN pushed : heap'[i] = pushed[m]
      BY <1>19
    <3>3. PICK o \in DOMAIN appended : pushed[m] = appended[o]
      BY <1>19
    <3>4. appended[o].ref = <<j, n>>
      BY <3>1, <3>2, <3>3
    <3> QED BY <1>18, <2>2, <3>4
  <2>4. CASE <<j, n>> = ref
    BY <1>7, <1>12, <1>16, <2>4, PermutesOneItem
  <2>5. CASE chain'[j][n] = indexed[j][n] /\ <<j, n>> # ref
    BY <1>21, <1>22, <1>23, <2>2, <2>5
  <2> QED BY <2>2, <2>3, <2>4, <2>5
<1>24. OneItemPerTtl'
  BY <1>23, Zenon DEF OneItemPerTtl, OneItem
<1> QED BY <1>11, <1>13, <1>24 DEF TtlInv
(* update_heap and the second layer: writing the wrong item's deadline     *)
(* loses no item, breaks no order and spoils no index that was right.      *)
LEMMA UpdateTtl ==
    ASSUME StoreInv, TtlInv, NEW k \in Keys, NEW e \in Nat, Updates(k, e)
    PROVE  TtlInv' /\ (RefExact => RefExact')
<1> DEFINE pos == find_entry(k).heap_idx
           written == [heap EXCEPT ![pos].value = e]
           path == UpdatePath(written, pos)
           n == Len(heap)
<1>1. chain \in Chains /\ heap \in Seq(HeapItem) /\ n \in Nat /\ DOMAIN heap = 1 .. n
  BY DEF StoreInv
<1>2. pos \in DOMAIN heap
  <2>1. Top(k) \in DOMAIN chain[k]
    BY DEF StoreInv, Chains, Updates, Found, Top
  <2> QED BY <2>1 DEF StoreInv, IdxInHeap, Updates, find_entry
<1>3. heap' = update(written, pos) /\ chain' = WriteRefs(chain, heap', path)
  BY <1>2 DEF Updates, update_heap
<1>4. heap[pos] \in HeapItem
  BY <1>1, <1>2
<1>5. /\ [heap[pos] EXCEPT !.value = e] \in HeapItem
      /\ [heap[pos] EXCEPT !.value = e].ref = heap[pos].ref
  BY <1>4 DEF HeapItem
<1>6. /\ written \in Seq(HeapItem) /\ DOMAIN written = 1 .. n /\ Len(written) = n
      /\ \A i \in 1 .. n : written[i].ref = heap[i].ref
      /\ \A i \in 1 .. n : i # pos => written[i] = heap[i]
  BY <1>1, <1>2, <1>4, <1>5
<1>p. pos \in 1 .. n
  BY <1>1, <1>2
<1> HIDE DEF written, pos
<1>7. HeapOf(written, n)
  BY <1>6, ItemsHeapOf
<1>8. \A i \in 1 .. n : i > 1 => heap[parent(i)].value <= heap[i].value
  BY <1>1 DEF TtlInv, HeapOrdered
<1>9. Ordered(heap')
  <2>1. ASSUME NEW i \in 1 .. n, i > 1 PROVE parent(i) \in 1 .. n
    BY <1>1, <2>1, ParentFacts
  <2>2. ASSUME NEW i \in 1 .. n, i > 1, i # pos, parent(i) # pos
        PROVE  written[parent(i)].value <= written[i].value
    BY <1>6, <1>8, <2>1, <2>2
  <2>3. ASSUME NEW i \in 1 .. n, i > 1, pos > 1, parent(i) = pos
        PROVE  written[parent(pos)].value <= written[i].value
    <3>1. /\ parent(pos) \in 1 .. n /\ parent(pos) # pos /\ i # pos
          /\ i \in Nat /\ pos \in Nat
      BY <1>1, <1>p, <2>1, <2>3, ParentFacts
    <3>2. /\ heap[i].value \in Nat /\ heap[pos].value \in Nat /\ heap[parent(pos)].value \in Nat
      <4>1. HeapOf(heap, n)
        BY <1>1, ItemsHeapOf
      <4> QED BY <1>p, <3>1, <4>1 DEF HeapOf
    <3>3. heap[parent(pos)].value <= heap[pos].value /\ heap[pos].value <= heap[i].value
      BY <1>p, <1>8, <2>3
    <3>4. heap[parent(pos)].value <= heap[i].value
      BY <3>2, <3>3
    <3> QED BY <1>6, <3>1, <3>4
  <2> QED BY <1>3, <1>7, <1>p, <2>2, <2>3, UpdateOrders
<1>10. HeapOrdered'
  BY <1>9 DEF HeapOrdered, Ordered
<1>11. /\ Permutes(written, heap') /\ path \subseteq 1 .. n
       /\ \A i \in 1 .. n : i \notin path => heap'[i] = written[i]
  BY <1>3, <1>7, <1>p, UpdatePermutes
<1> HIDE DEF path
<1>12. /\ DOMAIN heap' = 1 .. n
       /\ \A i \in 1 .. n : \E j \in 1 .. n : heap'[i] = written[j]
  <2>1. /\ DOMAIN heap' = DOMAIN written
        /\ \A i \in DOMAIN heap' : \E j \in DOMAIN written : heap'[i] = written[j]
    BY <1>11, PermutesItems
  <2> QED BY <1>6, <2>1
<1>13. \A i \in 1 .. n : \E j \in 1 .. n : heap'[i].ref = heap[j].ref
  BY <1>6, <1>12
<1>14. ASSUME NEW j \in Keys, NEW m \in DOMAIN chain[j], chain[j][m].heap_idx # None
       PROVE  OneItem(heap', <<j, m>>)
  <2>1. PICK i \in DOMAIN heap : \A o \in DOMAIN heap : heap[o].ref = <<j, m>> <=> i = o
    BY <1>14 DEF TtlInv, OneItemPerTtl
  <2>2. OneItem(written, <<j, m>>)
    <3>1. i \in DOMAIN written /\ \A o \in DOMAIN written : written[o].ref = <<j, m>> <=> i = o
      BY <1>1, <1>6, <2>1
    <3> QED BY <3>1, Zenon DEF OneItem
  <2> QED BY <1>11, <2>2, PermutesOneItem
<1>15. ASSUME NEW j \in Keys, NEW m \in DOMAIN chain[j]
       PROVE  Written(chain, chain', heap', path, j, m)
  <2>1. path \in SUBSET Nat
    BY <1>1, <1>11
  <2> QED BY <1>1, <1>3, <2>1, WriteRefsExact, Zenon
<1>16. \A j \in Keys : DOMAIN chain'[j] = DOMAIN chain[j]
  BY <1>3, Zenon DEF WriteRefs
<1>17. ASSUME NEW j \in Keys, NEW m \in DOMAIN chain'[j], chain'[j][m].heap_idx # None
       PROVE  OneItem(heap', <<j, m>>)
  <2>1. m \in DOMAIN chain[j]
    BY <1>16
  <2>2. CASE \E i \in path : heap'[i].ref = <<j, m>>
    <3>1. PICK o \in 1 .. n : heap[o].ref = <<j, m>>
      BY <1>11, <1>13, <2>2
    <3>2. chain[j][m].heap_idx # None
      BY <1>1, <3>1 DEF StoreInv, RefsLive, Live, EntryAt
    <3> QED BY <1>14, <2>1, <3>2
  <2>3. CASE chain'[j][m] = chain[j][m]
    BY <1>14, <1>17, <2>1, <2>3
  <2> QED BY <1>15, <2>1, <2>2, <2>3, Zenon DEF Written
<1>18. OneItemPerTtl'
  BY <1>17, Zenon DEF OneItemPerTtl, OneItem
<1>19. ASSUME RefExact, NEW i \in DOMAIN heap'
       PROVE  chain'[heap'[i].ref[1]][heap'[i].ref[2]].heap_idx = i
  <2>1. PICK o \in 1 .. n : heap'[i].ref = heap[o].ref
    BY <1>12, <1>13
  <2>2. heap[o] \in HeapItem
    BY <1>1
  <2>3. PICK j \in Keys, m \in Nat \ {0} : heap[o].ref = <<j, m>>
    BY <2>2 DEF HeapItem
  <2>4. m \in DOMAIN chain[j] /\ chain[j][m].heap_idx # None
    BY <1>1, <2>3 DEF StoreInv, RefsLive, Live, EntryAt
  <2>5. PICK u \in DOMAIN heap' : \A v \in DOMAIN heap' : heap'[v].ref = <<j, m>> <=> u = v
    BY <1>14, <2>4 DEF OneItem
  <2>6. heap'[i].ref = <<j, m>> /\ u = i
    BY <1>19, <2>1, <2>3, <2>5
  <2>7. Written(chain, chain', heap', path, j, m)
    BY <1>15, <2>4
  <2>8. CASE i \in path
    <3>1. \A v \in path : heap'[v].ref = <<j, m>> <=> v = i
      BY <1>11, <1>12, <2>5, <2>6
    <3>2. chain'[j][m].heap_idx = i
      BY <2>7, <2>8, <3>1, Zenon DEF Written
    <3> QED BY <2>6, <3>2
  <2>9. CASE i \notin path
    <3>1. heap[i].ref = <<j, m>> /\ i \in DOMAIN heap
      BY <1>1, <1>6, <1>11, <1>12, <2>6, <2>9
    <3>2. chain[j][m].heap_idx = i
      BY <1>19, <3>1 DEF RefExact, EntryAt
    <3>3. chain'[j][m] = chain[j][m]
      BY <1>11, <1>12, <2>5, <2>6, <2>7, <2>9 DEF Written
    <3> QED BY <2>6, <3>2, <3>3
  <2> QED BY <2>8, <2>9
<1>20. RefExact => RefExact'
  BY <1>19 DEF RefExact, EntryAt
<1> QED BY <1>10, <1>18, <1>20 DEF TtlInv

\* Steps that leave the heap alone.
LEMMA KeepsTtl ==
    ASSUME StoreInv, StoreInv', TtlInv, Keeps
    PROVE  TtlInv' /\ (RefExact => RefExact')
<1>1. HeapOrdered'
  BY DEF TtlInv, HeapOrdered, Keeps
<1>2. OneItemPerTtl'
  <2> SUFFICES ASSUME NEW k \in Keys, NEW n \in DOMAIN chain'[k], chain'[k][n].heap_idx # None
               PROVE  \E i \in DOMAIN heap' : \A j \in DOMAIN heap' :
                          heap'[j].ref = <<k, n>> <=> i = j
    BY Zenon DEF OneItemPerTtl
  <2>1. n \in DOMAIN chain[k] /\ chain[k][n].heap_idx # None /\ heap' = heap
    BY DEF Keeps
  <2> QED BY <2>1, Zenon DEF TtlInv, OneItemPerTtl
<1>3. ASSUME RefExact, NEW i \in DOMAIN heap'
      PROVE  chain'[heap'[i].ref[1]][heap'[i].ref[2]].heap_idx = i
  <2>1. heap' = heap /\ heap[i] \in HeapItem
    BY <1>3 DEF Keeps, StoreInv
  <2>2. PICK k \in Keys, n \in Nat \ {0} : heap[i].ref = <<k, n>>
    BY <2>1 DEF HeapItem
  <2>3. n \in DOMAIN chain'[k] /\ chain'[k][n].heap_idx # None
    BY <1>3, <2>1, <2>2 DEF StoreInv, RefsLive, Live, EntryAt
  <2>4. chain'[k][n] = chain[k][n]
    BY <2>3 DEF Keeps
  <2>5. chain[k][n].heap_idx = i
    BY <1>3, <2>1, <2>2 DEF RefExact, EntryAt
  <2> QED BY <2>1, <2>2, <2>4, <2>5
<1> QED BY <1>1, <1>2, <1>3 DEF TtlInv, RefExact, EntryAt

LEMMA FlushTtl ==
    ASSUME Flushes
    PROVE  TtlInv' /\ RefExact'
<1>1. heap' = <<>> /\ chain' = [k \in Keys |-> <<>>]
  BY DEF Flushes
<1>2. DOMAIN heap' = {} /\ \A k \in Keys : DOMAIN chain'[k] = {}
  BY <1>1
<1> QED BY <1>2 DEF TtlInv, OneItemPerTtl, HeapOrdered, RefExact

LEMMA NextTtlInv ==
    ASSUME IInv, TtlInv, [Next]_vars
    PROVE  TtlInv' /\ (RefExact /\ Len(heap') = Len(heap) => RefExact')
<1>1. StoreInv /\ StoreInv'
  BY NextIInv DEF IInv, DataInv
<1>2. Len(heap) \in Nat
  BY <1>1 DEF StoreInv
<1>3. CASE Keeps
  BY <1>1, <1>3, KeepsTtl
<1>4. CASE Flushes
  BY <1>4, FlushTtl
<1>5. ASSUME NEW k \in Keys, NEW e \in Nat, Adds(k, e)
      PROVE  TtlInv' /\ (RefExact /\ Len(heap') = Len(heap) => RefExact')
  BY <1>1, <1>2, <1>5, AddTtl
<1>6. ASSUME NEW k \in Keys, NEW e \in Nat, Updates(k, e)
      PROVE  TtlInv' /\ (RefExact /\ Len(heap') = Len(heap) => RefExact')
  BY <1>1, <1>6, UpdateTtl
<1> QED BY <1>3, <1>4, <1>5, <1>6, StoreSteps, Zenon

\* Both layers hold in every reachable state.
LEMMA TtlInvariance == Spec => [](IInv /\ TtlInv)
<1>1. Init => TtlInv
  <2> SUFFICES ASSUME Init PROVE TtlInv
    OBVIOUS
  <2>1. DOMAIN heap = {} /\ \A k \in Keys : DOMAIN chain[k] = {}
    BY DEF Init
  <2> QED BY <2>1 DEF TtlInv, OneItemPerTtl, HeapOrdered
<1>2. IInv /\ TtlInv /\ [Next]_vars => TtlInv'
  BY NextTtlInv
<1> QED BY <1>1, <1>2, InitIInv, NextIInv, PTL DEF Spec

(***************************************************************************)
(* set_entry_ttl never gives an entry a second item and never loses the    *)
(* one it has, although add_to_heap stores a wrong index and update_heap   *)
(* then works on another entry's item.                                     *)
(***************************************************************************)
THEOREM EachTtlHasOneItem == Spec => []OneItemPerTtl
BY TtlInvariance, PTL DEF TtlInv

(***************************************************************************)
(* The TTL heap is in heap order after any sequence of commands, for any   *)
(* number of keys: the sift loops of heap.hpp repair whatever item         *)
(* update_heap writes.                                                     *)
(***************************************************************************)
THEOREM DeadlinesOrdered == Spec => []HeapOrdered
BY TtlInvariance, PTL DEF TtlInv

(***************************************************************************)
(* Only a step that adds an item can make an exact index inexact: the      *)
(* store after the push in add_to_heap is the one place where heap_idx     *)
(* goes wrong.                                                             *)
(***************************************************************************)
THEOREM OnlyPushesSpoilRefs == Spec => UpdateKeepsRefsExact
<1>1. IInv /\ TtlInv /\ [Next]_vars
        => [RefExact /\ Len(heap') = Len(heap) => RefExact']_vars
  BY NextTtlInv
<1> QED BY <1>1, TtlInvariance, PTL DEF Spec, UpdateKeepsRefsExact
-----------------------------------------------------------------------------
(* Commands that are abandoned.                                            *)

\* Every entry stored before the step is still in its place.
KeepsData ==
    \A k \in Keys : \A n \in DOMAIN chain[k] :
        n \in DOMAIN chain'[k] /\ chain'[k][n] = chain[k][n]

LEMMA AbandonedStep ==
    ASSUME IInv, [Next]_vars, last'.reply \in {closed, lost}
    PROVE  KeepsData
<1>0. DataInv
  BY DEF IInv
<1>1. ASSUME NEW cmd, NEW k, NEW n, Reply(cmd, k, int(n)) PROVE FALSE
  BY <1>1 DEF Reply, int, closed, lost
<1>2. ASSUME NEW cmd, NEW k, NEW n, Reply(cmd, k, str(n)) PROVE FALSE
  BY <1>2 DEF Reply, str, closed, lost
<1>3. ASSUME UNCHANGED chain PROVE KeepsData
  BY <1>3 DEF KeepsData
<1>4. ASSUME NEW k \in Keys, Found(k), NEW cmd, delete_entry(cmd, k) PROVE KeepsData
  <2>1. CASE find_entry(k).heap_idx \in DOMAIN heap
    BY <1>3, <1>4, <2>1 DEF delete_entry
  <2>2. CASE find_entry(k).heap_idx \notin DOMAIN heap
    BY <1>1, <1>4, <2>2 DEF delete_entry
  <2> QED BY <2>1, <2>2
<1>5. ASSUME NEW k \in Keys,
             handle_get(k) \/ handle_exists(k) \/ handle_pttl(k) \/ handle_zrem(k)
      PROVE  KeepsData
  BY <1>3, <1>5 DEF handle_get, handle_exists, handle_pttl, handle_zrem, ReadOnly
<1>6. ASSUME process_invalid \/ Tick \/ UNCHANGED vars PROVE KeepsData
  BY <1>3, <1>6 DEF process_invalid, ReadOnly, Tick, vars
<1>7. ASSUME NEW k \in Keys, NEW v \in Vals, handle_set(k, v) PROVE KeepsData
  BY <1>2, <1>3, <1>7 DEF handle_set
<1>8. ASSUME NEW k \in Keys, handle_del(k) PROVE KeepsData
  BY <1>3, <1>4, <1>8 DEF handle_del
<1>9. ASSUME handle_flushall PROVE KeepsData
  BY <1>1, <1>9 DEF handle_flushall
<1>10. ASSUME NEW k \in Keys, handle_zadd(k) PROVE KeepsData
  <2>1. NewEntry("zset", NoVal) \in Entry /\ NewEntry("zset", NoVal).heap_idx = None
    BY DEF NewEntry, Entry, None
  <2>2. heap' = heap /\ (chain' = chain \/ create_entry(k, NewEntry("zset", NoVal)))
    BY <1>10 DEF handle_zadd
  <2> QED BY <1>0, <1>3, <2>1, <2>2, CreateStep DEF KeepsData
<1>11. ASSUME NEW k \in Keys, NEW ttl \in TTLs, handle_pexpire(k, ttl) PROVE KeepsData
  <2>1. CASE ~Found(k)
    BY <1>3, <1>11, <2>1 DEF handle_pexpire
  <2>2. CASE Found(k) /\ ttl = 0
    BY <1>4, <1>11, <2>2 DEF handle_pexpire
  <2>3. CASE Found(k) /\ ttl # 0
    BY <1>1, <1>11, <2>3 DEF handle_pexpire
  <2> QED BY <2>1, <2>2, <2>3
<1> QED BY <1>5, <1>6, <1>7, <1>8, <1>9, <1>10, <1>11, Zenon DEF Next

(***************************************************************************)
(* A command that an exception abandons, or that never returns, keeps      *)
(* every entry that was stored before it: the second lock is always taken  *)
(* before anything is moved or removed.                                    *)
(***************************************************************************)
THEOREM AbandonedCommandsLoseNothing == Spec => AbandonedCommandKeepsData
<1>1. IInv /\ [Next]_vars
        => [last'.reply \in {closed, lost} =>
               \A k \in Keys : \A n \in DOMAIN chain[k] :
                   n \in DOMAIN chain'[k] /\ chain'[k][n] = chain[k][n]]_vars
  BY AbandonedStep DEF KeepsData
<1> QED BY <1>1, Invariance, PTL DEF Spec, AbandonedCommandKeepsData
=============================================================================
