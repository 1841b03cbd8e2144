----------------------------- MODULE HnswProofs -----------------------------
(***************************************************************************)
(* Proofs about the vector index for any number of threads, labels, points *)
(* and levels and any capacity: the marks of deleted elements, the label   *)
(* map and the entry point; then the neighbor lists and the link locks,    *)
(* down to the folds that select neighbors and visit candidates.           *)
(***************************************************************************)
EXTENDS Hnsw, FiniteSetTheorems, SequenceTheorems, WellFoundedInduction, TLAPS

(***************************************************************************)
(* The locals the proofs are about.                                        *)
(***************************************************************************)
Local == {"pc", "upd", "label", "id", "p", "level", "max", "ep", "ep_deleted", "obj", "d", "lev",
          "search", "pending", "nbrs", "cands"}

\* Locals a thread can have: an update never goes through the steps of an insertion.
Sane(c) ==
    /\ DOMAIN c = Local /\ c.upd \in BOOLEAN
    /\ c.pc \in {"global", "entry", "publish"} => c.upd = FALSE
    /\ c.pc = "idle" => c = Idle
    /\ c.upd = FALSE => c.level \in Nat
    /\ c.pc \in {"global", "entry"} => c.label \in Labels

\* A call on a label works on an element; the steps of an update are not those of a deletion.
OpPcs == {"none", "mark", "keep", "unmark", "exists", "erase", "relabel", "update"}
Ops == [pc : OpPcs, upd : BOOLEAN, id : Nat, p : Int]
SaneOp(o) ==
    /\ o.pc \in {"exists", "relabel", "update"} => o.upd
    /\ o.pc \in {"none", "mark", "keep"} => ~o.upd

OpInv ==
    /\ op \in [Labels -> Ops]
    /\ \A l \in Labels : SaneOp(op[l]) /\ (op[l].pc # "none" => op[l].id \in Elements)

TypeInv ==
    /\ capacity_ \in 0 .. MaxCapacity /\ element_count_ \in 0 .. capacity_
    /\ element_levels_ \in [Ids -> Nat]
    /\ label \in [Ids -> Labels \cup {Free}]
    /\ label_map_ \in [Labels -> Elements \cup {None}]
    /\ link_locks_ \in [Ids -> Threads \cup {Free}]
    /\ global_lock_ \in Threads \cup {Free}
    /\ max_level_ \in Int
    /\ reuse_deleted_ \in BOOLEAN
    /\ th = [t \in Threads |-> th[t]]
    /\ \A t \in Threads : Sane(th[t])
    /\ OpInv

\* What a thread that goes on inside a call keeps.
Walked(c, d) ==
    /\ DOMAIN d = Local /\ d.upd \in BOOLEAN
    /\ \/ d = Idle /\ c.upd
       \/ /\ d.id = c.id /\ d.label = c.label /\ d.level = c.level
          /\ d.max = c.max /\ d.upd = c.upd
          /\ d.pc \notin {"idle", "global", "entry"}
          /\ d.pc = "publish" => ~d.upd

\* A step of one thread inside a call that touches only the lists and its locals.
Walk(t) ==
    /\ th[t].pc \notin {"idle", "global", "entry", "publish"}
    /\ \E d : Walked(th[t], d) /\ th' = [th EXCEPT ![t] = d]
    /\ UNCHANGED <<element_levels_, marks, names, top, link_locks_, global_lock_, op, history>>

LEMMA IdleFacts ==
    /\ DOMAIN Idle = Local
    /\ Idle.pc = "idle" /\ Idle.upd = FALSE /\ Idle.label = Free /\ Idle.id = 0
    /\ Idle.level = 0
BY DEF Idle, Local

\* StartSearch, StartLevels, StartDescent, LevelDone and NextLayer go on inside the call.
LEMMA StartSearchWalks ==
    ASSUME NEW c, DOMAIN c = Local, c.upd \in BOOLEAN, NEW obj, NEW lev
    PROVE  Walked(c, StartSearch(c, obj, lev))
BY DEF StartSearch, Walked, Local

LEMMA StartLevelsWalks ==
    ASSUME NEW c, DOMAIN c = Local, c.upd \in BOOLEAN, NEW obj
    PROVE  Walked(c, StartLevels(c, obj))
<1> DEFINE e == [c EXCEPT !.ep_deleted = c.ep \in deleted]
           lev == IF c.level < c.max THEN c.level ELSE c.max
<1>1. /\ DOMAIN e = Local /\ e.upd = c.upd /\ e.id = c.id /\ e.label = c.label
      /\ e.level = c.level /\ e.max = c.max
  BY DEF Local
<1>2. StartLevels(c, obj) = StartSearch(e, obj, lev)
  BY DEF StartLevels
<1> HIDE DEF e, lev
<1>3. Walked(e, StartSearch(e, obj, lev))
  BY <1>1, StartSearchWalks
<1> QED BY <1>1, <1>2, <1>3 DEF Walked

LEMMA StartDescentWalks ==
    ASSUME NEW c, DOMAIN c = Local, c.upd \in BOOLEAN
    PROVE  Walked(c, StartDescent(c))
<1>1. CASE c.level < c.max
  <2>1. StartDescent(c) = [c EXCEPT !.pc = "descend", !.obj = c.ep, !.lev = c.max,
                                    !.d = distance(c.p, data[c.ep])]
    BY <1>1 DEF StartDescent
  <2> QED BY <2>1 DEF Walked, Local
<1>2. CASE ~(c.level < c.max)
  BY <1>2, StartLevelsWalks DEF StartDescent
<1> QED BY <1>1, <1>2

LEMMA LevelDoneWalks ==
    ASSUME NEW c, DOMAIN c = Local, c.upd \in BOOLEAN, NEW obj
    PROVE  Walked(c, LevelDone(c, obj))
<1>1. CASE c.lev > 0
  <2> DEFINE e == [c EXCEPT !.pending = << >>]
  <2>1. /\ DOMAIN e = Local /\ e.upd = c.upd /\ e.id = c.id /\ e.label = c.label
        /\ e.level = c.level /\ e.max = c.max
    BY DEF Local
  <2>2. LevelDone(c, obj) = StartSearch(e, obj, c.lev - 1)
    BY <1>1 DEF LevelDone
  <2> HIDE DEF e
  <2>3. Walked(e, StartSearch(e, obj, c.lev - 1))
    BY <2>1, StartSearchWalks
  <2> QED BY <2>1, <2>2, <2>3 DEF Walked
<1>2. CASE ~(c.lev > 0) /\ c.upd
  BY <1>2, IdleFacts DEF LevelDone, Walked
<1>3. CASE ~(c.lev > 0) /\ ~c.upd
  BY <1>3 DEF LevelDone, Walked, Local
<1> QED BY <1>1, <1>2, <1>3

LEMMA NextLayerWalks ==
    ASSUME NEW c, DOMAIN c = Local, c.upd \in BOOLEAN
    PROVE  Walked(c, NextLayer(c))
<1> DEFINE n == [c EXCEPT !.pending = << >>, !.nbrs = << >>, !.cands = {}]
<1>1. /\ DOMAIN n = Local /\ n.upd = c.upd /\ n.id = c.id /\ n.label = c.label
      /\ n.level = c.level /\ n.max = c.max
  BY DEF Local
<1>2. NextLayer(c) = IF c.lev < c.level THEN [n EXCEPT !.pc = "onehop", !.lev = @ + 1]
                     ELSE IF c.level > c.max THEN [n EXCEPT !.pc = "error"]
                     ELSE StartDescent(n)
  BY DEF NextLayer
<1> HIDE DEF n
<1>3. Walked(n, [n EXCEPT !.pc = "onehop", !.lev = @ + 1])
  BY <1>1 DEF Walked, Local
<1>4. Walked(n, [n EXCEPT !.pc = "error"])
  BY <1>1 DEF Walked, Local
<1>5. Walked(n, StartDescent(n))
  BY <1>1, StartDescentWalks
<1>6. \A d : Walked(n, d) => Walked(c, d)
  BY <1>1 DEF Walked
<1> QED BY <1>2, <1>3, <1>4, <1>5, <1>6
\* Walked through a copy of the locals that has the same call.
LEMMA WalkedTrans ==
    ASSUME NEW c, NEW e, NEW d, Walked(e, d),
           e.upd = c.upd, e.id = c.id, e.label = c.label, e.level = c.level, e.max = c.max
    PROVE  Walked(c, d)
BY DEF Walked

\* Changes of other locals.
LEMMA LocalWalks ==
    ASSUME NEW c, DOMAIN c = Local, c.upd \in BOOLEAN,
           c.pc \notin {"idle", "global", "entry", "publish"},
           NEW d, DOMAIN d = Local, d.upd = c.upd, d.id = c.id, d.label = c.label,
           d.level = c.level, d.max = c.max,
           d.pc \in {c.pc, "error", "search", "connect", "twohop", "rewire"}
    PROVE  Walked(c, d)
BY DEF Walked

-----------------------------------------------------------------------------
(* The steps inside a call.                                                *)
Still == UNCHANGED <<element_levels_, marks, names, top, link_locks_, global_lock_, op, history>>

LEMMA WalkIntro ==
    ASSUME NEW t \in Threads, th[t].pc \notin {"idle", "global", "entry", "publish"},
           NEW d, Walked(th[t], d), Step(t, d), Still
    PROVE  Walk(t)
BY Zenon DEF Walk, Step, Still

LEMMA DescendWalks ==
    ASSUME TypeInv, NEW t \in Threads, Descend(t)
    PROVE  Walk(t)
<1> DEFINE c == th[t]
           offers == {<<distance(c.p, data[x]), x>> : x \in Range(links[c.obj][c.lev])}
           better == {o \in offers : o[1] < c.d}
           d1 == Nearest(better)[1]
           o1 == Nearest(better)[2]
           e1 == [c EXCEPT !.d = d1, !.obj = o1]
           e2 == [c EXCEPT !.lev = @ - 1]
           e3 == StartLevels(c, c.obj)
<1>1. DOMAIN c = Local /\ c.upd \in BOOLEAN /\ c.pc = "descend" /\ Still
  BY DEF TypeInv, Sane, Descend, At, graph, Still
<1>2. Step(t, IF better # {} THEN e1 ELSE IF c.lev - 1 > c.level THEN e2 ELSE e3)
  BY Zenon DEF Descend
<1> HIDE DEF c, better, d1, o1
<1>3. Walked(c, e1)
  <2>1. /\ DOMAIN e1 = Local /\ e1.upd = c.upd /\ e1.id = c.id /\ e1.label = c.label
        /\ e1.level = c.level /\ e1.max = c.max /\ e1.pc = c.pc
    BY <1>1 DEF Local
  <2> HIDE DEF e1
  <2> QED BY <1>1, <2>1, LocalWalks
<1>4. Walked(c, e2)
  BY <1>1, LocalWalks DEF Local
<1>5. Walked(c, e3)
  BY <1>1, StartLevelsWalks
<1> HIDE DEF e1, e2, e3
<1>6. \E d : Walked(c, d) /\ Step(t, d)
  BY <1>2, <1>3, <1>4, <1>5
<1> QED BY <1>1, <1>6, WalkIntro DEF c

LEMMA BeginSearchWalks ==
    ASSUME TypeInv, NEW t \in Threads, BeginSearch(t)
    PROVE  Walk(t)
<1> DEFINE c == th[t]
           s == SearchFrom(c.obj, c.p)
           e == [c EXCEPT !.pc = "search", !.search = s]
<1>1. DOMAIN c = Local /\ c.upd \in BOOLEAN /\ c.pc = "start" /\ Still
  BY DEF TypeInv, Sane, BeginSearch, At, graph, Still
<1>2. Step(t, e)
  BY Zenon DEF BeginSearch
<1> HIDE DEF c, s
<1>3. Walked(c, e)
  <2>1. /\ DOMAIN e = Local /\ e.upd = c.upd /\ e.id = c.id /\ e.label = c.label
        /\ e.level = c.level /\ e.max = c.max /\ e.pc = "search"
    BY <1>1 DEF Local
  <2> HIDE DEF e
  <2> QED BY <1>1, <2>1, LocalWalks
<1> HIDE DEF e
<1> QED BY <1>1, <1>2, <1>3, WalkIntro DEF c

LEMMA SearchStepWalks ==
    ASSUME TypeInv, NEW t \in Threads, SearchStep(t)
    PROVE  Walk(t)
<1> DEFINE c == th[t]
           x == Nearest(c.search.K_Set)
           s == FoldLeft(LAMBDA s, y : Visit(s, c.p, y),
                         [c.search EXCEPT !.K_Set = @ \ {x}], links[x[2]][c.lev])
           e == [c EXCEPT !.search = s]
<1>1. DOMAIN c = Local /\ c.upd \in BOOLEAN /\ c.pc = "search" /\ Still
  BY DEF TypeInv, Sane, SearchStep, At, graph, Still
<1>2. Step(t, e)
  BY Zenon DEF SearchStep
<1> HIDE DEF c, s
<1>3. Walked(c, e)
  BY <1>1, LocalWalks DEF Local
<1> HIDE DEF e
<1> QED BY <1>1, <1>2, <1>3, WalkIntro DEF c
LEMMA ConnectOwnWalks ==
    ASSUME TypeInv, NEW t \in Threads, ConnectOwn(t)
    PROVE  Walk(t)
<1> DEFINE c == th[t]
           selected == Popped(getNeighborsByHeuristic2(Candidates(c), M_))
           last == Last(selected)
           e1 == LevelDone(c, c.obj)
           e2 == [c EXCEPT !.pc = "error"]
           e3 == [c EXCEPT !.pc = "connect", !.pending = selected, !.obj = last,
                           !.search = NoSearch]
<1>1. DOMAIN c = Local /\ c.upd \in BOOLEAN /\ c.pc = "search" /\ Still
  BY DEF TypeInv, Sane, ConnectOwn, At, Still
<1>2. Step(t, e1) \/ Step(t, e2) \/ Step(t, e3)
  BY Zenon DEF ConnectOwn
<1> HIDE DEF c, selected, last
<1>3. Walked(c, e1)
  BY <1>1, LevelDoneWalks
<1>4. Walked(c, e2)
  BY <1>1, LocalWalks DEF Local
<1>5. Walked(c, e3)
  <2>1. /\ DOMAIN e3 = Local /\ e3.upd = c.upd /\ e3.id = c.id /\ e3.label = c.label
        /\ e3.level = c.level /\ e3.max = c.max /\ e3.pc = "connect"
    BY <1>1 DEF Local
  <2> HIDE DEF e3
  <2> QED BY <1>1, <2>1, LocalWalks
<1> HIDE DEF e1, e2, e3
<1> QED BY <1>1, <1>2, <1>3, <1>4, <1>5, WalkIntro DEF c

LEMMA ConnectNeighborWalks ==
    ASSUME TypeInv, NEW t \in Threads, ConnectNeighbor(t)
    PROVE  Walk(t)
<1> DEFINE c == th[t]
           tail == Tail(c.pending)
           rest == [c EXCEPT !.pending = tail]
           e1 == [c EXCEPT !.pc = "error"]
           e2 == LevelDone(rest, c.obj)
<1>1. DOMAIN c = Local /\ c.upd \in BOOLEAN /\ c.pc = "connect" /\ Still
  BY DEF TypeInv, Sane, ConnectNeighbor, At, Still
<1>2. Step(t, e1) \/ Step(t, e2) \/ Step(t, rest)
  BY Zenon DEF ConnectNeighbor
<1> HIDE DEF c, tail
<1>3. /\ DOMAIN rest = Local /\ rest.upd = c.upd /\ rest.id = c.id /\ rest.label = c.label
      /\ rest.level = c.level /\ rest.max = c.max /\ rest.pc = c.pc
  BY <1>1 DEF Local
<1>4. Walked(c, e1)
  BY <1>1, LocalWalks DEF Local
<1> HIDE DEF rest
<1>5. Walked(rest, e2)
  BY <1>1, <1>3, LevelDoneWalks
<1> HIDE DEF e1, e2
<1>6. Walked(c, e2)
  BY <1>3, <1>5, WalkedTrans
<1>7. Walked(c, rest)
  BY <1>1, <1>3, LocalWalks
<1> QED BY <1>1, <1>2, <1>4, <1>6, <1>7, WalkIntro DEF c

LEMMA OneHopWalks ==
    ASSUME TypeInv, NEW t \in Threads, OneHop(t)
    PROVE  Walk(t)
<1> DEFINE c == th[t]
           list == links[c.id][c.lev]
           found == {c.id} \cup Range(list)
           e1 == NextLayer(c)
           e2 == [c EXCEPT !.pc = "twohop", !.pending = list, !.nbrs = list, !.cands = found]
<1>1. DOMAIN c = Local /\ c.upd \in BOOLEAN /\ c.pc = "onehop" /\ Still
  BY DEF TypeInv, Sane, OneHop, At, graph, Still
<1>2. Step(t, IF list = << >> THEN e1 ELSE e2)
  BY Zenon DEF OneHop
<1> HIDE DEF c, list, found
<1>3. Walked(c, e1)
  BY <1>1, NextLayerWalks
<1>4. Walked(c, e2)
  <2>1. /\ DOMAIN e2 = Local /\ e2.upd = c.upd /\ e2.id = c.id /\ e2.label = c.label
        /\ e2.level = c.level /\ e2.max = c.max /\ e2.pc = "twohop"
    BY <1>1 DEF Local
  <2> HIDE DEF e2
  <2> QED BY <1>1, <2>1, LocalWalks
<1> HIDE DEF e1, e2
<1>5. \E d : Walked(c, d) /\ Step(t, d)
  BY <1>2, <1>3, <1>4
<1> QED BY <1>1, <1>5, WalkIntro DEF c

LEMMA TwoHopWalks ==
    ASSUME TypeInv, NEW t \in Threads, TwoHop(t)
    PROVE  Walk(t)
<1> DEFINE c == th[t]
           n == Head(c.pending)
           seen == Range(links[n][c.lev])
           more == [c EXCEPT !.pending = Tail(@), !.cands = @ \cup seen]
           e == [more EXCEPT !.pc = "rewire", !.pending = c.nbrs]
<1>1. DOMAIN c = Local /\ c.upd \in BOOLEAN /\ c.pc = "twohop" /\ Still
  BY DEF TypeInv, Sane, TwoHop, At, graph, Still
<1>2. Step(t, IF more.pending # << >> THEN more ELSE e)
  BY Zenon DEF TwoHop
<1> HIDE DEF c, seen
<1>3. Walked(c, more)
  <2>1. /\ DOMAIN more = Local /\ more.upd = c.upd /\ more.id = c.id /\ more.label = c.label
        /\ more.level = c.level /\ more.max = c.max /\ more.pc = c.pc
    BY <1>1 DEF Local
  <2> HIDE DEF more
  <2> QED BY <1>1, <2>1, LocalWalks
<1>4. Walked(c, e)
  <2>1. /\ DOMAIN e = Local /\ e.upd = c.upd /\ e.id = c.id /\ e.label = c.label
        /\ e.level = c.level /\ e.max = c.max /\ e.pc = "rewire"
    BY <1>1 DEF Local
  <2> HIDE DEF e
  <2> QED BY <1>1, <2>1, LocalWalks
<1> HIDE DEF more, e
<1>5. \E d : Walked(c, d) /\ Step(t, d)
  BY <1>2, <1>3, <1>4
<1> QED BY <1>1, <1>5, WalkIntro DEF c

LEMMA RewireWalks ==
    ASSUME TypeInv, NEW t \in Threads, Rewire(t)
    PROVE  Walk(t)
<1> DEFINE c == th[t]
           rest == [c EXCEPT !.pending = Tail(@)]
           e == NextLayer(rest)
<1>1. DOMAIN c = Local /\ c.upd \in BOOLEAN /\ c.pc = "rewire" /\ Still
  BY DEF TypeInv, Sane, Rewire, At, Still
<1>2. Step(t, IF rest.pending # << >> THEN rest ELSE e)
  BY Zenon DEF Rewire
<1> HIDE DEF c
<1>3. /\ DOMAIN rest = Local /\ rest.upd = c.upd /\ rest.id = c.id /\ rest.label = c.label
      /\ rest.level = c.level /\ rest.max = c.max /\ rest.pc = c.pc
  BY <1>1 DEF Local
<1> HIDE DEF rest
<1>4. Walked(rest, e)
  BY <1>1, <1>3, NextLayerWalks
<1> HIDE DEF e
<1>5. Walked(c, e)
  BY <1>3, <1>4, WalkedTrans
<1>6. Walked(c, rest)
  BY <1>1, <1>3, LocalWalks
<1>7. \E d : Walked(c, d) /\ Step(t, d)
  BY <1>2, <1>5, <1>6
<1> QED BY <1>1, <1>7, WalkIntro DEF c
-----------------------------------------------------------------------------
(* The other steps, and the cases of Next.                                 *)

\* The locals of a thread that starts an update of label l.
Updating(d, l) ==
    \/ d = Idle
    \/ DOMAIN d = Local /\ d.upd = TRUE /\ d.pc = "onehop" /\ d.label = l

LEMMA UpdateStarts ==
    ASSUME NEW t \in Threads, NEW l, updatePoint(t, l)
    PROVE  \E d : Updating(d, l) /\ th' = [th EXCEPT ![t] = d]
<1> DEFINE i == op[l].id
           p == op[l].p
           lvl == element_levels_[i]
           e == [Idle EXCEPT !.pc = "onehop", !.upd = TRUE, !.label = l, !.id = i, !.p = p,
                             !.level = lvl, !.max = max_level_, !.ep = entry_id_]
<1>1. Step(t, Idle) \/ Step(t, e)
  BY Zenon DEF updatePoint
<1> HIDE DEF i, p, lvl
<1>2. Updating(e, l)
  BY IdleFacts DEF Updating, Local
<1>3. Updating(Idle, l)
  BY DEF Updating
<1> HIDE DEF e
<1> QED BY <1>1, <1>2, <1>3 DEF Step

\* What Reserve leaves in the locals of its thread.
Reserved(d, l, n, lvl) ==
    /\ DOMAIN d = Local /\ d.upd = FALSE /\ d.pc = "global" /\ d.label = l
    /\ d.id = n /\ d.level = lvl

LEMMA ReserveStarts ==
    ASSUME NEW t \in Threads, NEW l, NEW p, NEW lvl, Reserve(t, l, p, lvl)
    PROVE  \E d : Reserved(d, l, element_count_, lvl) /\ th' = [th EXCEPT ![t] = d]
<1> DEFINE e == [Idle EXCEPT !.pc = "global", !.label = l, !.id = element_count_,
                             !.p = p, !.level = lvl]
<1>1. th' = [th EXCEPT ![t] = e]
  BY Zenon DEF Reserve, Step
<1>2. Reserved(e, l, element_count_, lvl)
  BY IdleFacts DEF Reserved, Local
<1> HIDE DEF e
<1> QED BY <1>1, <1>2

\* ReadMaxLevel goes to "entry" with max_level_.
MaxRead(c, d) ==
    /\ DOMAIN d = Local /\ d.upd = c.upd /\ d.pc = "entry" /\ d.label = c.label
    /\ d.id = c.id /\ d.level = c.level /\ d.max = max_level_

LEMMA ReadMaxLevelSteps ==
    ASSUME TypeInv, NEW t \in Threads, ReadMaxLevel(t)
    PROVE  \E d : MaxRead(th[t], d) /\ th' = [th EXCEPT ![t] = d]
<1> DEFINE c == th[t]
           e == [c EXCEPT !.pc = "entry", !.max = max_level_]
<1>1. th' = [th EXCEPT ![t] = e]
  BY Zenon DEF ReadMaxLevel, Step
<1>2. DOMAIN c = Local
  BY DEF TypeInv, Sane
<1> HIDE DEF c
<1>3. MaxRead(c, e)
  BY <1>2 DEF MaxRead, Local
<1> HIDE DEF e
<1> QED BY <1>1, <1>3 DEF c

\* ReadEntry goes on inside the call, as the steps after it do.
LEMMA ReadEntrySteps ==
    ASSUME TypeInv, NEW t \in Threads, ReadEntry(t)
    PROVE  \E d : /\ Walked(th[t], d) /\ th' = [th EXCEPT ![t] = d]
                  /\ d # Idle
<1> DEFINE c == th[t]
           e == [c EXCEPT !.ep = entry_id_, !.obj = entry_id_]
           e1 == [e EXCEPT !.pc = "publish"]
           e2 == StartDescent(e)
<1>1. Step(t, e1) \/ Step(t, e2)
  BY Zenon DEF ReadEntry
<1>2. DOMAIN c = Local /\ c.upd = FALSE
  BY DEF TypeInv, Sane, ReadEntry, At
<1> HIDE DEF c
<1>3. /\ DOMAIN e = Local /\ e.upd = c.upd /\ e.id = c.id /\ e.label = c.label
      /\ e.level = c.level /\ e.max = c.max
  BY <1>2 DEF Local
<1> HIDE DEF e
<1>4. Walked(e, e1)
  BY <1>2, <1>3 DEF Walked, Local
<1>5. Walked(e, e2)
  BY <1>2, <1>3, StartDescentWalks
<1> HIDE DEF e1, e2
<1>6. Walked(c, e1) /\ Walked(c, e2)
  BY <1>3, <1>4, <1>5, WalkedTrans
<1>7. e1 # Idle /\ e2 # Idle
  BY <1>2, <1>6, IdleFacts DEF Walked
<1> QED BY <1>1, <1>6, <1>7 DEF c, Step

LEMMA NextCases ==
    ASSUME TypeInv, Next
    PROVE  \/ \E t \in Threads : Walk(t) \/ ReadMaxLevel(t) \/ ReadEntry(t) \/ Publish(t)
           \/ \E t \in Threads, l \in Labels, p \in Points, lvl \in Levels :
                 At(t, "idle") /\ LabelFree(l) /\ Unused(p) /\ Reserve(t, l, p, lvl)
           \/ \E t \in Threads, l \in Labels : updatePoint(t, l)
           \/ \E l \in Labels, p \in Points :
                 /\ LabelFree(l) /\ Unused(p)
                 /\ UpdateExisting(l, p) \/ addPoint_reuse(l, p)
           \/ \E l \in Labels : OnLabel(l)
           \/ \E n \in element_count_ .. MaxCapacity : resizeIndex(n)
           \/ SaveAndLoad
<1>1. ASSUME NEW t \in Threads, Progress(t)
      PROVE  Walk(t) \/ ReadMaxLevel(t) \/ ReadEntry(t) \/ Publish(t)
  BY <1>1, DescendWalks, BeginSearchWalks, SearchStepWalks, ConnectOwnWalks, ConnectNeighborWalks,
     OneHopWalks, TwoHopWalks, RewireWalks
     DEF Progress, Insertion, Connection, Update
<1>2. CASE \E t \in Threads : Progress(t)
  BY <1>1, <1>2
<1>3. CASE \E t \in Threads : Insert(t)
  BY <1>3, Zenon DEF Insert
<1>4. CASE BeginUpdate
  BY <1>4, Zenon DEF BeginUpdate
<1> QED BY <1>2, <1>3, <1>4, Zenon DEF Next
-----------------------------------------------------------------------------
(* The types, and the marks of the deleted elements.                       *)

\* The marked and the reusable ids are elements, and the count follows the marks.
MarksInv ==
    /\ deleted \subseteq Elements /\ deleted_elements_ \subseteq Elements
    /\ deleted_count_ = Cardinality(deleted)

IndexInv == TypeInv /\ MarksInv

\* The threads stay sane when one of them gets sane locals.
LEMMA SaneStep ==
    ASSUME TypeInv, NEW t \in Threads, NEW d, Sane(d), th' = [th EXCEPT ![t] = d]
    PROVE  th' = [u \in Threads |-> th'[u]] /\ \A u \in Threads : Sane(th'[u])
BY DEF TypeInv

LEMMA IdleSane == Sane(Idle)
<1>1. Idle.level \in Nat
  BY IdleFacts
<1>2. Idle.upd \in BOOLEAN
  BY IdleFacts, Zenon
<1>3. Idle.pc \notin {"global", "entry", "publish"}
  BY IdleFacts
<1> QED BY <1>1, <1>2, <1>3, IdleFacts, Zenon DEF Sane

LEMMA WalkedSane ==
    ASSUME NEW c, Sane(c), NEW d, Walked(c, d)
    PROVE  Sane(d)
<1>1. CASE d = Idle
  BY <1>1, IdleSane
<1>2. CASE d # Idle
  BY <1>2 DEF Walked, Sane
<1> QED BY <1>1, <1>2

LEMMA UpdatingSane ==
    ASSUME NEW d, NEW l, Updating(d, l)
    PROVE  Sane(d)
<1>1. CASE d = Idle
  BY <1>1, IdleSane
<1>2. CASE DOMAIN d = Local /\ d.upd = TRUE /\ d.pc = "onehop"
  BY <1>2 DEF Sane
<1> QED BY <1>1, <1>2 DEF Updating

\* A nonempty set of ids has a maximum.
LEMMA MaxIn ==
    ASSUME NEW n \in Nat, NEW S, S \subseteq 0 .. n - 1, S # {}
    PROVE  Max(S) \in S
<1> DEFINE T == {n - x : x \in S}
<1>1. T \subseteq Nat /\ T # {}
  BY SMT
<1>2. PICK x \in T : \A y \in T : ~(<<y, x>> \in OpToRel(<, Nat))
  BY <1>1, WFMin, NatLessThanWellFounded
<1>3. \A y \in T : x <= y
  <2> TAKE y \in T
  <2>1. x \in Nat /\ y \in Nat
    BY <1>1
  <2>2. ~(<<y, x>> \in OpToRel(<, Nat))
    BY <1>2
  <2> HIDE DEF T
  <2> QED BY <2>1, <2>2 DEF OpToRel
<1>4. PICK m \in S : x = n - m
  BY <1>2
<1>5. \A y \in S : m >= y
  BY <1>3, <1>4
<1> QED BY <1>5 DEF Max

LEMMA TypeInit == Init => TypeInv
<1> SUFFICES ASSUME Init PROVE TypeInv
  OBVIOUS
<1>1. OpInv
  <2>1. NoOp \in Ops /\ SaneOp(NoOp) /\ NoOp.pc = "none"
    BY DEF NoOp, Ops, OpPcs, SaneOp
  <2>2. op = [l \in Labels |-> NoOp]
    BY DEF Init
  <2> HIDE DEF NoOp
  <2> QED BY <2>1, <2>2 DEF OpInv
<1> QED BY <1>1, IdleSane, HnswAssumption DEF Init, TypeInv, Ids, Elements, None

LEMMA MarksInit == Init => MarksInv
<1> SUFFICES ASSUME Init PROVE MarksInv
  OBVIOUS
<1>1. deleted = {} /\ deleted_count_ = 0 /\ deleted_elements_ = {}
  BY DEF Init
<1> QED BY <1>1, FS_EmptySet DEF MarksInv

\* What the steps keep, for the parts of TypeInv that are not about the threads.
LEMMA TypeIntro ==
    ASSUME /\ capacity_' \in 0 .. MaxCapacity /\ element_count_' \in 0 .. capacity_'
           /\ element_levels_' \in [Ids -> Nat]
           /\ label' \in [Ids -> Labels \cup {Free}]
           /\ label_map_' \in [Labels -> Elements' \cup {None}]
           /\ link_locks_' \in [Ids -> Threads \cup {Free}]
           /\ global_lock_' \in Threads \cup {Free}
           /\ max_level_' \in Int
           /\ reuse_deleted_' \in BOOLEAN,
           OpInv',
           th' = [u \in Threads |-> th'[u]] /\ \A u \in Threads : Sane(th'[u])
    PROVE  TypeInv'
BY DEF TypeInv, Ids, None, Sane, Local, Idle, NoSearch

\* The calls on labels stay sane when they do not change, and when one of them does.
LEMMA OpKept ==
    ASSUME TypeInv, op' = op, Elements \subseteq Elements'
    PROVE  OpInv'
BY DEF TypeInv, OpInv

Others(l) == op' \in [Labels -> Ops] /\ \A k \in Labels \ {l} : op'[k] = op[k]

LEMMA OpMoved ==
    ASSUME TypeInv, NEW l \in Labels, Others(l), SaneOp(op'[l]), Elements' = Elements,
           op'[l].pc # "none" => op'[l].id \in Elements
    PROVE  OpInv'
BY DEF TypeInv, OpInv, Others

LEMMA GoesTo ==
    ASSUME TypeInv, NEW l \in Labels, NEW pc \in OpPcs, Goes(l, pc)
    PROVE  /\ Others(l) /\ op'[l].pc = pc
           /\ op'[l].upd = op[l].upd /\ op'[l].id = op[l].id /\ op'[l].p = op[l].p
<1>1. op \in [Labels -> Ops]
  BY DEF TypeInv, OpInv
<1>2. op[l] \in Ops
  BY <1>1
<1> DEFINE o == [op[l] EXCEPT !.pc = pc]
<1>3. o \in Ops /\ o.pc = pc /\ o.upd = op[l].upd /\ o.id = op[l].id /\ o.p = op[l].p
  BY <1>2 DEF Ops
<1>4. op' = [op EXCEPT ![l] = o]
  BY DEF Goes
<1> HIDE DEF o
<1> QED BY <1>1, <1>3, <1>4 DEF Others

LEMMA EndsAt ==
    ASSUME TypeInv, NEW l \in Labels, Ends(l)
    PROVE  /\ Others(l) /\ op'[l].pc = "none" /\ ~op'[l].upd
           /\ SaneOp(op'[l])
<1>1. NoOp \in Ops /\ NoOp.pc = "none" /\ NoOp.upd = FALSE /\ SaneOp(NoOp)
  BY DEF NoOp, Ops, OpPcs, SaneOp
<1>2. op \in [Labels -> Ops] /\ op' = [op EXCEPT ![l] = NoOp]
  BY DEF TypeInv, OpInv, Ends
<1> HIDE DEF NoOp
<1> QED BY <1>1, <1>2 DEF Others

LEMMA BeginsUpdateAt ==
    ASSUME TypeInv, NEW l \in Labels, NEW pc \in OpPcs, NEW i \in Elements, NEW p \in Int,
           Begins(l, pc, TRUE, i, p)
    PROVE  Others(l) /\ op'[l].pc = pc /\ op'[l].upd /\ op'[l].id = i /\ op'[l].p = p
<1> DEFINE o == [pc |-> pc, upd |-> TRUE, id |-> i, p |-> p]
<1>1. o \in Ops /\ o.pc = pc /\ o.upd /\ o.id = i /\ o.p = p
  BY DEF Ops, Elements
<1>2. op \in [Labels -> Ops] /\ op' = [op EXCEPT ![l] = o]
  BY DEF TypeInv, OpInv, Begins
<1> HIDE DEF o
<1> QED BY <1>1, <1>2 DEF Others

LEMMA BeginsMarkingAt ==
    ASSUME TypeInv, NEW l \in Labels, NEW pc \in OpPcs, NEW i \in Elements, NEW p \in Int,
           Begins(l, pc, FALSE, i, p)
    PROVE  Others(l) /\ op'[l].pc = pc /\ ~op'[l].upd /\ op'[l].id = i /\ op'[l].p = p
<1> DEFINE o == [pc |-> pc, upd |-> FALSE, id |-> i, p |-> p]
<1>1. o \in Ops /\ o.pc = pc /\ ~o.upd /\ o.id = i /\ o.p = p
  BY DEF Ops, Elements
<1>2. op \in [Labels -> Ops] /\ op' = [op EXCEPT ![l] = o]
  BY DEF TypeInv, OpInv, Begins
<1> HIDE DEF o
<1> QED BY <1>1, <1>2 DEF Others

\* The call that goes on, in terms of the model's steps.
LEMMA OpFacts ==
    ASSUME TypeInv, NEW l \in Labels
    PROVE  /\ op[l].upd \in BOOLEAN /\ op[l].id \in Nat /\ op[l].p \in Int
           /\ op[l].pc # "none" => op[l].id \in Elements
           /\ op[l].pc \in {"exists", "relabel", "update"} => op[l].upd
           /\ op[l].pc \in {"none", "mark", "keep"} => ~op[l].upd
<1>1. op[l] \in Ops /\ SaneOp(op[l]) /\ (op[l].pc # "none" => op[l].id \in Elements)
  BY DEF TypeInv, OpInv
<1> QED BY <1>1 DEF Ops, SaneOp

LEMMA WalkKeepsType ==
    ASSUME TypeInv, NEW t \in Threads, Walk(t)
    PROVE  TypeInv'
<1>1. PICK d : Walked(th[t], d) /\ th' = [th EXCEPT ![t] = d]
  BY DEF Walk
<1>2. UNCHANGED <<element_levels_, marks, names, top, link_locks_, global_lock_, op, history>>
  BY DEF Walk
<1>3. th' = [u \in Threads |-> th'[u]] /\ \A u \in Threads : Sane(th'[u])
  BY <1>1, WalkedSane, SaneStep DEF TypeInv
<1> QED BY <1>2, <1>3, OpKept, TypeIntro DEF TypeInv, names, top, history, Elements

LEMMA ReadMaxLevelKeepsType ==
    ASSUME TypeInv, NEW t \in Threads, ReadMaxLevel(t)
    PROVE  TypeInv'
<1>1. PICK d : MaxRead(th[t], d) /\ th' = [th EXCEPT ![t] = d]
  BY ReadMaxLevelSteps
<1>2. Sane(d)
  BY <1>1 DEF MaxRead, ReadMaxLevel, At, TypeInv, Sane
<1>3. th' = [u \in Threads |-> th'[u]] /\ \A u \in Threads : Sane(th'[u])
  BY <1>1, <1>2, SaneStep
<1>4. /\ UNCHANGED <<graph, marks, names, top, link_locks_, op, history>>
      /\ global_lock_' \in Threads \cup {Free}
  BY DEF ReadMaxLevel
<1> QED BY <1>3, <1>4, OpKept, TypeIntro DEF TypeInv, graph, names, top, history, Elements

\* The fields ReadEntry fills, in terms of the locals before it.
LEMMA ReadEntryFacts ==
    ASSUME TypeInv, NEW t \in Threads, ReadEntry(t)
    PROVE  /\ label' = [label EXCEPT ![th[t].id] = th[t].label]
           /\ entry_id_ = None => entry_id_' = 0 /\ max_level_' = th[t].level
           /\ entry_id_ # None => UNCHANGED top
<1> DEFINE c == th[t]
           e == [c EXCEPT !.ep = entry_id_, !.obj = entry_id_]
<1>1. /\ label' = [label EXCEPT ![e.id] = e.label]
      /\ entry_id_ = None => entry_id_' = 0 /\ max_level_' = e.level
      /\ entry_id_ # None => UNCHANGED top
  BY Zenon DEF ReadEntry
<1>2. DOMAIN c = Local
  BY DEF TypeInv, Sane
<1> HIDE DEF c
<1>3. e.id = c.id /\ e.label = c.label /\ e.level = c.level
  BY <1>2 DEF Local
<1> QED BY <1>1, <1>3 DEF c

LEMMA ReadEntryKeepsType ==
    ASSUME TypeInv, NEW t \in Threads, ReadEntry(t)
    PROVE  TypeInv'
<1>1. PICK d : Walked(th[t], d) /\ th' = [th EXCEPT ![t] = d]
  BY ReadEntrySteps
<1>2. th' = [u \in Threads |-> th'[u]] /\ \A u \in Threads : Sane(th'[u])
  BY <1>1, WalkedSane, SaneStep DEF TypeInv
<1>3. UNCHANGED <<capacity_, element_count_, label_map_, element_levels_, marks, link_locks_,
                  global_lock_, op, history>>
  BY DEF ReadEntry
<1>4. th[t].level \in Nat /\ th[t].label \in Labels
  BY DEF ReadEntry, At, TypeInv, Sane
<1>5. max_level_' \in Int
  BY <1>4, ReadEntryFacts DEF TypeInv, top
<1>6. label' \in [Ids -> Labels \cup {Free}]
  BY <1>4, ReadEntryFacts DEF TypeInv
<1> QED BY <1>2, <1>3, <1>5, <1>6, OpKept, TypeIntro DEF TypeInv, history, Elements
LEMMA PublishKeepsType ==
    ASSUME TypeInv, NEW t \in Threads, Publish(t)
    PROVE  TypeInv'
<1>1. th' = [u \in Threads |-> th'[u]] /\ \A u \in Threads : Sane(th'[u])
  BY IdleSane, SaneStep DEF Publish, Step
<1>2. th[t].level \in Nat
  BY DEF Publish, At, TypeInv, Sane
<1>3. max_level_' \in Int /\ global_lock_' \in Threads \cup {Free}
  BY <1>2 DEF Publish, TypeInv, top
<1>4. link_locks_' \in [Ids -> Threads \cup {Free}]
  BY DEF Publish, TypeInv
<1>5. UNCHANGED <<graph, names, op, history>>
  BY DEF Publish
<1> QED BY <1>1, <1>3, <1>4, <1>5, OpKept, TypeIntro DEF TypeInv, graph, names, history, Elements

LEMMA ReserveKeepsType ==
    ASSUME TypeInv, NEW t \in Threads, NEW l \in Labels, NEW p \in Points, NEW lvl \in Levels,
           Reserve(t, l, p, lvl)
    PROVE  TypeInv'
<1>1. PICK d : Reserved(d, l, element_count_, lvl) /\ th' = [th EXCEPT ![t] = d]
  BY ReserveStarts
<1>2. lvl \in Nat
  BY HnswAssumption
<1>3. Sane(d)
  BY <1>1, <1>2 DEF Reserved, Sane
<1>4. th' = [u \in Threads |-> th'[u]] /\ \A u \in Threads : Sane(th'[u])
  BY <1>1, <1>3, SaneStep
<1>5. /\ element_count_ \in Nat /\ capacity_ \in Nat /\ MaxCapacity \in Nat
      /\ element_count_ < capacity_ /\ capacity_ <= MaxCapacity
  BY HnswAssumption DEF Reserve, TypeInv
<1>6. element_count_' \in 0 .. capacity_ /\ Elements' = Elements \cup {element_count_}
  BY <1>5 DEF Reserve, Elements
<1>7. /\ label_map_' \in [Labels -> Elements' \cup {None}]
      /\ element_levels_' \in [Ids -> Nat]
      /\ link_locks_' \in [Ids -> Threads \cup {Free}]
  BY <1>2, <1>6 DEF Reserve, TypeInv
<1>8. UNCHANGED <<capacity_, label, max_level_, global_lock_, op, reuse_deleted_>>
  BY DEF Reserve, top, history
<1>9. OpInv'
  BY <1>6, <1>8, OpKept
<1> QED BY <1>4, <1>6, <1>7, <1>8, <1>9, TypeIntro DEF TypeInv

LEMMA UpdatePointKeepsType ==
    ASSUME TypeInv, NEW t \in Threads, NEW l \in Labels, updatePoint(t, l)
    PROVE  TypeInv'
<1>1. PICK d : Updating(d, l) /\ th' = [th EXCEPT ![t] = d]
  BY UpdateStarts
<1>2. th' = [u \in Threads |-> th'[u]] /\ \A u \in Threads : Sane(th'[u])
  BY <1>1, UpdatingSane, SaneStep
<1>3. /\ UNCHANGED <<element_levels_, names, top, link_locks_, global_lock_, reuse_deleted_>>
      /\ Ends(l)
  BY DEF updatePoint, history
<1>4. Elements' = Elements
  BY <1>3 DEF names, Elements
<1>5. OpInv'
  BY <1>3, <1>4, EndsAt, OpMoved
<1> QED BY <1>2, <1>3, <1>4, <1>5, TypeIntro DEF TypeInv, names, top

\* A step that changes the call on l, and labels and marks at most.
LEMMA OnLabelType ==
    ASSUME TypeInv, NEW l \in Labels, Others(l), SaneOp(op'[l]),
           op'[l].pc # "none" => op'[l].id \in Elements,
           UNCHANGED <<graph, capacity_, element_count_, top, link_locks_, global_lock_, th, reuse_deleted_>>,
           label' \in [Ids -> Labels \cup {Free}], label_map_' \in [Labels -> Elements \cup {None}]
    PROVE  TypeInv'
<1>1. Elements' = Elements
  BY DEF Elements
<1>2. OpInv'
  BY <1>1, OpMoved
<1> QED BY <1>1, <1>2, TypeIntro DEF TypeInv, graph, top

LEMMA BeginUpdateKeepsType ==
    ASSUME IndexInv, NEW l \in Labels, NEW p \in Points, UpdateExisting(l, p) \/ addPoint_reuse(l, p)
    PROVE  TypeInv'
<1>1. TypeInv /\ p \in Int
  BY HnswAssumption DEF IndexInv
<1>2. PICK i \in Elements, pc \in {"exists", "relabel"} : Begins(l, pc, TRUE, i, p)
  <2>1. CASE UpdateExisting(l, p)
    BY <1>1, <2>1 DEF UpdateExisting, TypeInv
  <2>2. CASE addPoint_reuse(l, p)
    BY <1>1, <2>2 DEF addPoint_reuse, IndexInv, MarksInv
  <2> QED BY <2>1, <2>2
<1>3. Others(l) /\ op'[l].pc = pc /\ op'[l].upd /\ op'[l].id = i
  <2>1. pc \in OpPcs
    BY <1>2 DEF OpPcs
  <2> QED BY <1>1, <1>2, <2>1, BeginsUpdateAt
<1>4. UNCHANGED <<graph, names, top, link_locks_, global_lock_, th, reuse_deleted_>>
  BY DEF UpdateExisting, addPoint_reuse
<1>5. SaneOp(op'[l])
  BY <1>3 DEF SaneOp
<1> QED BY <1>1, <1>3, <1>4, <1>5, OnLabelType DEF TypeInv, names

LEMMA OnLabelKeepsType ==
    ASSUME TypeInv, NEW l \in Labels, OnLabel(l)
    PROVE  TypeInv'
<1> DEFINE i == op[l].id
           fine == /\ Others(l) /\ SaneOp(op'[l])
                   /\ op'[l].pc # "none" => op'[l].id \in Elements
<1>1. /\ op[l].upd \in BOOLEAN /\ i \in Nat
      /\ op[l].pc # "none" => i \in Elements
      /\ op[l].pc \in {"exists", "relabel", "update"} => op[l].upd
      /\ op[l].pc \in {"none", "mark", "keep"} => ~op[l].upd
  BY OpFacts
<1>2. fine
  <2>1. CASE markDelete(l) \/ unmarkDelete(l)
    <3>1. label_map_[l] \in Elements
      BY <2>1 DEF markDelete, unmarkDelete, TypeInv
    <3>2. Begins(l, "mark", FALSE, label_map_[l], 0) \/ Begins(l, "unmark", FALSE, label_map_[l], 0)
      BY <2>1 DEF markDelete, unmarkDelete
    <3>3. /\ Others(l) /\ op'[l].pc \in {"mark", "unmark"}
          /\ ~op'[l].upd /\ op'[l].id = label_map_[l]
      <4> HIDE DEF fine, i
      <4>1. ASSUME NEW pc \in {"mark", "unmark"}, Begins(l, pc, FALSE, label_map_[l], 0)
            PROVE  /\ Others(l) /\ op'[l].pc = pc
                   /\ ~op'[l].upd /\ op'[l].id = label_map_[l]
        <5>1. pc \in OpPcs
          BY DEF OpPcs
        <5>2. 0 \in Int
          OBVIOUS
        <5> QED BY <3>1, <4>1, <5>1, <5>2, BeginsMarkingAt, Zenon
      <4> QED BY <3>2, <4>1
    <3> QED BY <3>1, <3>3 DEF SaneOp
  <2>2. ASSUME Ends(l) PROVE fine
    BY <2>2, EndsAt
  <2>3. ASSUME NEW pc \in {"keep", "unmark", "erase", "update"}, Goes(l, pc), op[l].pc # "none",
               pc = "keep" => ~op[l].upd, pc = "update" => op[l].upd
        PROVE  fine
    <3>1. Others(l) /\ op'[l].pc = pc /\ op'[l].upd = op[l].upd /\ op'[l].id = op[l].id
      <4>1. pc \in OpPcs
        BY <2>3 DEF OpPcs
      <4> QED BY <2>3, <4>1, GoesTo
    <3> QED BY <1>1, <2>3, <3>1 DEF SaneOp
  <2>4. CASE Mark(l)
    BY <1>1, <2>2, <2>3, <2>4 DEF Mark
  <2>5. CASE Keep(l)
    BY <2>2, <2>5 DEF Keep
  <2>6. CASE Relabel(l)
    BY <2>3, <2>6 DEF Relabel
  <2>7. CASE Unmark(l)
    BY <1>1, <2>2, <2>3, <2>7 DEF Unmark, AfterMarks
  <2>8. CASE Erase(l)
    BY <2>2, <2>3, <2>8 DEF Erase, AfterMarks
  <2> QED BY <2>1, <2>4, <2>5, <2>6, <2>7, <2>8 DEF OnLabel
<1>3. UNCHANGED <<graph, capacity_, element_count_, top, link_locks_, global_lock_, th, reuse_deleted_>>
  BY DEF OnLabel, markDelete, unmarkDelete, Mark, Keep, Relabel, Unmark, Erase, names, history
<1>4. label' \in [Ids -> Labels \cup {Free}] /\ label_map_' \in [Labels -> Elements \cup {None}]
  <2>1. CASE Relabel(l)
    BY <1>1, <2>1 DEF Relabel, TypeInv
  <2>2. CASE ~Relabel(l)
    BY <2>2 DEF OnLabel, markDelete, unmarkDelete, Mark, Keep, Unmark, Erase, names, TypeInv
  <2> QED BY <2>1, <2>2
<1> QED BY <1>2, <1>3, <1>4, OnLabelType

LEMMA ResizeKeepsType ==
    ASSUME TypeInv, NEW n \in element_count_ .. MaxCapacity, resizeIndex(n)
    PROVE  TypeInv'
<1>1. n \in 0 .. MaxCapacity /\ element_count_ \in 0 .. n
  BY HnswAssumption DEF TypeInv
<1>2. /\ capacity_' = n /\ link_locks_' = [i \in Ids |-> Free]
      /\ UNCHANGED <<graph, element_count_, label, label_map_, top, global_lock_, th, op, history>>
  BY DEF resizeIndex
<1> QED BY <1>1, <1>2, OpKept, TypeIntro DEF TypeInv, graph, top, history, Elements

LEMMA LoadKeepsType ==
    ASSUME TypeInv, SaveAndLoad
    PROVE  TypeInv'
<1>1. element_count_ \in Nat
  BY HnswAssumption DEF TypeInv
<1>2. ASSUME NEW l, \E i \in Elements : label[i] = l
      PROVE  Max({i \in Elements : label[i] = l}) \in Elements
  <2> DEFINE S == {i \in Elements : label[i] = l}
  <2>1. S \subseteq 0 .. element_count_ - 1 /\ S # {}
    BY <1>2 DEF Elements
  <2> HIDE DEF S
  <2>2. Max(S) \in S
    BY <1>1, <2>1, MaxIn
  <2> QED BY <2>2 DEF S
<1>3. label_map_' = [l \in Labels |->
                        IF \E i \in Elements : label[i] = l
                        THEN Max({i \in Elements : label[i] = l}) ELSE None]
  BY DEF SaveAndLoad, Elements
<1>4. label_map_' \in [Labels -> Elements \cup {None}]
  BY <1>2, <1>3
<1>5. /\ link_locks_' = [i \in Ids |-> Free] /\ reuse_deleted_' \in BOOLEAN
      /\ UNCHANGED <<graph, capacity_, element_count_, label, top, global_lock_, th, op>>
  BY DEF SaveAndLoad
<1> QED BY <1>4, <1>5, OpKept, TypeIntro DEF TypeInv, graph, top, Elements
LEMMA DeletedFinite ==
    ASSUME IndexInv
    PROVE  IsFiniteSet(deleted)
<1>1. 0 \in Int /\ element_count_ - 1 \in Int
  BY HnswAssumption DEF IndexInv, TypeInv
<1>2. IsFiniteSet(Elements)
  BY <1>1, FS_Interval DEF Elements
<1> QED BY <1>2, FS_Subset DEF IndexInv, MarksInv

\* One element more, and one less, under a mark.
LEMMA OnLabelKeepsMarks ==
    ASSUME IndexInv, NEW l \in Labels, OnLabel(l)
    PROVE  MarksInv'
<1> DEFINE i == op[l].id
<1>1. TypeInv /\ Elements' = Elements
  BY DEF IndexInv, OnLabel, markDelete, unmarkDelete, Mark, Keep, Relabel, Unmark, Erase, names, Elements
<1>2. IsFiniteSet(deleted)
  BY DeletedFinite
<1>3. CASE markDelete(l) \/ unmarkDelete(l) \/ Relabel(l)
  BY <1>1, <1>3 DEF markDelete, unmarkDelete, Relabel, marks, IndexInv, MarksInv
<1>4. CASE Keep(l) \/ Erase(l)
  <2>1. i \in Elements
    BY <1>1, <1>4, OpFacts DEF Keep, Erase
  <2> QED BY <1>1, <1>4, <2>1 DEF Keep, Erase, IndexInv, MarksInv
<1>5. CASE Mark(l)
  <2>1. i \in Elements
    BY <1>1, <1>5, OpFacts DEF Mark
  <2>2. i \notin deleted => Cardinality(deleted \cup {i}) = Cardinality(deleted) + 1
    BY <1>2, FS_AddElement
  <2> QED BY <1>1, <1>5, <2>1, <2>2 DEF Mark, IndexInv, MarksInv
<1>6. CASE Unmark(l)
  <2>1. i \in deleted => Cardinality(deleted \ {i}) = Cardinality(deleted) - 1
    BY <1>2, FS_RemoveElement
  <2> QED BY <1>1, <1>6, <2>1 DEF Unmark, IndexInv, MarksInv
<1> QED BY <1>3, <1>4, <1>5, <1>6 DEF OnLabel

LEMMA SameMarks ==
    ASSUME IndexInv, UNCHANGED <<deleted, deleted_count_>>, deleted_elements_' \subseteq deleted_elements_,
           Elements \subseteq Elements'
    PROVE  MarksInv'
BY DEF IndexInv, MarksInv

LEMMA IndexStep ==
    ASSUME IndexInv, [Next]_vars
    PROVE  IndexInv'
<1> TypeInv
  BY DEF IndexInv
<1>1. CASE UNCHANGED vars
  BY <1>1 DEF IndexInv, TypeInv, OpInv, MarksInv, vars, graph, marks, names, top, history, Elements
<1>2. ASSUME NEW t \in Threads, Walk(t) \/ ReadMaxLevel(t) \/ ReadEntry(t) \/ Publish(t)
      PROVE  IndexInv'
  <2>1. UNCHANGED marks /\ Elements' = Elements
    BY <1>2 DEF Walk, ReadMaxLevel, ReadEntry, Publish, names, Elements
  <2> QED BY <1>2, <2>1, SameMarks, WalkKeepsType, ReadMaxLevelKeepsType, ReadEntryKeepsType,
             PublishKeepsType DEF IndexInv, marks
<1>3. ASSUME NEW t \in Threads, NEW l \in Labels, NEW p \in Points, NEW lvl \in Levels,
             Reserve(t, l, p, lvl)
      PROVE  IndexInv'
  <2>1. UNCHANGED marks /\ element_count_' = element_count_ + 1
    BY <1>3 DEF Reserve
  <2>2. Elements \subseteq Elements'
    BY <2>1, HnswAssumption DEF TypeInv, Elements
  <2> QED BY <1>3, <2>1, <2>2, SameMarks, ReserveKeepsType DEF IndexInv, marks
<1>4. ASSUME NEW t \in Threads, NEW l \in Labels, updatePoint(t, l)
      PROVE  IndexInv'
  <2>1. UNCHANGED marks /\ Elements' = Elements
    BY <1>4 DEF updatePoint, names, Elements
  <2> QED BY <1>4, <2>1, SameMarks, UpdatePointKeepsType DEF IndexInv, marks
<1>5. ASSUME NEW l \in Labels, NEW p \in Points, UpdateExisting(l, p) \/ addPoint_reuse(l, p)
      PROVE  IndexInv'
  <2>1. /\ UNCHANGED <<deleted, deleted_count_>> /\ deleted_elements_' \subseteq deleted_elements_
        /\ Elements' = Elements
    BY <1>5 DEF UpdateExisting, addPoint_reuse, marks, names, Elements
  <2> QED BY <1>5, <2>1, SameMarks, BeginUpdateKeepsType DEF IndexInv
<1>6. ASSUME NEW l \in Labels, OnLabel(l)
      PROVE  IndexInv'
  BY <1>6, OnLabelKeepsType, OnLabelKeepsMarks DEF IndexInv
<1>7. ASSUME NEW n \in element_count_ .. MaxCapacity, resizeIndex(n)
      PROVE  IndexInv'
  <2>1. UNCHANGED marks /\ Elements' = Elements
    BY <1>7 DEF resizeIndex, Elements
  <2> QED BY <1>7, <2>1, SameMarks, ResizeKeepsType DEF IndexInv, marks
<1>8. CASE SaveAndLoad
  <2>1. deleted \cap (0 .. element_count_ - 1) = deleted
    BY DEF IndexInv, MarksInv, Elements
  <2>2. /\ deleted' = deleted /\ Elements' = Elements
        /\ deleted_count_' = Cardinality(deleted) /\ deleted_elements_' \subseteq deleted
    BY <1>8, <2>1 DEF SaveAndLoad, Elements
  <2>3. MarksInv'
    BY <2>2 DEF IndexInv, MarksInv
  <2> QED BY <1>8, <2>3, LoadKeepsType DEF IndexInv
<1>9. CASE Next
  BY <1>2, <1>3, <1>4, <1>5, <1>6, <1>7, <1>8, <1>9, NextCases
<1> QED BY <1>1, <1>9

\* The types and the marks hold in every state.
LEMMA IndexInvariant == Spec => []IndexInv
<1>1. Init => IndexInv
  BY TypeInit, MarksInit DEF IndexInv
<1>2. IndexInv /\ [Next]_vars => IndexInv'
  BY IndexStep
<1> QED BY <1>1, <1>2, PTL DEF Spec

-----------------------------------------------------------------------------
(* The locks of the insertions, and the entry point.                       *)

Inserting(t) == th[t].pc # "idle" /\ th[t].upd = FALSE

(* An insertion keeps the link lock of its element.  Behind the read of    *)
(* the top level it either goes above it, and then keeps global_lock_ too, *)
(* or it does not, and then the top level never falls below what it read.  *)
InsertionInv ==
    \A t \in Threads : Inserting(t) =>
        /\ th[t].id \in Elements /\ link_locks_[th[t].id] = t
        /\ element_levels_[th[t].id] = th[t].level
        /\ th[t].pc # "global" =>
              /\ th[t].max \in Int
              /\ th[t].level > th[t].max => global_lock_ = t
              /\ th[t].level <= th[t].max => th[t].max <= max_level_

\* A link lock that is kept is kept by the insertion of that element.
OwnersInv ==
    \A i \in Ids : link_locks_[i] # Free =>
        Inserting(link_locks_[i]) /\ th[link_locks_[i]].id = i

\* global_lock_ is kept by an insertion that goes above the top level.
GlobalInv ==
    global_lock_ # Free =>
        /\ Inserting(global_lock_) /\ th[global_lock_].pc # "global"
        /\ th[global_lock_].level > th[global_lock_].max
        /\ max_level_ <= th[global_lock_].level

\* No finished element is above the top level, where the entry point is.
TopInv ==
    /\ entry_id_ = None => max_level_ = -1
    /\ \A i \in Elements : LockFree(i) => element_levels_[i] <= max_level_
    /\ global_lock_ = Free /\ entry_id_ # None =>
          entry_id_ \in Elements /\ element_levels_[entry_id_] = max_level_

LockInv == InsertionInv /\ OwnersInv /\ GlobalInv /\ TopInv

LEMMA LockInit == Init => LockInv
<1> SUFFICES ASSUME Init PROVE LockInv
  OBVIOUS
<1>1. \A t \in Threads : ~Inserting(t)
  BY IdleFacts DEF Init, Inserting
<1>2. /\ link_locks_ = [i \in Ids |-> Free] /\ global_lock_ = Free /\ element_count_ = 0
      /\ entry_id_ = None /\ max_level_ = -1
  BY DEF Init
<1> QED BY <1>1, <1>2 DEF LockInv, InsertionInv, OwnersInv, GlobalInv, TopInv, Elements

\* A step that changes no lock, no level and no insertion.
SameInsertion(t) ==
    /\ Inserting(t)' <=> Inserting(t)
    /\ Inserting(t) =>
          /\ th'[t].id = th[t].id /\ th'[t].level = th[t].level /\ th'[t].max = th[t].max
          /\ th'[t].pc = "global" <=> th[t].pc = "global"

LEMMA SameLocks ==
    ASSUME TypeInv, LockInv, \A t \in Threads : SameInsertion(t),
           UNCHANGED <<element_levels_, entry_id_, max_level_, link_locks_, global_lock_>>,
           Elements' = Elements
    PROVE  LockInv'
<1>1. InsertionInv'
  BY DEF LockInv, InsertionInv, SameInsertion
<1>2. OwnersInv'
  <2> SUFFICES ASSUME NEW i \in Ids, link_locks_[i] # Free
               PROVE  Inserting(link_locks_[i])' /\ th'[link_locks_[i]].id = i
    BY DEF OwnersInv, Inserting
  <2>1. link_locks_[i] \in Threads
    BY DEF TypeInv
  <2>2. Inserting(link_locks_[i]) /\ th[link_locks_[i]].id = i
    BY DEF LockInv, OwnersInv
  <2> QED BY <2>1, <2>2 DEF SameInsertion, Inserting
<1>3. GlobalInv'
  <2> SUFFICES ASSUME global_lock_ # Free
               PROVE  /\ Inserting(global_lock_)' /\ th'[global_lock_].pc # "global"
                      /\ th'[global_lock_].level > th'[global_lock_].max
                      /\ max_level_ <= th'[global_lock_].level
    BY DEF GlobalInv, Inserting
  <2>1. global_lock_ \in Threads
    BY DEF TypeInv
  <2> QED BY <2>1 DEF LockInv, GlobalInv, SameInsertion, Inserting
<1>4. TopInv'
  BY DEF LockInv, TopInv, LockFree
<1> QED BY <1>1, <1>2, <1>3, <1>4 DEF LockInv

LEMMA WalkKeepsLocks ==
    ASSUME TypeInv, LockInv, NEW t \in Threads, Walk(t)
    PROVE  LockInv'
<1>1. PICK d : Walked(th[t], d) /\ th' = [th EXCEPT ![t] = d]
  BY DEF Walk
<1>2. /\ UNCHANGED <<element_levels_, entry_id_, max_level_, link_locks_, global_lock_>>
      /\ Elements' = Elements
      /\ th[t].pc \notin {"idle", "global"}
  BY DEF Walk, names, top, Elements
<1>3. \A u \in Threads \ {t} : th'[u] = th[u]
  BY <1>1 DEF TypeInv
<1>4. th'[t] = d
  BY <1>1 DEF TypeInv
<1>5. CASE Inserting(t)
  <2>1. /\ d.id = th[t].id /\ d.level = th[t].level /\ d.max = th[t].max
        /\ d.upd = FALSE /\ d.pc \notin {"idle", "global"}
    BY <1>1, <1>5 DEF Walked, Inserting
  <2>2. \A u \in Threads : SameInsertion(u)
    BY <1>2, <1>3, <1>4, <1>5, <2>1 DEF Inserting, SameInsertion
  <2> QED BY <1>2, <2>2, SameLocks
<1>6. CASE ~Inserting(t)
  <2>1. th[t].upd = TRUE
    BY <1>2, <1>6 DEF Inserting, TypeInv, Sane
  <2>2. ~Inserting(t)'
    BY <1>1, <1>4, <2>1, IdleFacts DEF Walked, Inserting
  <2>3. \A u \in Threads : SameInsertion(u)
    BY <1>3, <1>6, <2>2 DEF Inserting, SameInsertion
  <2> QED BY <1>2, <2>3, SameLocks
<1> QED BY <1>5, <1>6
LEMMA ReadMaxLevelKeepsLocks ==
    ASSUME TypeInv, LockInv, NEW t \in Threads, ReadMaxLevel(t)
    PROVE  LockInv'
<1>1. PICK d : MaxRead(th[t], d) /\ th' = [th EXCEPT ![t] = d]
  BY ReadMaxLevelSteps
<1>2. /\ UNCHANGED <<element_levels_, entry_id_, max_level_, link_locks_>>
      /\ Elements' = Elements /\ global_lock_ = Free
      /\ global_lock_' = IF th[t].level <= max_level_ THEN Free ELSE t
      /\ th[t].pc = "global"
  BY DEF ReadMaxLevel, graph, names, top, Elements, At
<1>3. /\ \A u \in Threads \ {t} : th'[u] = th[u]
      /\ th'[t] = d
  BY <1>1 DEF TypeInv
<1>4. th[t].upd = FALSE /\ th[t].level \in Nat /\ Inserting(t) /\ max_level_ \in Int
  BY <1>2 DEF TypeInv, Sane, Inserting
<1>5. /\ d.id = th[t].id /\ d.level = th[t].level /\ d.max = max_level_ /\ d.pc = "entry"
      /\ d.upd = FALSE
  BY <1>1, <1>4 DEF MaxRead
<1>6. \A u \in Threads : (Inserting(u)' <=> Inserting(u)) /\ th'[u].id = th[u].id
  BY <1>3, <1>4, <1>5 DEF Inserting
<1>7. InsertionInv'
  <2> SUFFICES ASSUME NEW u \in Threads, Inserting(u)'
               PROVE  /\ th'[u].id \in Elements /\ link_locks_[th'[u].id] = u
                      /\ element_levels_[th'[u].id] = th'[u].level
                      /\ th'[u].pc # "global" =>
                            /\ th'[u].max \in Int
                            /\ th'[u].level > th'[u].max => global_lock_' = u
                            /\ th'[u].level <= th'[u].max => th'[u].max <= max_level_
    BY <1>2 DEF InsertionInv
  <2>1. CASE u = t
    BY <1>2, <1>3, <1>4, <1>5, <2>1 DEF LockInv, InsertionInv
  <2>2. CASE u # t
    <3>1. Inserting(u) /\ th'[u] = th[u]
      BY <1>3, <1>6, <2>2
    <3>2. th[u].pc # "global" => th[u].level \in Nat /\ th[u].max \in Int
      BY <3>1 DEF LockInv, InsertionInv, TypeInv, Sane, Inserting
    <3>3. u # Free
      BY HnswAssumption
    <3> QED BY <1>2, <3>1, <3>2, <3>3 DEF LockInv, InsertionInv
  <2> QED BY <2>1, <2>2
<1>8. OwnersInv'
  <2> SUFFICES ASSUME NEW i \in Ids, link_locks_[i] # Free
               PROVE  Inserting(link_locks_[i])' /\ th'[link_locks_[i]].id = i
    BY <1>2 DEF OwnersInv, Inserting
  <2>1. link_locks_[i] \in Threads
    BY DEF TypeInv
  <2> QED BY <1>2, <1>6, <2>1 DEF LockInv, OwnersInv, Inserting
<1>9. GlobalInv'
  <2> SUFFICES ASSUME global_lock_' # Free
               PROVE  /\ Inserting(t)' /\ th'[t].pc # "global"
                      /\ th'[t].level > th'[t].max /\ max_level_ <= th'[t].level
                      /\ global_lock_' = t
    BY <1>2 DEF GlobalInv, Inserting
  <2> QED BY <1>2, <1>3, <1>4, <1>5, <1>6
<1>10. TopInv'
  BY <1>2 DEF LockInv, TopInv, LockFree
<1> QED BY <1>7, <1>8, <1>9, <1>10 DEF LockInv

LEMMA ReadEntryKeepsLocks ==
    ASSUME TypeInv, LockInv, NEW t \in Threads, ReadEntry(t)
    PROVE  LockInv'
<1>1. PICK d : Walked(th[t], d) /\ th' = [th EXCEPT ![t] = d] /\ d # Idle
  BY ReadEntrySteps
<1>2. /\ UNCHANGED <<element_levels_, link_locks_, global_lock_>>
      /\ Elements' = Elements /\ th[t].pc = "entry"
  BY DEF ReadEntry, Elements, At
<1>3. /\ \A u \in Threads \ {t} : th'[u] = th[u]
      /\ th'[t] = d
  BY <1>1 DEF TypeInv
<1>4. th[t].upd = FALSE /\ th[t].level \in Nat /\ Inserting(t) /\ max_level_ \in Int
  BY <1>2 DEF TypeInv, Sane, Inserting
<1>5. /\ d.id = th[t].id /\ d.level = th[t].level /\ d.max = th[t].max
      /\ d.pc \notin {"idle", "global"} /\ d.upd = FALSE
  BY <1>1, <1>4 DEF Walked
<1>6. \A u \in Threads : SameInsertion(u)
  BY <1>2, <1>3, <1>4, <1>5 DEF Inserting, SameInsertion
<1>7. CASE entry_id_ # None
  BY <1>2, <1>6, <1>7, ReadEntryFacts, SameLocks DEF top
<1>8. CASE entry_id_ = None
  <2>1. max_level_ = -1 /\ entry_id_' = 0 /\ max_level_' = th[t].level
    BY <1>8, ReadEntryFacts DEF LockInv, TopInv
  <2>2. th[t].max \in Int /\ th[t].level > th[t].max /\ global_lock_ = t
    BY <1>2, <1>4, <2>1 DEF LockInv, InsertionInv
  <2>3. InsertionInv'
    <3> SUFFICES ASSUME NEW u \in Threads, Inserting(u)'
                 PROVE  /\ th'[u].id \in Elements /\ link_locks_[th'[u].id] = u
                        /\ element_levels_[th'[u].id] = th'[u].level
                        /\ th'[u].pc # "global" =>
                              /\ th'[u].max \in Int
                              /\ th'[u].level > th'[u].max => global_lock_ = u
                              /\ th'[u].level <= th'[u].max => th'[u].max <= max_level_'
      BY <1>2 DEF InsertionInv
    <3>1. /\ Inserting(u) /\ th'[u].id = th[u].id /\ th'[u].level = th[u].level
          /\ th'[u].max = th[u].max /\ (th'[u].pc = "global" <=> th[u].pc = "global")
      BY <1>6 DEF SameInsertion
    <3>2. th[u].level \in Nat
      BY <3>1 DEF Inserting, TypeInv, Sane
    <3>3. ASSUME th[u].pc # "global", th[u].level <= th[u].max PROVE FALSE
      BY <2>1, <3>1, <3>2, <3>3 DEF LockInv, InsertionInv
    <3> QED BY <3>1, <3>3 DEF LockInv, InsertionInv
  <2>4. OwnersInv'
    <3> SUFFICES ASSUME NEW i \in Ids, link_locks_[i] # Free
                 PROVE  Inserting(link_locks_[i])' /\ th'[link_locks_[i]].id = i
      BY <1>2 DEF OwnersInv, Inserting
    <3>1. link_locks_[i] \in Threads
      BY DEF TypeInv
    <3>2. Inserting(link_locks_[i]) /\ th[link_locks_[i]].id = i
      BY DEF LockInv, OwnersInv
    <3> QED BY <1>2, <1>6, <3>1, <3>2 DEF SameInsertion, Inserting
  <2>5. GlobalInv'
    <3> SUFFICES /\ Inserting(t)' /\ th'[t].pc # "global" /\ th'[t].level > th'[t].max
                 /\ max_level_' <= th'[t].level
      BY <1>2, <2>2 DEF GlobalInv, Inserting
    <3> QED BY <1>2, <1>3, <1>4, <1>5, <2>1, <2>2 DEF Inserting
  <2>6. TopInv'
    <3>1. \A i \in Elements : element_levels_[i] \in Nat
      BY HnswAssumption DEF TypeInv, Elements, Ids
    <3>2. \A i \in Elements : LockFree(i) => FALSE
      BY <2>1, <3>1 DEF LockInv, TopInv
    <3>3. t # Free
      BY HnswAssumption
    <3>4. \A i \in Elements' : ~LockFree(i)'
      BY <1>2, <3>2 DEF LockFree
    <3> QED BY <1>2, <2>1, <2>2, <3>3, <3>4 DEF TopInv, None
  <2> QED BY <2>3, <2>4, <2>5, <2>6 DEF LockInv
<1> QED BY <1>7, <1>8
LEMMA PublishKeepsLocks ==
    ASSUME TypeInv, LockInv, NEW t \in Threads, Publish(t)
    PROVE  LockInv'
<1>1. /\ UNCHANGED element_levels_ /\ Elements' = Elements
      /\ th[t].pc = "publish" /\ th' = [th EXCEPT ![t] = Idle]
      /\ link_locks_' = [link_locks_ EXCEPT ![th[t].id] = Free]
      /\ IF th[t].level > th[t].max
         THEN entry_id_' = th[t].id /\ max_level_' = th[t].level /\ global_lock_' = Free
         ELSE UNCHANGED <<entry_id_, max_level_, global_lock_>>
  BY DEF Publish, graph, names, top, Elements, At, Step
<1>2. /\ \A u \in Threads \ {t} : th'[u] = th[u]
      /\ th'[t] = Idle
  BY <1>1 DEF TypeInv
<1>3. th[t].upd = FALSE /\ th[t].level \in Nat /\ Inserting(t) /\ max_level_ \in Int
  BY <1>1 DEF TypeInv, Sane, Inserting
<1>4. /\ th[t].id \in Elements /\ link_locks_[th[t].id] = t
      /\ element_levels_[th[t].id] = th[t].level /\ th[t].max \in Int
      /\ th[t].level > th[t].max => global_lock_ = t
      /\ th[t].level <= th[t].max => th[t].max <= max_level_
  BY <1>1, <1>3 DEF LockInv, InsertionInv
<1>5. th[t].level > th[t].max => max_level_ <= th[t].level
  BY <1>4, HnswAssumption DEF LockInv, GlobalInv
<1>6. /\ max_level_' \in Int /\ max_level_ <= max_level_' /\ th[t].level <= max_level_'
  BY <1>1, <1>3, <1>4, <1>5
<1>7. \A u \in Threads : Inserting(u)' <=> Inserting(u) /\ u # t
  BY <1>2, IdleFacts DEF Inserting
<1>8. Elements \subseteq Ids
  BY HnswAssumption DEF TypeInv, Elements, Ids
<1>9. InsertionInv'
  <2> SUFFICES ASSUME NEW u \in Threads, Inserting(u)'
               PROVE  /\ th'[u].id \in Elements /\ link_locks_'[th'[u].id] = u
                      /\ element_levels_[th'[u].id] = th'[u].level
                      /\ th'[u].pc # "global" =>
                            /\ th'[u].max \in Int
                            /\ th'[u].level > th'[u].max => global_lock_' = u
                            /\ th'[u].level <= th'[u].max => th'[u].max <= max_level_'
    BY <1>1 DEF InsertionInv
  <2>1. Inserting(u) /\ u # t /\ th'[u] = th[u]
    BY <1>2, <1>7
  <2>2. /\ th[u].id \in Elements /\ link_locks_[th[u].id] = u
        /\ element_levels_[th[u].id] = th[u].level
    BY <2>1 DEF LockInv, InsertionInv
  <2>3. link_locks_'[th[u].id] = u
    BY <1>1, <1>4, <1>8, <2>1, <2>2 DEF TypeInv
  <2>4. ASSUME th[u].pc # "global"
        PROVE  /\ th[u].max \in Int
               /\ th[u].level > th[u].max => global_lock_' = u
               /\ th[u].level <= th[u].max => th[u].max <= max_level_'
    <3>1. /\ th[u].max \in Int
          /\ th[u].level > th[u].max => global_lock_ = u
          /\ th[u].level <= th[u].max => th[u].max <= max_level_
      BY <2>1, <2>4 DEF LockInv, InsertionInv
    <3> QED BY <1>1, <1>3, <1>4, <1>6, <2>1, <3>1
  <2> QED BY <2>1, <2>2, <2>3, <2>4
<1>10. OwnersInv'
  <2> SUFFICES ASSUME NEW i \in Ids, link_locks_'[i] # Free
               PROVE  /\ th'[link_locks_'[i]].pc # "idle" /\ th'[link_locks_'[i]].upd = FALSE
                      /\ th'[link_locks_'[i]].id = i
    BY DEF OwnersInv, Inserting
  <2>1. i # th[t].id /\ link_locks_'[i] = link_locks_[i]
    BY <1>1 DEF TypeInv
  <2>2. link_locks_[i] \in Threads /\ Inserting(link_locks_[i]) /\ th[link_locks_[i]].id = i
    BY <2>1 DEF LockInv, OwnersInv, TypeInv
  <2>3. link_locks_[i] # t
    BY <2>1, <2>2
  <2> QED BY <1>2, <2>1, <2>2, <2>3 DEF Inserting
<1>11. GlobalInv'
  <2> SUFFICES ASSUME global_lock_' # Free
               PROVE  /\ th'[global_lock_'].pc \notin {"idle", "global"}
                      /\ th'[global_lock_'].upd = FALSE
                      /\ th'[global_lock_'].level > th'[global_lock_'].max
                      /\ max_level_' <= th'[global_lock_'].level
    BY DEF GlobalInv, Inserting
  <2>1. ~(th[t].level > th[t].max) /\ UNCHANGED <<entry_id_, max_level_, global_lock_>>
    BY <1>1
  <2>2. /\ global_lock_ \in Threads /\ Inserting(global_lock_) /\ th[global_lock_].pc # "global"
        /\ th[global_lock_].level > th[global_lock_].max
        /\ max_level_ <= th[global_lock_].level
    BY <2>1 DEF LockInv, GlobalInv, TypeInv
  <2>3. global_lock_ # t
    BY <2>1, <2>2
  <2> QED BY <1>2, <2>1, <2>2, <2>3 DEF Inserting
<1>12. TopInv'
  <2>1. ASSUME NEW i \in Elements, link_locks_'[i] = Free
        PROVE  element_levels_[i] <= max_level_'
    <3>1. CASE i = th[t].id
      BY <1>4, <1>6, <3>1
    <3>2. CASE i # th[t].id
      <4>1. LockFree(i) /\ i \in Ids
        BY <1>1, <1>8, <2>1, <3>2 DEF LockFree, TypeInv
      <4>2. element_levels_[i] \in Nat /\ element_levels_[i] <= max_level_
        BY <4>1 DEF LockInv, TopInv, TypeInv
      <4> QED BY <1>3, <1>6, <4>2
    <3> QED BY <3>1, <3>2
  <2>2. entry_id_' = None => max_level_' = -1
    <3>1. th[t].id # None
      BY <1>4 DEF Elements, None
    <3> QED BY <1>1, <3>1 DEF LockInv, TopInv
  <2>3. ASSUME global_lock_' = Free, entry_id_' # None
        PROVE  entry_id_' \in Elements /\ element_levels_[entry_id_'] = max_level_'
    BY <1>1, <1>4, <2>3 DEF LockInv, TopInv
  <2> QED BY <1>1, <2>1, <2>2, <2>3 DEF TopInv, LockFree
<1> QED BY <1>9, <1>10, <1>11, <1>12 DEF LockInv

LEMMA ReserveKeepsLocks ==
    ASSUME TypeInv, LockInv, NEW t \in Threads, NEW l \in Labels, NEW p \in Points,
           NEW lvl \in Levels, Reserve(t, l, p, lvl), At(t, "idle")
    PROVE  LockInv'
<1> DEFINE n == element_count_
<1>1. PICK d : Reserved(d, l, element_count_, lvl) /\ th' = [th EXCEPT ![t] = d]
  BY ReserveStarts
<1>2. /\ n < capacity_ /\ n' = n + 1
      /\ link_locks_' = [link_locks_ EXCEPT ![n] = t]
      /\ element_levels_' = [element_levels_ EXCEPT ![n] = lvl]
      /\ UNCHANGED <<entry_id_, max_level_, global_lock_>>
  BY DEF Reserve, top
<1>3. /\ \A u \in Threads \ {t} : th'[u] = th[u]
      /\ th'[t] = d
  BY <1>1 DEF TypeInv
<1>4. /\ n \in Nat /\ n \in Ids /\ Elements' = Elements \cup {n} /\ n \notin Elements
      /\ Elements \subseteq Ids
  BY <1>2, HnswAssumption, SMTT(30) DEF TypeInv, Elements, Ids
<1>5. ~Inserting(t) /\ t # Free
  BY HnswAssumption DEF At, Inserting
<1>6. \A i \in Ids \ {n} : link_locks_'[i] = link_locks_[i] /\ element_levels_'[i] = element_levels_[i]
  BY <1>2 DEF TypeInv
<1>7. link_locks_'[n] = t /\ element_levels_'[n] = lvl
  BY <1>2, <1>4 DEF TypeInv
<1> HIDE DEF n
<1>8. InsertionInv'
  <2> SUFFICES ASSUME NEW u \in Threads, Inserting(u)'
               PROVE  /\ th'[u].id \in Elements' /\ link_locks_'[th'[u].id] = u
                      /\ element_levels_'[th'[u].id] = th'[u].level
                      /\ th'[u].pc # "global" =>
                            /\ th'[u].max \in Int
                            /\ th'[u].level > th'[u].max => global_lock_ = u
                            /\ th'[u].level <= th'[u].max => th'[u].max <= max_level_
    BY <1>2 DEF InsertionInv
  <2>1. CASE u = t
    BY <1>1, <1>3, <1>4, <1>7, <2>1 DEF Reserved, n
  <2>2. CASE u # t
    <3>1. Inserting(u) /\ th'[u] = th[u]
      BY <1>3, <2>2 DEF Inserting
    <3>2. th[u].id \in Elements
      BY <3>1 DEF LockInv, InsertionInv
    <3>3. /\ link_locks_[th[u].id] = u /\ element_levels_[th[u].id] = th[u].level
          /\ th[u].pc # "global" =>
                /\ th[u].max \in Int
                /\ th[u].level > th[u].max => global_lock_ = u
                /\ th[u].level <= th[u].max => th[u].max <= max_level_
      BY <3>1 DEF LockInv, InsertionInv
    <3>4. th[u].id \in Ids \ {n} /\ th[u].id \in Elements'
      BY <1>4, <3>2
    <3> QED BY <1>6, <3>1, <3>3, <3>4
  <2> QED BY <2>1, <2>2
<1>9. OwnersInv'
  <2> SUFFICES ASSUME NEW i \in Ids, link_locks_'[i] # Free
               PROVE  /\ th'[link_locks_'[i]].pc # "idle" /\ th'[link_locks_'[i]].upd = FALSE
                      /\ th'[link_locks_'[i]].id = i
    BY DEF OwnersInv, Inserting
  <2>1. CASE i = n
    BY <1>1, <1>3, <1>7, <2>1 DEF Reserved, n
  <2>2. CASE i # n
    <3>1. link_locks_'[i] = link_locks_[i] /\ link_locks_[i] \in Threads
      BY <1>6, <2>2 DEF TypeInv
    <3>2. Inserting(link_locks_[i]) /\ th[link_locks_[i]].id = i
      BY <3>1 DEF LockInv, OwnersInv
    <3>3. link_locks_[i] # t
      BY <1>5, <3>2
    <3> QED BY <1>3, <3>1, <3>2, <3>3 DEF Inserting
  <2> QED BY <2>1, <2>2
<1>10. GlobalInv'
  <2> SUFFICES ASSUME global_lock_ # Free
               PROVE  /\ th'[global_lock_].pc \notin {"idle", "global"}
                      /\ th'[global_lock_].upd = FALSE
                      /\ th'[global_lock_].level > th'[global_lock_].max
                      /\ max_level_ <= th'[global_lock_].level
    BY <1>2 DEF GlobalInv, Inserting
  <2>1. /\ global_lock_ \in Threads /\ Inserting(global_lock_) /\ th[global_lock_].pc # "global"
        /\ th[global_lock_].level > th[global_lock_].max
        /\ max_level_ <= th[global_lock_].level
    BY DEF LockInv, GlobalInv, TypeInv
  <2>2. global_lock_ # t
    BY <1>5, <2>1
  <2> QED BY <1>3, <2>1, <2>2 DEF Inserting
<1>11. TopInv'
  <2>1. ASSUME NEW i \in Elements', link_locks_'[i] = Free
        PROVE  element_levels_'[i] <= max_level_
    <3>1. i # n
      BY <1>5, <1>7, <2>1
    <3>2. i \in Elements /\ i \in Ids
      BY <1>4, <3>1
    <3> QED BY <1>6, <2>1, <3>1, <3>2 DEF LockInv, TopInv, LockFree
  <2>2. ASSUME global_lock_ = Free, entry_id_ # None
        PROVE  entry_id_ \in Elements' /\ element_levels_'[entry_id_] = max_level_
    BY <1>4, <1>6, <2>2 DEF LockInv, TopInv
  <2>3. entry_id_ = None => max_level_ = -1
    BY DEF LockInv, TopInv
  <2> QED BY <1>2, <2>1, <2>2, <2>3 DEF TopInv, LockFree
<1> QED BY <1>8, <1>9, <1>10, <1>11 DEF LockInv
\* A thread that starts an update is no insertion.
LEMMA UpdateKeepsLocks ==
    ASSUME IndexInv, LockInv, NEW t \in Threads, NEW l \in Labels, updatePoint(t, l)
    PROVE  LockInv'
<1>1. PICK d : Updating(d, l) /\ th' = [th EXCEPT ![t] = d]
  BY UpdateStarts
<1>2. /\ UNCHANGED <<element_levels_, entry_id_, max_level_, link_locks_, global_lock_>>
      /\ Elements' = Elements /\ At(t, "idle")
  BY DEF updatePoint, names, top, Elements
<1>3. TypeInv
  BY DEF IndexInv
<1>4. /\ \A u \in Threads \ {t} : th'[u] = th[u]
      /\ th'[t] = d
  BY <1>1, <1>3 DEF TypeInv
<1>5. ~Inserting(t) /\ ~Inserting(t)'
  BY <1>1, <1>2, <1>4, IdleFacts DEF At, Inserting, Updating
<1>6. \A u \in Threads : SameInsertion(u)
  BY <1>4, <1>5 DEF SameInsertion, Inserting
<1> QED BY <1>2, <1>3, <1>6, SameLocks

\* Outside of every call no lock is kept, and new locks are the old ones.
LEMMA QuietKeepsLocks ==
    ASSUME TypeInv, LockInv, Quiet, link_locks_' = [i \in Ids |-> Free],
           UNCHANGED <<element_levels_, element_count_, entry_id_, max_level_, global_lock_, th>>
    PROVE  LockInv'
<1>1. \A t \in Threads : ~Inserting(t)
  BY DEF Quiet, At, Inserting
<1>2. \A i \in Ids : link_locks_[i] = Free
  BY <1>1 DEF LockInv, OwnersInv, TypeInv
<1>3. link_locks_' = link_locks_
  BY <1>2 DEF TypeInv
<1>4. \A t \in Threads : SameInsertion(t)
  BY DEF SameInsertion, Inserting
<1> QED BY <1>3, <1>4, SameLocks DEF Elements

LEMMA LockStep ==
    ASSUME IndexInv, LockInv, [Next]_vars
    PROVE  LockInv'
<1> TypeInv
  BY DEF IndexInv
<1>1. CASE UNCHANGED <<element_levels_, element_count_, top, link_locks_, global_lock_, th>>
  <2>1. \A t \in Threads : SameInsertion(t)
    BY <1>1 DEF SameInsertion, Inserting
  <2> QED BY <1>1, <2>1, SameLocks DEF Elements, top
<1>2. ASSUME NEW l \in Labels, OnLabel(l)
      PROVE  LockInv'
  BY <1>1, <1>2 DEF OnLabel, markDelete, unmarkDelete, Mark, Keep, Relabel, Unmark, Erase, graph, names
<1>3. ASSUME NEW n \in element_count_ .. MaxCapacity, resizeIndex(n)
      PROVE  LockInv'
  BY <1>3, QuietKeepsLocks DEF resizeIndex, graph, top
<1>4. CASE SaveAndLoad
  BY <1>4, QuietKeepsLocks DEF SaveAndLoad, graph, top
<1>5. CASE UNCHANGED vars
  BY <1>1, <1>5 DEF vars, graph, names
<1>6. ASSUME NEW l \in Labels, NEW p \in Points, UpdateExisting(l, p) \/ addPoint_reuse(l, p)
      PROVE  LockInv'
  BY <1>1, <1>6 DEF UpdateExisting, addPoint_reuse, graph, names
<1>7. CASE Next
  BY <1>2, <1>3, <1>4, <1>7, <1>6, NextCases, WalkKeepsLocks, ReadMaxLevelKeepsLocks,
     ReadEntryKeepsLocks, PublishKeepsLocks, ReserveKeepsLocks, UpdateKeepsLocks
<1> QED BY <1>5, <1>7

\* The locks of the insertions and the entry point in every state.
LEMMA LockInvariant == Spec => []LockInv
<1>1. Init => LockInv
  BY LockInit
<1>2. IndexInv /\ LockInv /\ [Next]_vars => LockInv'
  BY LockStep
<1> QED BY <1>1, <1>2, IndexInvariant, PTL DEF Spec

(***************************************************************************)
(* Outside of an insertion above the top level, the entry point is an      *)
(* element of the top level and no finished element is higher, however     *)
(* many insertions, updates and deletions overlap: an addPoint that gave   *)
(* up global_lock_ before it read entry_id_ relies on it.                  *)
(***************************************************************************)
THEOREM EntryAlwaysOnTop == Spec => []EntryOnTop
<1>1. LockInv => EntryOnTop
  BY DEF LockInv, TopInv, EntryOnTop
<1> QED BY <1>1, LockInvariant, PTL
-----------------------------------------------------------------------------
(* The label map.                                                          *)

\* An insertion whose element is in the label map and does not carry its label yet.
Pending(t) == th[t].pc \in {"global", "entry"}

(* The label map leads to the element that carries the label, or to the    *)
(* one a pending insertion is about to give it to, and nowhere else.       *)
LabelInv ==
    /\ \A i \in Ids \ Elements : label[i] = Free
    /\ \A i \in Elements : label[i] # Free => label_map_[label[i]] = i
    /\ \A t \in Threads : Pending(t) =>
          label_map_[th[t].label] = th[t].id /\ label[th[t].id] = Free
    /\ \A l \in Labels : label_map_[l] # None =>
          label[label_map_[l]] = l \/ \E t \in Threads : Pending(t) /\ th[t].label = l

\* No two insertions work on the same element, and each on an element of the index.
LEMMA PendingApart ==
    ASSUME TypeInv, LockInv, NEW t \in Threads, Pending(t)
    PROVE  /\ th[t].id \in Elements /\ th[t].label \in Labels
           /\ \A u \in Threads : Pending(u) /\ u # t => th[u].id # th[t].id
<1>1. \A u \in Threads : Pending(u) => Inserting(u)
  BY DEF Pending, Inserting, TypeInv, Sane
<1> QED BY <1>1 DEF LockInv, InsertionInv, TypeInv, Sane, Pending

LEMMA LabelInit == Init => LabelInv
<1> SUFFICES ASSUME Init PROVE LabelInv
  OBVIOUS
<1>1. \A t \in Threads : ~Pending(t)
  BY IdleFacts DEF Init, Pending
<1>2. /\ label = [i \in Ids |-> Free] /\ label_map_ = [l \in Labels |-> None]
      /\ element_count_ = 0
  BY DEF Init
<1> QED BY <1>1, <1>2 DEF LabelInv, Elements

\* A step that changes neither the labels nor a pending insertion.
SamePending(t) ==
    /\ Pending(t)' <=> Pending(t)
    /\ Pending(t) => th'[t].id = th[t].id /\ th'[t].label = th[t].label

LEMMA SameLabels ==
    ASSUME LabelInv, \A t \in Threads : SamePending(t),
           UNCHANGED <<label, label_map_, element_count_>>
    PROVE  LabelInv'
<1>1. ASSUME NEW t \in Threads, Pending(t)'
      PROVE  label_map_[th'[t].label] = th'[t].id /\ label[th'[t].id] = Free
  BY <1>1 DEF LabelInv, SamePending
<1>2. ASSUME NEW l \in Labels, label_map_[l] # None
      PROVE  label[label_map_[l]] = l \/ \E t \in Threads : Pending(t)' /\ th'[t].label = l
  BY <1>2 DEF LabelInv, SamePending
<1> QED BY <1>1, <1>2 DEF LabelInv, Elements

LEMMA WalkKeepsLabels ==
    ASSUME TypeInv, LabelInv, NEW t \in Threads, Walk(t)
    PROVE  LabelInv'
<1>1. PICK d : Walked(th[t], d) /\ th' = [th EXCEPT ![t] = d]
  BY DEF Walk
<1>2. ~Pending(t) /\ UNCHANGED <<label, label_map_, element_count_>>
  BY DEF Walk, Pending, names
<1>3. /\ \A u \in Threads \ {t} : th'[u] = th[u]
      /\ th'[t] = d
  BY <1>1 DEF TypeInv
<1>4. ~Pending(t)'
  BY <1>1, <1>3, IdleFacts DEF Walked, Pending
<1>5. \A u \in Threads : SamePending(u)
  BY <1>2, <1>3, <1>4 DEF SamePending, Pending
<1> QED BY <1>2, <1>5, SameLabels

LEMMA ReadMaxLevelKeepsLabels ==
    ASSUME TypeInv, LabelInv, NEW t \in Threads, ReadMaxLevel(t)
    PROVE  LabelInv'
<1>1. PICK d : MaxRead(th[t], d) /\ th' = [th EXCEPT ![t] = d]
  BY ReadMaxLevelSteps
<1>2. Pending(t) /\ UNCHANGED <<label, label_map_, element_count_>>
  BY DEF ReadMaxLevel, At, Pending, names
<1>3. /\ \A u \in Threads \ {t} : th'[u] = th[u]
      /\ th'[t] = d
  BY <1>1 DEF TypeInv
<1>4. \A u \in Threads : SamePending(u)
  BY <1>1, <1>2, <1>3 DEF SamePending, Pending, MaxRead
<1> QED BY <1>2, <1>4, SameLabels

LEMMA PublishKeepsLabels ==
    ASSUME TypeInv, LabelInv, NEW t \in Threads, Publish(t)
    PROVE  LabelInv'
<1>1. /\ ~Pending(t) /\ th' = [th EXCEPT ![t] = Idle]
      /\ UNCHANGED <<label, label_map_, element_count_>>
  BY DEF Publish, At, Pending, names, Step
<1>2. /\ \A u \in Threads \ {t} : th'[u] = th[u]
      /\ th'[t] = Idle
  BY <1>1 DEF TypeInv
<1>3. \A u \in Threads : SamePending(u)
  BY <1>1, <1>2, IdleFacts DEF SamePending, Pending
<1> QED BY <1>1, <1>3, SameLabels

LEMMA UpdatePointKeepsLabels ==
    ASSUME TypeInv, LabelInv, NEW t \in Threads, NEW l \in Labels, updatePoint(t, l)
    PROVE  LabelInv'
<1>1. PICK d : Updating(d, l) /\ th' = [th EXCEPT ![t] = d]
  BY UpdateStarts
<1>2. ~Pending(t) /\ UNCHANGED <<label, label_map_, element_count_>>
  BY DEF updatePoint, At, Pending, names
<1>3. /\ \A u \in Threads \ {t} : th'[u] = th[u]
      /\ th'[t] = d
  BY <1>1 DEF TypeInv
<1>4. ~Pending(t)'
  BY <1>1, <1>3, IdleFacts DEF Updating, Pending
<1>5. \A u \in Threads : SamePending(u)
  BY <1>2, <1>3, <1>4 DEF SamePending, Pending
<1> QED BY <1>2, <1>5, SameLabels
LEMMA ReadEntryKeepsLabels ==
    ASSUME TypeInv, LockInv, LabelInv, NEW t \in Threads, ReadEntry(t)
    PROVE  LabelInv'
<1> DEFINE i == th[t].id
           l == th[t].label
<1>1. PICK d : Walked(th[t], d) /\ th' = [th EXCEPT ![t] = d] /\ d # Idle
  BY ReadEntrySteps
<1>2. Pending(t) /\ UNCHANGED <<label_map_, element_count_>> /\ Elements' = Elements
  BY DEF ReadEntry, At, Pending, Elements
<1>3. /\ i \in Elements /\ l \in Labels
      /\ \A u \in Threads : Pending(u) /\ u # t => th[u].id # i
  BY <1>2, PendingApart
<1>4. i \in Ids /\ Elements \subseteq Ids
  BY <1>3, HnswAssumption DEF TypeInv, Elements, Ids
<1>5. label'[i] = l /\ \A j \in Ids \ {i} : label'[j] = label[j]
  BY <1>4, ReadEntryFacts DEF TypeInv
<1>6. /\ \A u \in Threads \ {t} : th'[u] = th[u]
      /\ th'[t] = d
  BY <1>1 DEF TypeInv
<1>7. ~Pending(t)'
  BY <1>1, <1>6 DEF Walked, Pending
<1>8. label_map_[l] = i /\ label[i] = Free /\ l # Free
  BY <1>2, <1>3, HnswAssumption DEF LabelInv
<1> HIDE DEF i, l
<1>9. \A j \in Ids \ Elements : label'[j] = Free
  BY <1>3, <1>5 DEF LabelInv
<1>10. ASSUME NEW j \in Elements, label'[j] # Free PROVE label_map_[label'[j]] = j
  BY <1>4, <1>5, <1>8, <1>10 DEF LabelInv
<1>11. ASSUME NEW u \in Threads, Pending(u)'
       PROVE  label_map_[th'[u].label] = th'[u].id /\ label'[th'[u].id] = Free
  <2>1. u # t /\ th'[u] = th[u] /\ Pending(u)
    BY <1>6, <1>7, <1>11 DEF Pending
  <2>2. th[u].id \in Elements
    BY <2>1, PendingApart
  <2> QED BY <1>3, <1>4, <1>5, <2>1, <2>2 DEF LabelInv
<1>12. ASSUME NEW k \in Labels, label_map_[k] # None
       PROVE  label'[label_map_[k]] = k \/ \E u \in Threads : Pending(u)' /\ th'[u].label = k
  <2>1. label_map_[k] \in Elements
    BY <1>12 DEF TypeInv
  <2>2. CASE label[label_map_[k]] = k
    <3>1. label_map_[k] # i
      BY <1>8, <2>2, HnswAssumption
    <3> QED BY <1>4, <1>5, <2>1, <2>2, <3>1
  <2>3. CASE \E u \in Threads : Pending(u) /\ th[u].label = k
    <3>1. PICK u \in Threads : Pending(u) /\ th[u].label = k
      BY <2>3
    <3>2. CASE u = t
      BY <1>5, <1>8, <3>1, <3>2 DEF l
    <3>3. CASE u # t
      BY <1>6, <3>1, <3>3 DEF Pending
    <3> QED BY <3>2, <3>3
  <2> QED BY <1>12, <2>2, <2>3 DEF LabelInv
<1> QED BY <1>2, <1>9, <1>10, <1>11, <1>12 DEF LabelInv

LEMMA ReserveKeepsLabels ==
    ASSUME TypeInv, LockInv, LabelInv, NEW t \in Threads, NEW l \in Labels, NEW p \in Points,
           NEW lvl \in Levels, At(t, "idle"), LabelFree(l), Reserve(t, l, p, lvl)
    PROVE  LabelInv'
<1> DEFINE n == element_count_
<1>1. PICK d : Reserved(d, l, n, lvl) /\ th' = [th EXCEPT ![t] = d]
  BY ReserveStarts
<1>2. /\ n < capacity_ /\ n' = n + 1 /\ label_map_[l] = None
      /\ label_map_' = [label_map_ EXCEPT ![l] = n] /\ UNCHANGED label
  BY DEF Reserve
<1>3. /\ n \in Nat /\ n \in Ids /\ Elements' = Elements \cup {n} /\ n \notin Elements
  BY <1>2, HnswAssumption, SMTT(30) DEF TypeInv, Elements, Ids
<1>4. /\ \A u \in Threads \ {t} : th'[u] = th[u]
      /\ th'[t] = d
  BY <1>1 DEF TypeInv
<1>5. label_map_'[l] = n /\ \A k \in Labels \ {l} : label_map_'[k] = label_map_[k]
  BY <1>2 DEF TypeInv
<1>6. label[n] = Free
  BY <1>3 DEF LabelInv
<1>7. d.pc = "global" /\ d.label = l /\ d.id = n
  BY <1>1 DEF Reserved
<1> HIDE DEF n
<1>8. \A j \in Ids \ Elements' : label[j] = Free
  BY <1>3 DEF LabelInv
<1>9. ASSUME NEW j \in Elements', label[j] # Free PROVE label_map_'[label[j]] = j
  <2>1. j \in Elements /\ j \in Ids /\ label[j] \in Labels
    BY <1>3, <1>6, <1>9, HnswAssumption DEF TypeInv, Elements, Ids
  <2>2. label_map_[label[j]] = j /\ j # None
    BY <1>9, <2>1 DEF LabelInv, Elements, None
  <2> QED BY <1>2, <1>5, <2>1, <2>2
<1>10. ASSUME NEW u \in Threads, Pending(u)'
       PROVE  label_map_'[th'[u].label] = th'[u].id /\ label[th'[u].id] = Free
  <2>1. CASE u = t
    BY <1>4, <1>5, <1>6, <1>7, <2>1
  <2>2. CASE u # t
    <3>1. th'[u] = th[u] /\ Pending(u)
      BY <1>4, <1>10, <2>2 DEF Pending
    <3>2. th[u].label \in Labels /\ th[u].label # l
      BY <3>1, PendingApart DEF LabelFree
    <3> QED BY <1>5, <3>1, <3>2 DEF LabelInv
  <2> QED BY <2>1, <2>2
<1>11. ASSUME NEW k \in Labels, label_map_'[k] # None
       PROVE  label[label_map_'[k]] = k \/ \E u \in Threads : Pending(u)' /\ th'[u].label = k
  <2>1. CASE k = l
    BY <1>4, <1>7, <2>1 DEF Pending
  <2>2. CASE k # l
    <3>1. label_map_'[k] = label_map_[k]
      BY <1>5, <2>2
    <3>2. CASE label[label_map_[k]] = k
      BY <3>1, <3>2
    <3>3. CASE \E u \in Threads : Pending(u) /\ th[u].label = k
      <4>1. PICK u \in Threads : Pending(u) /\ th[u].label = k
        BY <3>3
      <4>2. u # t
        BY <4>1 DEF Pending, At
      <4> QED BY <1>4, <4>1, <4>2 DEF Pending
    <3> QED BY <1>11, <3>1, <3>2, <3>3 DEF LabelInv
  <2> QED BY <2>1, <2>2
<1> QED BY <1>2, <1>8, <1>9, <1>10, <1>11 DEF LabelInv

(***************************************************************************)
(* The calls on labels, when updates run alone.  Follows(i): whether the   *)
(* element may be reused is what its mark says.                            *)
(***************************************************************************)
Follows(i) == i \in deleted_elements_ <=> reuse_deleted_ /\ i \in deleted
Working == {op[l].id : l \in {l \in Labels : op[l].pc # "none"}}

\* What a call knows of its element between two of its steps.
MarkKnown(o) ==
    /\ o.pc \in {"mark", "exists"} => Follows(o.id)
    /\ o.pc = "exists" => ~(reuse_deleted_ /\ o.id \in deleted)
    /\ o.pc = "unmark" /\ ~o.upd => ~reuse_deleted_ /\ o.id \notin deleted_elements_
    /\ o.pc = "keep" => reuse_deleted_ /\ o.id \in deleted
    /\ o.pc = "relabel" \/ (o.pc = "unmark" /\ o.upd) =>
          reuse_deleted_ /\ o.id \in deleted /\ o.id \notin deleted_elements_
    /\ o.pc = "erase" => reuse_deleted_ /\ o.id \notin deleted
    /\ o.pc = "update" => o.id \notin deleted /\ o.id \notin deleted_elements_

(* An update has the index to itself and brings a new vector; a deletion   *)
(* works on the element that carries its label; every other element may be *)
(* reused when its mark says so.                                           *)
UpdatesAlone ==
    \A l \in Labels : op[l].upd /\ op[l].pc # "none" =>
        /\ \A t \in Threads : At(t, "idle")
        /\ \A k \in Labels \ {l} : op[k].pc = "none"
        /\ op[l].p \in Points /\ \A j \in Elements : data[j] # op[l].p
        /\ op[l].pc = "relabel" => label_map_[l] = None
CallInv ==
    /\ UpdatesAlone
    /\ \A t \in Threads : th[t].upd => NoOps
    /\ \A l \in Labels : op[l].pc # "none" /\ ~op[l].upd => label[op[l].id] = l
    /\ \A l \in Labels : MarkKnown(op[l])
    /\ \A i \in Elements \ Working : Follows(i)

LEMMA CallInit == Init => CallInv
<1> SUFFICES ASSUME Init PROVE CallInv
  OBVIOUS
<1>1. \A l \in Labels : op[l].pc = "none"
  BY DEF Init, NoOp
<1>2. deleted = {} /\ deleted_elements_ = {}
  BY DEF Init
<1> QED BY <1>1, <1>2 DEF CallInv, UpdatesAlone, NoOps, MarkKnown, Follows

\* Without calls on labels, the marks are what matters.
LEMMA NoCalls ==
    ASSUME \A l \in Labels : op'[l].pc = "none", \A i \in Elements' : Follows(i)'
    PROVE  CallInv'
BY DEF CallInv, UpdatesAlone, NoOps, MarkKnown

\* The steps of a thread inside a call leave the calls on labels alone.
LEMMA ThreadKeepsCalls ==
    ASSUME CallInv, TypeInv, NEW t \in Threads, ~At(t, "idle"),
           UNCHANGED <<op, deleted, deleted_elements_, reuse_deleted_, element_count_>>,
           \A u \in Threads : th'[u].upd => th[u].upd,
           \A i \in Elements : label[i] # Free => label'[i] = label[i]
    PROVE  CallInv'
<1>1. \A l \in Labels : op[l].pc # "none" => ~op[l].upd
  BY DEF CallInv, UpdatesAlone
<1>2. UpdatesAlone'
  BY <1>1 DEF UpdatesAlone
<1>3. \A u \in Threads : th'[u].upd => NoOps'
  BY DEF CallInv, NoOps
<1>4. ASSUME NEW l \in Labels, op[l].pc # "none", ~op[l].upd
      PROVE  label'[op[l].id] = l
  BY <1>4, OpFacts, HnswAssumption DEF CallInv
<1>5. \A l \in Labels : MarkKnown(op[l])'
  BY DEF CallInv, MarkKnown, Follows
<1>6. \A i \in Elements' \ Working' : Follows(i)'
  BY DEF CallInv, Follows, Working, Elements
<1> QED BY <1>2, <1>3, <1>4, <1>5, <1>6 DEF CallInv

LEMMA RelabelKeepsLabels ==
    ASSUME IndexInv, LabelInv, CallInv, NEW l \in Labels, Relabel(l)
    PROVE  LabelInv'
<1> DEFINE i == op[l].id
<1>1. TypeInv /\ op[l].pc = "relabel" /\ op[l].upd /\ i \in Elements
  BY OpFacts DEF IndexInv, Relabel
<1>2. /\ label' = [label EXCEPT ![i] = l]
      /\ label_map_' = [label_map_ EXCEPT ![label[i]] = None, ![l] = i]
      /\ UNCHANGED <<element_count_, th>> /\ Elements' = Elements
  BY DEF Relabel, Elements
<1>3. i \in Ids /\ Elements \subseteq Ids /\ l # Free /\ label_map_[l] = None
  BY <1>1, HnswAssumption DEF CallInv, UpdatesAlone, TypeInv, Elements, Ids
<1>5. \A u \in Threads : ~Pending(u) /\ ~Pending(u)'
  BY <1>1, <1>2 DEF CallInv, UpdatesAlone, At, Pending
<1> HIDE DEF i
<1>6. label'[i] = l /\ \A j \in Ids \ {i} : label'[j] = label[j]
  BY <1>1, <1>2, <1>3 DEF TypeInv
<1>7. /\ label_map_'[l] = i
      /\ \A k \in Labels \ {l} : label_map_'[k] = IF k = label[i] THEN None ELSE label_map_[k]
  BY <1>1, <1>2, <1>3 DEF TypeInv
<1>8. \A j \in Ids \ Elements : label'[j] = Free
  BY <1>1, <1>3, <1>6 DEF LabelInv
<1>9. ASSUME NEW j \in Elements, label'[j] # Free PROVE label_map_'[label'[j]] = j
  <2>1. CASE j = i
    BY <1>6, <1>7, <2>1
  <2>2. CASE j # i
    <3>1. label'[j] = label[j] /\ label[j] \in Labels
      BY <1>1, <1>3, <1>6, <1>9, <2>2 DEF TypeInv
    <3>2. label_map_[label[j]] = j /\ j # None
      BY <1>9, <3>1 DEF LabelInv, Elements, None
    <3>3. label[j] # label[i]
      BY <1>3, <1>9, <2>2, <3>1, <3>2 DEF LabelInv
    <3>4. label[j] # l
      BY <1>3, <3>2
    <3> QED BY <1>7, <3>1, <3>2, <3>3, <3>4
  <2> QED BY <2>1, <2>2
<1>10. ASSUME NEW k \in Labels, label_map_'[k] # None PROVE label'[label_map_'[k]] = k
  <2>1. CASE k = l
    BY <1>6, <1>7, <2>1
  <2>2. CASE k # l
    <3>1. k # label[i] /\ label_map_'[k] = label_map_[k]
      BY <1>7, <1>10, <2>2
    <3>2. label_map_[k] \in Ids /\ label[label_map_[k]] = k
      BY <1>1, <1>3, <1>5, <1>10, <3>1 DEF LabelInv, TypeInv
    <3>3. label_map_[k] # i
      BY <3>1, <3>2
    <3> QED BY <1>6, <3>1, <3>2, <3>3
  <2> QED BY <2>1, <2>2
<1> QED BY <1>2, <1>5, <1>8, <1>9, <1>10 DEF LabelInv

\* loadIndex rebuilds the map it found.
LEMMA LoadKeepsLabels ==
    ASSUME TypeInv, LabelInv, SaveAndLoad
    PROVE  LabelInv'
<1>1. /\ Quiet /\ UNCHANGED <<element_count_, label, th>>
      /\ label_map_' = [l \in Labels |->
                           IF \E i \in Elements : label[i] = l
                           THEN Max({i \in Elements : label[i] = l}) ELSE None]
  BY DEF SaveAndLoad, Elements
<1>2. \A t \in Threads : ~Pending(t)
  BY <1>1 DEF Quiet, At, Pending
<1>3. ASSUME NEW l \in Labels, \E i \in Elements : label[i] = l
      PROVE  Max({i \in Elements : label[i] = l}) = label_map_[l]
  <2>1. PICK i \in Elements : label[i] = l
    BY <1>3
  <2>2. l # Free
    BY HnswAssumption
  <2>3. \A j \in Elements : label[j] = l <=> j = label_map_[l]
    BY <2>1, <2>2 DEF LabelInv
  <2>4. label_map_[l] = i
    BY <2>1, <2>3
  <2>5. {j \in Elements : label[j] = l} = {i}
    BY <2>1, <2>3, <2>4
  <2>6. i \in Int
    BY DEF Elements
  <2>7. Max({i}) = i
    BY <2>6 DEF Max
  <2> QED BY <2>4, <2>5, <2>7
<1>4. ASSUME NEW l \in Labels, ~\E i \in Elements : label[i] = l
      PROVE  label_map_[l] = None
  BY <1>2, <1>4 DEF LabelInv, TypeInv
<1>5. \A l \in Labels : label_map_'[l] = label_map_[l]
  BY <1>1, <1>3, <1>4
<1>6. label_map_' = label_map_
  BY <1>1, <1>5 DEF TypeInv
<1>7. \A t \in Threads : SamePending(t)
  BY <1>1 DEF SamePending, Pending
<1> QED BY <1>1, <1>6, <1>7, SameLabels

LEMMA LabelStep ==
    ASSUME IndexInv, LockInv, LabelInv, CallInv, [Next]_vars
    PROVE  LabelInv'
<1> TypeInv
  BY DEF IndexInv
<1>1. CASE UNCHANGED <<label, label_map_, element_count_, th>>
  <2>1. \A t \in Threads : SamePending(t)
    BY <1>1 DEF SamePending, Pending
  <2> QED BY <1>1, <2>1, SameLabels
<1>2. ASSUME NEW l \in Labels, OnLabel(l)
      PROVE  LabelInv'
  <2>1. CASE Relabel(l)
    BY <2>1, RelabelKeepsLabels
  <2>2. CASE ~Relabel(l)
    BY <1>1, <1>2, <2>2 DEF OnLabel, markDelete, unmarkDelete, Mark, Keep, Unmark, Erase, names
  <2> QED BY <2>1, <2>2
<1>3. ASSUME NEW l \in Labels, NEW p \in Points, UpdateExisting(l, p) \/ addPoint_reuse(l, p)
      PROVE  LabelInv'
  BY <1>1, <1>3 DEF UpdateExisting, addPoint_reuse, names
<1>4. ASSUME NEW n \in element_count_ .. MaxCapacity, resizeIndex(n)
      PROVE  LabelInv'
  BY <1>1, <1>4 DEF resizeIndex
<1>5. CASE UNCHANGED vars
  BY <1>1, <1>5 DEF vars, names
<1>6. CASE Next
  BY <1>2, <1>3, <1>4, <1>6, NextCases, WalkKeepsLabels, ReadMaxLevelKeepsLabels, ReadEntryKeepsLabels,
     PublishKeepsLabels, ReserveKeepsLabels, UpdatePointKeepsLabels, LoadKeepsLabels
<1> QED BY <1>5, <1>6

-----------------------------------------------------------------------------
(* The calls on labels.                                                    *)

\* A new element, while nothing is updated, has no mark.
LEMMA ReserveKeepsCalls ==
    ASSUME Disciplined, IndexInv, CallInv, NEW t \in Threads, NEW l \in Labels, NEW p, NEW lvl,
           Reserve(t, l, p, lvl)
    PROVE  CallInv'
<1>1. PICK d : Reserved(d, l, element_count_, lvl) /\ th' = [th EXCEPT ![t] = d]
  BY ReserveStarts
<1>2. /\ ~Updates /\ UNCHANGED <<label, op, deleted, deleted_elements_, reuse_deleted_>>
      /\ element_count_' = element_count_ + 1
  BY DEF Reserve, MayInsert, marks, history
<1>3. TypeInv /\ deleted \subseteq Elements /\ deleted_elements_ \subseteq Elements
  BY DEF IndexInv, MarksInv
<1>4. \A u \in Threads \ {t} : th'[u] = th[u]
  BY <1>1, <1>3 DEF TypeInv
<1>5. th'[t] = d /\ d.upd = FALSE
  BY <1>1, <1>3 DEF TypeInv, Reserved
<1>6. UpdatesAlone'
  BY <1>2 DEF UpdatesAlone, Updates
<1>7. \A u \in Threads : th'[u].upd => NoOps'
  BY <1>2, <1>4, <1>5 DEF Updates
<1>8. \A k \in Labels : MarkKnown(op[k])'
  BY <1>2 DEF CallInv, MarkKnown, Follows
<1>9. ASSUME NEW i \in Elements' \ Working' PROVE Follows(i)'
  <2>1. Elements' = Elements \cup {element_count_} /\ element_count_ \notin Elements
    BY <1>2, <1>3, HnswAssumption DEF TypeInv, Elements
  <2>2. i \in Elements => Follows(i)
    BY <1>2, <1>9 DEF CallInv, Working
  <2> QED BY <1>2, <1>3, <2>1, <2>2 DEF Follows
<1>10. \A k \in Labels : op'[k].pc # "none" /\ ~op'[k].upd => label'[op'[k].id] = k
  BY <1>2 DEF CallInv
<1> QED BY <1>6, <1>7, <1>8, <1>9, <1>10 DEF CallInv

\* An update that goes on to the graph ends the call on its label.
LEMMA UpdatePointKeepsCalls ==
    ASSUME IndexInv, CallInv, NEW t \in Threads, NEW l \in Labels, updatePoint(t, l)
    PROVE  CallInv'
<1>1. TypeInv /\ op[l].pc = "update" /\ op[l].upd
  BY OpFacts DEF IndexInv, updatePoint
<1>2. Others(l) /\ op'[l].pc = "none"
  BY <1>1, EndsAt DEF updatePoint
<1>3. /\ UNCHANGED <<deleted, deleted_elements_, reuse_deleted_>> /\ Elements' = Elements
  BY DEF updatePoint, marks, history, names, Elements
<1>4. \A k \in Labels \ {l} : op[k].pc = "none"
  BY <1>1 DEF CallInv, UpdatesAlone
<1>5. \A k \in Labels : op'[k].pc = "none"
  BY <1>2, <1>4 DEF Others
<1>6. ASSUME NEW i \in Elements PROVE Follows(i)
  <2>1. CASE i = op[l].id
    BY <1>1, <2>1 DEF CallInv, MarkKnown, Follows
  <2>2. CASE i # op[l].id
    BY <1>4, <2>2 DEF CallInv, Working
  <2> QED BY <2>1, <2>2
<1> QED BY <1>3, <1>5, <1>6, NoCalls DEF Follows

\* An update begins while nothing else runs, and brings a vector nobody has.
LEMMA BeginUpdateKeepsCalls ==
    ASSUME Disciplined, IndexInv, LabelInv, CallInv, NEW l \in Labels, NEW p \in Points, Unused(p),
           UpdateExisting(l, p) \/ addPoint_reuse(l, p)
    PROVE  CallInv'
<1>1. TypeInv /\ p \in Int /\ Quiet /\ UNCHANGED <<th, label_map_, data, deleted, reuse_deleted_>>
  BY HnswAssumption DEF IndexInv, UpdateExisting, addPoint_reuse, MayUpdate, graph, names, marks
<1>2. /\ Elements' = Elements /\ \A j \in Elements : data[j] # p
      /\ \A t \in Threads : At(t, "idle") /\ ~th[t].upd
  BY <1>1, IdleFacts DEF UpdateExisting, addPoint_reuse, names, Elements, Unused, Quiet, At, TypeInv, Sane
<1>3. \A k \in Labels : op[k].pc = "none"
  BY <1>1 DEF Quiet, NoOps
<1>4. \A i \in Elements : Follows(i)
  BY <1>3 DEF CallInv, Working
<1>5. PICK i \in Elements, pc \in {"exists", "relabel"} :
          /\ Begins(l, pc, TRUE, i, p)
          /\ \A j \in Elements \ {i} : Follows(j)'
          /\ pc = "exists" => Follows(i)' /\ ~(reuse_deleted_' /\ i \in deleted')
          /\ pc = "relabel" => /\ reuse_deleted_' /\ i \in deleted' /\ i \notin deleted_elements_'
                               /\ label_map_[l] = None
  <2>1. CASE UpdateExisting(l, p)
    <3>1. label_map_[l] \in Elements /\ Begins(l, "exists", TRUE, label_map_[l], p)
      BY <1>1, <2>1 DEF UpdateExisting, TypeInv
    <3>2. \A j \in Elements : Follows(j)'
      BY <1>1, <1>4, <2>1 DEF UpdateExisting, Follows, marks
    <3>3. ~(reuse_deleted_' /\ label_map_[l] \in deleted')
      BY <1>1, <2>1 DEF UpdateExisting
    <3> QED BY <3>1, <3>2, <3>3
  <2>2. CASE addPoint_reuse(l, p)
    <3>1. PICK i \in deleted_elements_ : /\ deleted_elements_' = deleted_elements_ \ {i}
                                         /\ Begins(l, "relabel", TRUE, i, p)
      BY <2>2 DEF addPoint_reuse
    <3>2. i \in Elements /\ Follows(i) /\ label_map_[l] = None
      BY <1>4, <2>2, <3>1 DEF IndexInv, MarksInv, addPoint_reuse
    <3>3. \A j \in Elements \ {i} : Follows(j)'
      BY <1>1, <1>4, <3>1 DEF Follows
    <3> QED BY <1>1, <3>1, <3>2, <3>3 DEF Follows
  <2> QED BY <2>1, <2>2
<1>6. Others(l) /\ op'[l].pc = pc /\ op'[l].upd /\ op'[l].id = i /\ op'[l].p = p
  <2>1. pc \in OpPcs
    BY <1>5 DEF OpPcs
  <2> QED BY <1>1, <1>5, <2>1, BeginsUpdateAt
<1>7. \A k \in Labels \ {l} : op'[k].pc = "none"
  BY <1>3, <1>6 DEF Others
<1>8. UpdatesAlone'
  BY <1>1, <1>2, <1>5, <1>6, <1>7 DEF UpdatesAlone, At
<1>9. \A t \in Threads : th'[t].upd => NoOps'
  BY <1>1, <1>2
<1>10. \A k \in Labels : op'[k].pc # "none" /\ ~op'[k].upd => label'[op'[k].id] = k
  BY <1>6, <1>7
<1>11. \A k \in Labels : MarkKnown(op[k])'
  BY <1>5, <1>6, <1>7 DEF MarkKnown, Follows
<1>12. \A j \in Elements' \ Working' : Follows(j)'
  <2>1. i \in Working'
    BY <1>5, <1>6 DEF Working
  <2> QED BY <1>2, <1>5, <2>1
<1> QED BY <1>8, <1>9, <1>10, <1>11, <1>12 DEF CallInv

\* The steps of a call on l, in terms of its element and of the marks.
OnMarks(l) ==
    LET i == op[l].id IN
    /\ deleted' \ {i} = deleted \ {i} /\ deleted_elements_' \ {i} = deleted_elements_ \ {i}
    /\ op'[l].pc = "none" \/ (op'[l].id = i /\ (op'[l].upd <=> op[l].upd) /\ op'[l].p = op[l].p)
    /\ MarkKnown(op[l])'
    /\ op'[l].pc = "none" => ~op[l].upd /\ (i \in deleted_elements_' <=> reuse_deleted_ /\ i \in deleted')
    /\ op'[l].pc # "relabel"

LEMMA MarkStep ==
    ASSUME IndexInv, CallInv, NEW l \in Labels,
           Mark(l) \/ Keep(l) \/ Relabel(l) \/ Unmark(l) \/ Erase(l)
    PROVE  Others(l) /\ OnMarks(l)
<1> DEFINE i == op[l].id
<1>1. /\ TypeInv /\ reuse_deleted_' = reuse_deleted_ /\ i \in Elements
      /\ op[l].upd \in BOOLEAN /\ op[l].pc # "none"
      /\ op[l].pc \in {"exists", "relabel", "update"} => op[l].upd
      /\ op[l].pc \in {"none", "mark", "keep"} => ~op[l].upd
  BY OpFacts DEF IndexInv, Mark, Keep, Relabel, Unmark, Erase, history
<1>2. MarkKnown(op[l])
  BY DEF CallInv
<1>3. Ends(l) => Others(l) /\ op'[l].pc = "none"
  BY <1>1, EndsAt
<1>4. ASSUME NEW pc \in OpPcs, Goes(l, pc)
      PROVE  Others(l) /\ op'[l].pc = pc /\ (op'[l].upd <=> op[l].upd) /\ op'[l].id = i /\ op'[l].p = op[l].p
  BY <1>1, <1>4, GoesTo
<1>5. {"keep", "unmark", "erase", "update"} \subseteq OpPcs
  BY DEF OpPcs
<1> HIDE DEF i
<1>6. CASE Mark(l)
  <2>1. CASE i \in deleted
    <3>1. deleted' = deleted /\ deleted_elements_' = deleted_elements_
      BY <1>6, <2>1 DEF Mark, marks, i
    <3>2. Others(l) /\ op'[l].pc = "none"
      BY <1>3, <1>6, <2>1 DEF Mark, AfterMarks, i
    <3> QED BY <1>1, <1>2, <1>6, <2>1, <3>1, <3>2 DEF Mark, OnMarks, MarkKnown, Follows, i
  <2>2. CASE i \notin deleted /\ reuse_deleted_
    <3>1. deleted' = deleted \cup {i} /\ deleted_elements_' = deleted_elements_
      BY <1>6, <2>2 DEF Mark, marks, i
    <3>2. /\ Others(l) /\ op'[l].pc = "keep" /\ (op'[l].upd <=> op[l].upd)
          /\ op'[l].id = i /\ op'[l].p = op[l].p
      BY <1>4, <1>5, <1>6, <2>2 DEF Mark, AfterMarks, i
    <3> QED BY <1>1, <1>2, <1>6, <2>2, <3>1, <3>2 DEF Mark, OnMarks, MarkKnown, Follows, i
  <2>3. CASE i \notin deleted /\ ~reuse_deleted_
    <3>1. deleted' = deleted \cup {i} /\ deleted_elements_' = deleted_elements_
      BY <1>6, <2>3 DEF Mark, marks, i
    <3>2. Others(l) /\ op'[l].pc = "none"
      BY <1>3, <1>6, <2>3 DEF Mark, AfterMarks, i
    <3> QED BY <1>1, <1>2, <1>6, <2>3, <3>1, <3>2 DEF Mark, OnMarks, MarkKnown, Follows, i
  <2> QED BY <1>1, <2>1, <2>2, <2>3
<1>7. CASE Keep(l)
  <2>1. deleted' = deleted /\ deleted_elements_' = deleted_elements_ \cup {i}
    BY <1>7 DEF Keep, marks, i
  <2>2. Others(l) /\ op'[l].pc = "none"
    BY <1>3, <1>7 DEF Keep, AfterMarks, i
  <2> QED BY <1>1, <1>2, <1>7, <2>1, <2>2 DEF Keep, OnMarks, MarkKnown, Follows, i
<1>8. CASE Relabel(l)
  <2>1. deleted' = deleted /\ deleted_elements_' = deleted_elements_
    BY <1>8 DEF Relabel, marks, i
  <2>2. /\ Others(l) /\ op'[l].pc = "unmark" /\ (op'[l].upd <=> op[l].upd)
        /\ op'[l].id = i /\ op'[l].p = op[l].p
    BY <1>4, <1>5, <1>8 DEF Relabel, AfterMarks, i
  <2> QED BY <1>1, <1>2, <1>8, <2>1, <2>2 DEF Relabel, OnMarks, MarkKnown, Follows, i
<1>9. CASE Unmark(l)
  <2>1. CASE i \in deleted /\ reuse_deleted_
    <3>1. deleted' = deleted \ {i} /\ deleted_elements_' = deleted_elements_
      BY <1>9, <2>1 DEF Unmark, marks, i
    <3>2. /\ Others(l) /\ op'[l].pc = "erase" /\ (op'[l].upd <=> op[l].upd)
          /\ op'[l].id = i /\ op'[l].p = op[l].p
      BY <1>4, <1>5, <1>9, <2>1 DEF Unmark, AfterMarks, i
    <3> QED BY <1>1, <1>2, <1>9, <2>1, <3>1, <3>2 DEF Unmark, OnMarks, MarkKnown, Follows, i
  <2>2. CASE i \in deleted /\ ~reuse_deleted_ /\ op[l].upd
    <3>1. deleted' = deleted \ {i} /\ deleted_elements_' = deleted_elements_
      BY <1>9, <2>2 DEF Unmark, marks, i
    <3>2. /\ Others(l) /\ op'[l].pc = "update" /\ (op'[l].upd <=> op[l].upd)
          /\ op'[l].id = i /\ op'[l].p = op[l].p
      BY <1>4, <1>5, <1>9, <2>2 DEF Unmark, AfterMarks, i
    <3> QED BY <1>1, <1>2, <1>9, <2>2, <3>1, <3>2 DEF Unmark, OnMarks, MarkKnown, Follows, i
  <2>3. CASE i \in deleted /\ ~reuse_deleted_ /\ ~op[l].upd
    <3>1. deleted' = deleted \ {i} /\ deleted_elements_' = deleted_elements_
      BY <1>9, <2>3 DEF Unmark, marks, i
    <3>2. Others(l) /\ op'[l].pc = "none"
      BY <1>3, <1>9, <2>3 DEF Unmark, AfterMarks, i
    <3> QED BY <1>1, <1>2, <1>9, <2>3, <3>1, <3>2 DEF Unmark, OnMarks, MarkKnown, Follows, i
  <2>4. CASE i \notin deleted /\ op[l].pc = "exists"
    <3>1. deleted' = deleted /\ deleted_elements_' = deleted_elements_
      BY <1>9, <2>4 DEF Unmark, marks, i
    <3>2. /\ Others(l) /\ op'[l].pc = "update" /\ (op'[l].upd <=> op[l].upd)
          /\ op'[l].id = i /\ op'[l].p = op[l].p
      BY <1>4, <1>5, <1>9, <2>4 DEF Unmark, AfterMarks, i
    <3> QED BY <1>1, <1>2, <1>9, <2>4, <3>1, <3>2 DEF Unmark, OnMarks, MarkKnown, Follows, i
  <2>5. CASE i \notin deleted /\ op[l].pc # "exists"
    <3>1. deleted' = deleted /\ deleted_elements_' = deleted_elements_
      BY <1>9, <2>5 DEF Unmark, marks, i
    <3>2. Others(l) /\ op'[l].pc = "none"
      BY <1>3, <1>9, <2>5 DEF Unmark, AfterMarks, i
    <3> QED BY <1>1, <1>2, <1>9, <2>5, <3>1, <3>2 DEF Unmark, OnMarks, MarkKnown, Follows, i
  <2> QED BY <1>1, <2>1, <2>2, <2>3, <2>4, <2>5
<1>10. CASE Erase(l)
  <2>1. CASE op[l].upd
    <3>1. deleted' = deleted /\ deleted_elements_' = deleted_elements_ \ {i}
      BY <1>10, <2>1 DEF Erase, marks, i
    <3>2. /\ Others(l) /\ op'[l].pc = "update" /\ (op'[l].upd <=> op[l].upd)
          /\ op'[l].id = i /\ op'[l].p = op[l].p
      BY <1>4, <1>5, <1>10, <2>1 DEF Erase, AfterMarks, i
    <3> QED BY <1>1, <1>2, <1>10, <2>1, <3>1, <3>2 DEF Erase, OnMarks, MarkKnown, Follows, i
  <2>2. CASE ~op[l].upd
    <3>1. deleted' = deleted /\ deleted_elements_' = deleted_elements_ \ {i}
      BY <1>10, <2>2 DEF Erase, marks, i
    <3>2. Others(l) /\ op'[l].pc = "none"
      BY <1>3, <1>10, <2>2 DEF Erase, AfterMarks, i
    <3> QED BY <1>1, <1>2, <1>10, <2>2, <3>1, <3>2 DEF Erase, OnMarks, MarkKnown, Follows, i
  <2> QED BY <1>1, <2>1, <2>2
<1> QED BY <1>6, <1>7, <1>8, <1>9, <1>10

\* A deletion begins on the element that carries its label: no other call works on it.
LEMMA DeletionKeepsCalls ==
    ASSUME Disciplined, IndexInv, LabelInv, CallInv, NEW l \in Labels, markDelete(l) \/ unmarkDelete(l)
    PROVE  CallInv'
<1> DEFINE i == label_map_[l]
<1>1. /\ TypeInv /\ ~Updates /\ LabelFree(l) /\ i # None /\ Elements' = Elements
      /\ UNCHANGED <<label, deleted, deleted_elements_, reuse_deleted_, th>>
  BY DEF IndexInv, markDelete, unmarkDelete, MayDelete, names, marks, history, Elements
<1>2. i \in Elements /\ label[i] = l
  BY <1>1 DEF TypeInv, LabelInv, LabelFree
<1>3. PICK pc \in {"mark", "unmark"} :
          /\ Begins(l, pc, FALSE, i, 0)
          /\ pc = "unmark" => ~reuse_deleted_
  BY DEF markDelete, unmarkDelete
<1> HIDE DEF i
<1>4. Others(l) /\ op'[l].pc = pc /\ ~op'[l].upd /\ op'[l].id = i
  <2>1. pc \in OpPcs /\ 0 \in Int
    BY <1>3 DEF OpPcs
  <2> QED BY <1>1, <1>2, <1>3, <2>1, BeginsMarkingAt, Zenon
<1>5. \A k \in Labels \ {l} : op'[k] = op[k]
  BY <1>4 DEF Others
<1>6. i \notin Working
  BY <1>1, <1>2 DEF Working, CallInv, Updates, LabelFree
<1>7. Follows(i)
  BY <1>2, <1>6 DEF CallInv
<1>8. UpdatesAlone'
  BY <1>1, <1>4, <1>5 DEF UpdatesAlone, Updates
<1>9. \A u \in Threads : th'[u].upd => NoOps'
  BY <1>1 DEF Updates
<1>10. \A k \in Labels : op'[k].pc # "none" /\ ~op'[k].upd => label'[op'[k].id] = k
  BY <1>1, <1>2, <1>4, <1>5 DEF CallInv
<1>11. \A k \in Labels : MarkKnown(op[k])'
  <2>1. MarkKnown(op[l])'
    BY <1>1, <1>3, <1>4, <1>7 DEF MarkKnown, Follows
  <2>2. \A k \in Labels \ {l} : MarkKnown(op[k])'
    BY <1>1, <1>5 DEF CallInv, MarkKnown, Follows
  <2> QED BY <2>1, <2>2
<1>12. \A j \in Elements' \ Working' : Follows(j)'
  <2>1. Working \subseteq Working'
    BY <1>1, <1>5 DEF Working, LabelFree
  <2> QED BY <1>1, <2>1 DEF CallInv, Follows
<1> QED BY <1>8, <1>9, <1>10, <1>11, <1>12 DEF CallInv

\* A step on marks changes what its own call knows, and its own element.
LEMMA MarkKeepsCalls ==
    ASSUME IndexInv, CallInv, NEW l \in Labels,
           Mark(l) \/ Keep(l) \/ Relabel(l) \/ Unmark(l) \/ Erase(l)
    PROVE  CallInv'
<1> DEFINE i == op[l].id
<1>1. /\ op[l].pc # "none" /\ Elements' = Elements
      /\ UNCHANGED <<data, reuse_deleted_, th>>
  BY DEF Mark, Keep, Relabel, Unmark, Erase, graph, names, history, Elements
<1>2. /\ \A k \in Labels \ {l} : op'[k] = op[k]
      /\ \A j \in Elements \ {i} : Follows(j)' <=> Follows(j)
      /\ \A j \in Elements \ {i} : /\ j \in deleted' <=> j \in deleted
                                   /\ j \in deleted_elements_' <=> j \in deleted_elements_
  BY <1>1, MarkStep DEF Others, OnMarks, Follows
<1>3. /\ op'[l].pc = "none" \/ (op'[l].id = i /\ (op'[l].upd <=> op[l].upd) /\ op'[l].p = op[l].p)
      /\ MarkKnown(op[l])' /\ op'[l].pc # "relabel"
      /\ op'[l].pc = "none" => (i \in deleted_elements_' <=> reuse_deleted_ /\ i \in deleted')
  BY MarkStep DEF OnMarks
<1>4. \A k \in Labels \ {l} :
          op[k].pc # "none" => ~op[l].upd /\ ~op[k].upd /\ op[k].id # i /\ op[k].id \in Elements
  <2> TAKE k \in Labels \ {l}
  <2> HAVE op[k].pc # "none"
  <2>1. ~op[l].upd /\ ~op[k].upd
    BY <1>1 DEF CallInv, UpdatesAlone
  <2>2. label[i] = l /\ label[op[k].id] = k
    BY <1>1, <2>1 DEF CallInv
  <2> QED BY <2>1, <2>2, OpFacts DEF IndexInv
<1>5. op[l].upd \/ label' = label
  <2>1. CASE Relabel(l)
    BY <2>1, OpFacts DEF IndexInv, Relabel
  <2>2. CASE ~Relabel(l)
    BY <2>2 DEF Mark, Keep, Unmark, Erase, names
  <2> QED BY <2>1, <2>2
<1>6. UpdatesAlone'
  <2> SUFFICES ASSUME NEW k \in Labels, op'[k].upd, op'[k].pc # "none"
               PROVE  /\ \A t \in Threads : th'[t].pc = "idle"
                      /\ \A m \in Labels \ {k} : op'[m].pc = "none"
                      /\ op'[k].p \in Points /\ \A j \in Elements' : data'[j] # op'[k].p
                      /\ op'[k].pc # "relabel"
    BY DEF UpdatesAlone, At
  <2>1. k = l /\ op[l].upd
    BY <1>2, <1>3, <1>4
  <2> QED BY <1>1, <1>2, <1>3, <2>1 DEF CallInv, UpdatesAlone, At
<1>7. \A u \in Threads : th'[u].upd => NoOps'
  BY <1>1 DEF CallInv, NoOps
<1>8. ASSUME NEW k \in Labels, op'[k].pc # "none", ~op'[k].upd
      PROVE  label'[op'[k].id] = k
  <2>1. CASE k = l
    BY <1>1, <1>3, <1>5, <1>8, <2>1 DEF CallInv
  <2>2. CASE k # l
    BY <1>2, <1>4, <1>5, <1>8, <2>2 DEF CallInv
  <2> QED BY <2>1, <2>2
<1>9. ASSUME NEW k \in Labels \ {l}
      PROVE  MarkKnown(op[k])'
  <2>1. CASE op[k].pc = "none"
    BY <1>2, <2>1 DEF MarkKnown
  <2>2. CASE op[k].pc # "none"
    <3>1. op'[k] = op[k] /\ op[k].id \in Elements \ {i} /\ MarkKnown(op[k])
      BY <1>2, <1>4, <2>2 DEF CallInv
    <3> QED BY <1>1, <1>2, <3>1 DEF MarkKnown, Follows
  <2> QED BY <2>1, <2>2
<1>10. ASSUME NEW j \in Elements, j \notin Working'
       PROVE  Follows(j)'
  <2>1. CASE j = i
    <3>1. op'[l].pc = "none"
      BY <1>3, <1>10, <2>1 DEF Working
    <3> QED BY <1>1, <1>3, <2>1, <3>1 DEF Follows
  <2>2. CASE j # i
    <3>1. j \notin Working
      BY <1>2, <1>10, <2>2 DEF Working
    <3> QED BY <1>2, <2>2, <3>1 DEF CallInv
  <2> QED BY <2>1, <2>2
<1>11. \A k \in Labels : MarkKnown(op[k])'
  BY <1>3, <1>9
<1> QED BY <1>1, <1>6, <1>7, <1>8, <1>10, <1>11 DEF CallInv

LEMMA CallStep ==
    ASSUME Disciplined, IndexInv, LockInv, LabelInv, CallInv, [Next]_vars
    PROVE  CallInv'
<1> TypeInv
  BY DEF IndexInv
<1>1. CASE UNCHANGED vars
  BY <1>1 DEF CallInv, UpdatesAlone, NoOps, At, MarkKnown, Follows, Working, Elements, vars, graph,
              marks, names, history
<1>2. ASSUME NEW t \in Threads, Walk(t) \/ ReadMaxLevel(t) \/ ReadEntry(t) \/ Publish(t)
      PROVE  CallInv'
  <2>1. /\ ~At(t, "idle")
        /\ UNCHANGED <<op, deleted, deleted_elements_, reuse_deleted_, element_count_>>
    BY <1>2 DEF Walk, ReadMaxLevel, ReadEntry, Publish, At, names, marks, history
  <2>2. \A u \in Threads : th'[u].upd => th[u].upd
    <3>1. PICK d : (d.upd => th[t].upd) /\ th' = [th EXCEPT ![t] = d]
      BY <1>2, ReadMaxLevelSteps, ReadEntrySteps, IdleFacts
         DEF Walk, Publish, Walked, MaxRead, Step
    <3> QED BY <3>1 DEF TypeInv
  <2>3. \A i \in Elements : label[i] # Free => label'[i] = label[i]
    <3>1. CASE ReadEntry(t)
      <4>1. Pending(t) /\ th[t].id \in Elements
        BY <3>1, PendingApart DEF ReadEntry, At, Pending
      <4>2. label[th[t].id] = Free /\ Elements \subseteq Ids
        BY <4>1, HnswAssumption DEF LabelInv, TypeInv, Elements, Ids
      <4> QED BY <3>1, <4>1, <4>2, ReadEntryFacts DEF TypeInv
    <3>2. CASE ~ReadEntry(t)
      BY <1>2, <3>2 DEF Walk, ReadMaxLevel, Publish, names
    <3> QED BY <3>1, <3>2
  <2> QED BY <2>1, <2>2, <2>3, ThreadKeepsCalls
<1>3. ASSUME NEW l \in Labels, OnLabel(l)
      PROVE  CallInv'
  BY <1>3, DeletionKeepsCalls, MarkKeepsCalls DEF OnLabel
<1>4. CASE (\E n \in element_count_ .. MaxCapacity : resizeIndex(n)) \/ SaveAndLoad
  <2>1. NoOps /\ op' = op /\ Elements' = Elements
    BY <1>4 DEF resizeIndex, SaveAndLoad, Quiet, Elements
  <2>2. \A i \in Elements : Follows(i)
    BY <2>1 DEF CallInv, Working, NoOps
  <2>3. \A i \in Elements : Follows(i)'
    <3>1. CASE SaveAndLoad
      BY <3>1 DEF SaveAndLoad, Follows, Elements
    <3>2. CASE ~SaveAndLoad
      BY <1>4, <2>2, <3>2 DEF resizeIndex, Follows, marks, history
    <3> QED BY <3>1, <3>2
  <2> QED BY <2>1, <2>3, NoCalls DEF NoOps
<1>5. CASE Next
  BY <1>2, <1>3, <1>4, <1>5, NextCases, ReserveKeepsCalls, UpdatePointKeepsCalls, BeginUpdateKeepsCalls
<1> QED BY <1>1, <1>5

\* The labels and the calls on them, in every state.
LEMMA CallInvariant ==
    ASSUME Disciplined
    PROVE  Spec => [](LabelInv /\ CallInv)
<1>1. Init => LabelInv /\ CallInv
  BY LabelInit, CallInit
<1>2. IndexInv /\ LockInv /\ (LabelInv /\ CallInv) /\ [Next]_vars => (LabelInv /\ CallInv)'
  BY LabelStep, CallStep
<1> QED BY <1>1, <1>2, IndexInvariant, LockInvariant, PTL DEF Spec

(***************************************************************************)
(* When callers run updates alone and reuse a deleted element for a new    *)
(* label only, every label nobody works on leads to the one element that   *)
(* carries it, through overlapping insertions and deletions, updates,      *)
(* reuse, resizeIndex and a restart.  The hypothesis is needed: a reuse    *)
(* for a label in the index leaves two elements with the label.            *)
(***************************************************************************)
THEOREM LabelsStayExact ==
    ASSUME Disciplined
    PROVE  Spec => []LabelsExact
<1>1. IndexInv /\ LabelInv => LabelsExact
  <2> SUFFICES ASSUME TypeInv, LabelInv, NEW l \in Labels, LabelFree(l)
               PROVE  {i \in Elements : label[i] = l} = {label_map_[l]} \ {None}
    BY DEF LabelsExact, IndexInv
  <2>1. l # Free
    BY HnswAssumption
  <2>2. label_map_[l] # None => label_map_[l] \in Elements /\ label[label_map_[l]] = l
    BY DEF TypeInv, LabelInv, LabelFree
  <2>3. \A i \in Elements : label[i] = l => label_map_[l] = i /\ i # None
    BY <2>1 DEF LabelInv, Elements, None
  <2> QED BY <2>2, <2>3
<1> QED BY <1>1, IndexInvariant, CallInvariant, PTL

(***************************************************************************)
(* The count of deleted elements follows the marks, and an element no call *)
(* works on may be reused when it is marked: markDelete and unmarkDelete   *)
(* take their steps among the steps of insertions and of each other, an    *)
(* update or a reuse runs alone, the index is resized and restarted.       *)
(***************************************************************************)
THEOREM MarksExact ==
    ASSUME Disciplined
    PROVE  Spec => []DeletedExact
<1>1. IndexInv /\ CallInv => DeletedExact
  BY DEF IndexInv, MarksInv, CallInv, Follows, Working, DeletedExact
<1> QED BY <1>1, IndexInvariant, CallInvariant, PTL
-----------------------------------------------------------------------------
(* Folds.  The two folds of the index are unfolded into the chain of their *)
(* intermediate results, and facts about it are shown by induction.        *)

\* Induction over 0 .. n by the set of numbers a fact holds of.
LEMMA UpTo ==
    ASSUME NEW n \in Nat, NEW S, 0 \in S, \A k \in 0 .. n - 1 : k \in S => k + 1 \in S
    PROVE  n \in S
<1> SUFFICES ASSUME n \notin S PROVE FALSE
  OBVIOUS
<1> DEFINE T == {k \in 0 .. n : k \notin S}
<1>1. T \subseteq Nat /\ T # {}
  OBVIOUS
<1>2. PICK x \in T : \A y \in T : ~(<<y, x>> \in OpToRel(<, Nat))
  BY <1>1, WFMin, NatLessThanWellFounded
<1>3. \A y \in T : x <= y
  <2> TAKE y \in T
  <2>1. x \in Nat /\ y \in Nat
    BY <1>1
  <2>2. ~(<<y, x>> \in OpToRel(<, Nat))
    BY <1>2
  <2> HIDE DEF T
  <2> QED BY <2>1, <2>2 DEF OpToRel
<1>4. x - 1 \in 0 .. n - 1 /\ x - 1 \notin T
  BY <1>3
<1> QED BY <1>4

LEMMA MaxIs ==
    ASSUME NEW S, S \subseteq Int, NEW m \in S, \A x \in S : m >= x
    PROVE  Max(S) = m
<1>1. Max(S) \in S /\ \A y \in S : Max(S) >= y
  BY DEF Max
<1>2. Max(S) \in Int /\ m \in Int /\ m >= Max(S) /\ Max(S) >= m
  BY <1>1, Zenon
<1> QED BY <1>2

\* The two folds of the index: the selection of neighbors, and the visits of a search.
Kept(kept, x, M) ==
    IF /\ Cardinality(kept) < M
       /\ \A y \in kept : distance(data[y[2]], data[x[2]]) >= x[1]
    THEN kept \cup {x} ELSE kept
Apply(fold, par, acc, x) == IF fold = "keep" THEN Kept(acc, x, par) ELSE Visit(acc, par, x)

\* g is the function a fold of the first D elements of a sequence is defined by.
FoldRec(fold, par, base, seq, D, g) ==
    g = [s \in SUBSET D |-> IF s = {} THEN base
                            ELSE Apply(fold, par, g[s \ {Max(s)}], seq[Max(s)])]

LEMMA FoldRecExists ==
    ASSUME NEW fold, NEW par, NEW base, NEW seq, NEW n \in Nat
    PROVE  \E g : FoldRec(fold, par, base, seq, 1 .. n, g)
<1> DEFINE S == {k \in 0 .. n : \E g : FoldRec(fold, par, base, seq, 1 .. k, g)}
<1>1. 0 \in S
  <2> DEFINE g == [s \in SUBSET (1 .. 0) |-> base]
  <2>1. FoldRec(fold, par, base, seq, 1 .. 0, g)
    <3>1. 1 .. 0 = {}
      OBVIOUS
    <3>2. \A s \in SUBSET (1 .. 0) : s = {}
      BY <3>1
    <3> QED BY <3>2 DEF FoldRec
  <2> HIDE DEF g
  <2> QED BY <2>1
<1>2. ASSUME NEW k \in 0 .. n - 1, k \in S
      PROVE  k + 1 \in S
  <2>1. PICK g : FoldRec(fold, par, base, seq, 1 .. k, g)
    BY <1>2
  <2> DEFINE h == [s \in SUBSET (1 .. k + 1) |->
                      IF k + 1 \in s THEN Apply(fold, par, g[s \ {k + 1}], seq[k + 1]) ELSE g[s]]
             r == [s \in SUBSET (1 .. k + 1) |->
                      IF s = {} THEN base ELSE Apply(fold, par, h[s \ {Max(s)}], seq[Max(s)])]
  <2>2. ASSUME NEW s \in SUBSET (1 .. k + 1)
        PROVE  h[s] = r[s]
    <3>1. CASE k + 1 \in s
      <4>1. Max(s) = k + 1
        <5>1. s \subseteq Int /\ \A x \in s : k + 1 >= x
          OBVIOUS
        <5> QED BY <3>1, <5>1, MaxIs
      <4>2. s \ {k + 1} \in SUBSET (1 .. k + 1) /\ k + 1 \notin s \ {k + 1} /\ s # {}
        BY <3>1
      <4>3. h[s \ {k + 1}] = g[s \ {k + 1}]
        BY <4>2
      <4> QED BY <3>1, <4>1, <4>2, <4>3
    <3>2. CASE k + 1 \notin s /\ s # {}
      <4>1. s \in SUBSET (1 .. k)
        BY <3>2
      <4>2. g[s] = Apply(fold, par, g[s \ {Max(s)}], seq[Max(s)])
        BY <2>1, <3>2, <4>1 DEF FoldRec
      <4>3. s \ {Max(s)} \in SUBSET (1 .. k + 1) /\ k + 1 \notin s \ {Max(s)}
        BY <3>2
      <4>4. h[s \ {Max(s)}] = g[s \ {Max(s)}]
        BY <4>3
      <4> HIDE DEF h
      <4>5. r[s] = Apply(fold, par, h[s \ {Max(s)}], seq[Max(s)])
        BY <3>2
      <4>6. h[s] = g[s]
        BY <3>2 DEF h
      <4> QED BY <4>2, <4>4, <4>5, <4>6
    <3>3. CASE s = {}
      <4>1. g[{}] = base
        BY <2>1 DEF FoldRec
      <4> QED BY <3>3, <4>1
    <3> QED BY <3>1, <3>2, <3>3
  <2>3. h = r
    BY <2>2
  <2>4. FoldRec(fold, par, base, seq, 1 .. k + 1, h)
    <3> HIDE DEF h
    <3> QED BY <2>3 DEF FoldRec
  <2> HIDE DEF h, r
  <2> QED BY <2>4
<1> HIDE DEF S
<1>3. n \in S
  BY <1>1, <1>2, UpTo
<1> QED BY <1>3 DEF S

Folded(fold, par, base, seq, D) == (CHOOSE g : FoldRec(fold, par, base, seq, D, g))[D]

\* What a fold computes, one element after the other.
Chain(fold, par, base, seq, n, acc) ==
    acc[0] = base /\ \A k \in 0 .. n - 1 : acc[k + 1] = Apply(fold, par, acc[k], seq[k + 1])

LEMMA FoldChain ==
    ASSUME NEW fold, NEW par, NEW base, NEW seq, NEW n \in Nat
    PROVE  \E acc : /\ Chain(fold, par, base, seq, n, acc)
                    /\ Folded(fold, par, base, seq, 1 .. n) = acc[n]
<1> DEFINE g == CHOOSE g : FoldRec(fold, par, base, seq, 1 .. n, g)
           acc == [k \in 0 .. n |-> g[1 .. k]]
<1>1. FoldRec(fold, par, base, seq, 1 .. n, g)
  BY FoldRecExists
<1> HIDE DEF g
<1>2. acc[0] = base
  <2>1. 1 .. 0 = {}
    OBVIOUS
  <2>2. g[{}] = base
    BY <1>1 DEF FoldRec
  <2>3. acc[0] = g[1 .. 0]
    OBVIOUS
  <2> QED BY <2>1, <2>2, <2>3
<1>3. ASSUME NEW k \in 0 .. n - 1
      PROVE  acc[k + 1] = Apply(fold, par, acc[k], seq[k + 1])
  <2> DEFINE s == 1 .. k + 1
  <2>1. s \in SUBSET (1 .. n) /\ s # {} /\ k + 1 \in s
    OBVIOUS
  <2>2. Max(s) = k + 1
    <3>1. s \subseteq Int /\ \A x \in s : k + 1 >= x
      OBVIOUS
    <3> HIDE DEF s
    <3> QED BY <2>1, <3>1, MaxIs
  <2>3. s \ {k + 1} = 1 .. k
    OBVIOUS
  <2>4. acc[k + 1] = g[s] /\ acc[k] = g[1 .. k]
    OBVIOUS
  <2> HIDE DEF s, acc
  <2>5. g[s] = Apply(fold, par, g[s \ {Max(s)}], seq[Max(s)])
    BY <1>1, <2>1 DEF FoldRec
  <2> QED BY <2>2, <2>3, <2>4, <2>5
<1>4. acc[n] = g[1 .. n]
  OBVIOUS
<1> HIDE DEF acc
<1> QED BY <1>2, <1>3, <1>4 DEF Chain, Folded, g

\* Both folds of the index are chains.
LEMMA KeepFold ==
    ASSUME NEW Q, NEW M, Cardinality(Q) \in Nat, ~(Cardinality(Q) < M)
    PROVE  \E acc : /\ Chain("keep", M, {}, Closest(Q), Cardinality(Q), acc)
                    /\ getNeighborsByHeuristic2(Q, M) = acc[Cardinality(Q)]
<1> DEFINE seq == Closest(Q)
<1>1. DOMAIN seq = 1 .. Cardinality(Q)
  BY DEF Closest
<1>2. getNeighborsByHeuristic2(Q, M) =
        Folded("keep", M, {}, seq, DOMAIN seq)
  BY DEF getNeighborsByHeuristic2, FoldLeft, MapThenFoldSet, Folded, FoldRec, Apply, Kept
<1> QED BY <1>1, <1>2, FoldChain

\* The visits of a search around p, from the state `base' of the search.
Visits(p, base, list) == FoldLeft(LAMBDA s, y : Visit(s, p, y), base, list)

LEMMA VisitFold ==
    ASSUME NEW p, NEW base, NEW E, NEW list \in Seq(E)
    PROVE  \E acc : /\ Chain("visit", p, base, list, Len(list), acc)
                    /\ Visits(p, base, list) = acc[Len(list)]
<1>1. DOMAIN list = 1 .. Len(list) /\ Len(list) \in Nat
  OBVIOUS
<1>2. Visits(p, base, list) = Folded("visit", p, base, list, DOMAIN list)
  BY DEF Visits, FoldLeft, MapThenFoldSet, Folded, FoldRec, Apply
<1> QED BY <1>1, <1>2, FoldChain
-----------------------------------------------------------------------------
(* Priority queues.                                                        *)

Distances(Q) == IsFiniteSet(Q) /\ \A x \in Q : x[1] \in Int
NoTies(Q) == \A x, y \in Q : x[1] = y[1] => x = y
Queue(Q) == Distances(Q) /\ NoTies(Q)

IsFarthest(Q, x) == \A y \in Q : x[1] >= y[1]
IsNearest(Q, x) == \A y \in Q : x[1] <= y[1]

LEMMA SubsetSize ==
    ASSUME NEW Q, IsFiniteSet(Q), NEW R \in SUBSET Q
    PROVE  IsFiniteSet(R) /\ Cardinality(R) \in Nat /\ Cardinality(R) <= Cardinality(Q)
BY FS_Subset, FS_CardinalityType

LEMMA OneLess ==
    ASSUME NEW R, IsFiniteSet(R), NEW x \in R
    PROVE  IsFiniteSet(R \ {x}) /\ Cardinality(R \ {x}) = Cardinality(R) - 1
BY FS_RemoveElement

LEMMA EndsExist ==
    ASSUME NEW Q, Distances(Q), Q # {}
    PROVE  (\E x \in Q : IsFarthest(Q, x)) /\ (\E x \in Q : IsNearest(Q, x))
<1> DEFINE n == Cardinality(Q)
           BothEnds(R) == (\E x \in R : IsFarthest(R, x)) /\ (\E x \in R : IsNearest(R, x))
           S == {k \in 0 .. n : \A R \in SUBSET Q : Cardinality(R) = k => R = {} \/ BothEnds(R)}
<1>0. n \in Nat /\ IsFiniteSet(Q) /\ \A x \in Q : x[1] \in Int
  BY FS_CardinalityType DEF Distances
<1>1. 0 \in S
  <2>1. \A R \in SUBSET Q : Cardinality(R) = 0 => R = {}
    BY <1>0, SubsetSize, FS_EmptySet
  <2> QED BY <1>0, <2>1
<1>2. ASSUME NEW k \in 0 .. n - 1, k \in S
      PROVE  k + 1 \in S
  <2>1. ASSUME NEW R \in SUBSET Q, Cardinality(R) = k + 1, R # {}
        PROVE  BothEnds(R)
    <3>1. PICK a \in R : TRUE
      BY <2>1
    <3> DEFINE L == R \ {a}
    <3>2. L \in SUBSET Q /\ Cardinality(L) = k
      <4>1. IsFiniteSet(R)
        BY <1>0, SubsetSize
      <4>2. Cardinality(L) = (k + 1) - 1
        BY <2>1, <3>1, <4>1, OneLess
      <4> QED BY <4>2
    <3>3. L = {} \/ BothEnds(L)
      BY <1>2, <3>2
    <3>4. CASE L = {}
      <4>1. R = {a} /\ a[1] \in Int
        BY <3>1, <3>4, <1>0
      <4> QED BY <4>1 DEF IsFarthest, IsNearest
    <3>5. CASE BothEnds(L)
      <4>1. PICK f \in L : IsFarthest(L, f)
        BY <3>5
      <4>2. PICK c \in L : IsNearest(L, c)
        BY <3>5
      <4>3. a[1] \in Int /\ f[1] \in Int /\ c[1] \in Int /\ \A x \in R : x[1] \in Int
        BY <1>0
      <4>4. IsFarthest(R, a) \/ IsFarthest(R, f)
        BY <4>1, <4>3 DEF IsFarthest
      <4>5. IsNearest(R, a) \/ IsNearest(R, c)
        BY <4>2, <4>3 DEF IsNearest
      <4> QED BY <4>4, <4>5
    <3> QED BY <3>3, <3>4, <3>5
  <2> QED BY <1>0, <2>1
<1> HIDE DEF S
<1>3. n \in S
  BY <1>0, <1>1, <1>2, UpTo
<1> QED BY <1>3 DEF S

LEMMA NearestIn ==
    ASSUME NEW Q, Distances(Q), Q # {}
    PROVE  Nearest(Q) \in Q /\ Farthest(Q) \in Q
BY EndsExist DEF Nearest, Farthest, IsNearest, IsFarthest

\* The pairs of a queue that are closer than x.
Closer(Q, x) == {y \in Q : y[1] < x[1]}

LEMMA PlaceExists ==
    ASSUME NEW Q, Queue(Q), NEW i \in 1 .. Cardinality(Q)
    PROVE  \E x \in Q : Cardinality(Closer(Q, x)) = i - 1
<1> DEFINE n == Cardinality(Q)
           Places(R) == \A j \in 1 .. Cardinality(R) : \E x \in R : Cardinality(Closer(R, x)) = j - 1
           S == {k \in 0 .. n : \A R \in SUBSET Q : Cardinality(R) = k => Places(R)}
<1>0. n \in Nat /\ IsFiniteSet(Q) /\ \A x \in Q : x[1] \in Int
  BY FS_CardinalityType DEF Queue, Distances
<1>1. 0 \in S
  <2>1. 1 .. 0 = {}
    OBVIOUS
  <2>2. \A R : Cardinality(R) = 0 => Places(R)
    BY <2>1
  <2> HIDE DEF Places
  <2> QED BY <1>0, <2>2
<1>2. ASSUME NEW k \in 0 .. n - 1, k \in S
      PROVE  k + 1 \in S
  <2>1. ASSUME NEW R \in SUBSET Q, Cardinality(R) = k + 1
        PROVE  Places(R)
    <3>1. Distances(R) /\ R # {}
      BY <1>0, <2>1, SubsetSize, FS_EmptySet DEF Distances
    <3>2. PICK f \in R : IsFarthest(R, f)
      BY <3>1, EndsExist
    <3> DEFINE L == R \ {f}
    <3>3. L \in SUBSET Q /\ Cardinality(L) = k
      BY <2>1, <3>1, OneLess DEF Distances
    <3>4. Places(L)
      BY <1>2, <3>3
    <3>5. \A x \in L : x[1] < f[1]
      BY <1>0, <3>2 DEF IsFarthest, Queue, NoTies
    <3>6. Closer(R, f) = L
      BY <1>0, <3>5 DEF Closer
    <3>7. \A x \in L : Closer(R, x) = Closer(L, x)
      BY <1>0, <3>5 DEF Closer
    <3> HIDE DEF L
    <3>8. ASSUME NEW j \in 1 .. k + 1
          PROVE  \E x \in R : Cardinality(Closer(R, x)) = j - 1
      <4>1. CASE j = k + 1
        BY <3>3, <3>6, <4>1
      <4>2. CASE j \in 1 .. k
        <5>1. PICK x \in L : Cardinality(Closer(L, x)) = j - 1
          BY <3>3, <3>4, <4>2
        <5> QED BY <3>7, <5>1 DEF L
      <4> QED BY <4>1, <4>2
    <3> QED BY <2>1, <3>8
  <2> HIDE DEF Places
  <2> QED BY <1>0, <2>1
<1> HIDE DEF S
<1>3. n \in S
  BY <1>0, <1>1, <1>2, UpTo
<1>4. Places(Q)
  BY <1>0, <1>3 DEF S
<1> QED BY <1>4

\* Closest lists the pairs of a queue, each once.
LEMMA ClosestFacts ==
    ASSUME NEW Q, Queue(Q)
    PROVE  /\ Cardinality(Q) \in Nat
           /\ DOMAIN Closest(Q) = 1 .. Cardinality(Q)
           /\ \A i \in 1 .. Cardinality(Q) : Closest(Q)[i] \in Q
           /\ \A i, j \in 1 .. Cardinality(Q) : Closest(Q)[i] = Closest(Q)[j] => i = j
<1>1. Cardinality(Q) \in Nat
  BY FS_CardinalityType DEF Queue, Distances
<1>2. DOMAIN Closest(Q) = 1 .. Cardinality(Q)
  BY DEF Closest
<1>3. ASSUME NEW i \in 1 .. Cardinality(Q)
      PROVE  Closest(Q)[i] \in Q /\ Cardinality(Closer(Q, Closest(Q)[i])) = i - 1
  <2>1. Closest(Q)[i] = CHOOSE x \in Q : Cardinality(Closer(Q, x)) = i - 1
    BY DEF Closest, Closer
  <2> QED BY <2>1, PlaceExists
<1> QED BY <1>1, <1>2, <1>3

\* Popped lists the ids of a queue, each once when no id is in two pairs.
LEMMA PoppedFacts ==
    ASSUME NEW Q, Queue(Q), NEW E, \A x \in Q : x[2] \in E
    PROVE  /\ Popped(Q) \in Seq(E)
           /\ Len(Popped(Q)) = Cardinality(Q)
           /\ \A i \in 1 .. Cardinality(Q) : \E x \in Q : Popped(Q)[i] = x[2]
           /\ (\A x, y \in Q : x[2] = y[2] => x = y) =>
                 \A i, j \in 1 .. Cardinality(Q) : Popped(Q)[i] = Popped(Q)[j] => i = j
<1> DEFINE n == Cardinality(Q)
<1>1. n \in Nat
  BY ClosestFacts
<1>2. Popped(Q) = [i \in 1 .. n |-> Closest(Q)[n + 1 - i][2]]
  BY DEF Popped
<1>3. ASSUME NEW i \in 1 .. n
      PROVE  n + 1 - i \in 1 .. n /\ Popped(Q)[i] = Closest(Q)[n + 1 - i][2] /\ Closest(Q)[n + 1 - i] \in Q
  BY <1>1, <1>2, ClosestFacts
<1>4. Popped(Q) \in [1 .. n -> E]
  BY <1>2, <1>3
<1>5. Popped(Q) \in Seq(E) /\ Len(Popped(Q)) = n
  BY <1>1, <1>4
<1>6. ASSUME \A x, y \in Q : x[2] = y[2] => x = y,
             NEW i \in 1 .. n, NEW j \in 1 .. n, Popped(Q)[i] = Popped(Q)[j]
      PROVE  i = j
  <2>1. Closest(Q)[n + 1 - i] = Closest(Q)[n + 1 - j]
    BY <1>3, <1>6
  <2>2. n + 1 - i = n + 1 - j
    BY <1>3, <2>1, ClosestFacts
  <2> QED BY <1>1, <2>2
<1> QED BY <1>3, <1>5, <1>6

\* The selection of neighbors: some of the candidates, at most M.
LEMMA HeuristicFacts ==
    ASSUME NEW Q, Queue(Q), NEW M \in Nat \ {0}
    PROVE  LET H == getNeighborsByHeuristic2(Q, M) IN
           /\ H \subseteq Q /\ Queue(H)
           /\ Cardinality(H) <= M /\ Cardinality(H) \in Nat
           /\ Q # {} => H # {}
<1> DEFINE H == getNeighborsByHeuristic2(Q, M)
           n == Cardinality(Q)
<1>1. n \in Nat /\ IsFiniteSet(Q)
  BY ClosestFacts DEF Queue, Distances
<1>2. CASE n < M
  <2>1. H = Q
    BY <1>2 DEF getNeighborsByHeuristic2
  <2> QED BY <1>1, <1>2, <2>1
<1>3. CASE ~(n < M)
  <2>1. PICK acc : Chain("keep", M, {}, Closest(Q), n, acc) /\ H = acc[n]
    BY <1>1, <1>3, KeepFold
  <2> HIDE DEF H
  <2>2. acc[0] = {} /\ \A k \in 0 .. n - 1 : acc[k + 1] = Kept(acc[k], Closest(Q)[k + 1], M)
    BY <2>1 DEF Chain, Apply
  <2> DEFINE Good(k) == /\ acc[k] \subseteq Q /\ IsFiniteSet(acc[k]) /\ Cardinality(acc[k]) <= M
                        /\ k > 0 => acc[k] # {}
             S == {k \in 0 .. n : Good(k)}
  <2>3. 0 \in S
    BY <1>1, <2>2, FS_EmptySet
  <2>4. ASSUME NEW k \in 0 .. n - 1, k \in S
        PROVE  k + 1 \in S
    <3> DEFINE x == Closest(Q)[k + 1]
               A == acc[k]
    <3>1. x \in Q /\ k + 1 \in 0 .. n /\ acc[k + 1] = Kept(A, x, M)
      BY <1>1, <2>2, ClosestFacts
    <3>2. A \subseteq Q /\ IsFiniteSet(A) /\ Cardinality(A) <= M /\ Cardinality(A) \in Nat
      BY <2>4, FS_CardinalityType
    <3>3. k > 0 => A # {}
      BY <2>4
    <3>4. k = 0 => A = {} /\ Cardinality(A) = 0
      BY <2>2, FS_EmptySet
    <3>5. IsFiniteSet(A \cup {x}) /\ (Cardinality(A \cup {x}) = Cardinality(A) + 1 \/ A \cup {x} = A)
      BY <3>2, FS_AddElement
    <3> HIDE DEF x, A
    <3>6. CASE acc[k + 1] = A \cup {x} /\ Cardinality(A) < M
      <4>1. acc[k + 1] \subseteq Q /\ IsFiniteSet(acc[k + 1]) /\ acc[k + 1] # {}
        BY <3>1, <3>2, <3>5, <3>6
      <4>2. Cardinality(acc[k + 1]) <= M
        BY <3>2, <3>5, <3>6
      <4> QED BY <3>1, <4>1, <4>2
    <3>7. CASE acc[k + 1] = A /\ k # 0
      BY <3>1, <3>2, <3>3, <3>7
    <3>8. (acc[k + 1] = A \cup {x} /\ Cardinality(A) < M) \/ (acc[k + 1] = A /\ k # 0)
      <4>1. CASE k = 0
        <5>1. Kept({}, x, M) = {} \cup {x}
          BY FS_EmptySet DEF Kept
        <5> QED BY <3>1, <3>4, <4>1, <5>1
      <4>2. CASE k # 0
        BY <3>1, <4>2 DEF Kept
      <4> QED BY <4>1, <4>2
    <3> QED BY <3>6, <3>7, <3>8
  <2> HIDE DEF S
  <2>5. n \in S
    BY <1>1, <2>3, <2>4, UpTo
  <2>6. Good(n)
    BY <2>5 DEF S
  <2>7. n > 0
    BY <1>1, <1>3
  <2>8. H \subseteq Q /\ IsFiniteSet(H) /\ Cardinality(H) <= M /\ H # {}
    BY <2>1, <2>6, <2>7
  <2>9. Queue(H)
    BY <2>8 DEF Queue, Distances, NoTies
  <2> QED BY <2>8, <2>9, FS_CardinalityType DEF H
<1> QED BY <1>2, <1>3
-----------------------------------------------------------------------------
(* The graph: the elements a list of a level may lead to.                  *)

\* The element of an insertion is not filled before ReadEntry.
Early(c) == c.pc \in {"global", "entry"}

\* How far a call is: it searches and then connects, on one level after the other.
Stage(c) == 2 * c.lev + (IF c.pc \in {"descend", "start", "search"} THEN 1 ELSE 0)

(* The elements a list of level v may lead to: those that have the level   *)
(* and whose insertion, if it still runs, is done with the search there.   *)
Shown(v) ==
    {i \in Elements :
        /\ element_levels_[i] >= v
        /\ \A t \in Threads :
              Inserting(t) /\ th[t].id = i => ~Early(th[t]) /\ Stage(th[t]) <= 2 * v}
\* The elements whose vector is stored.
Filled == {i \in Elements : \A t \in Threads : Inserting(t) /\ th[t].id = i => ~Early(th[t])}

\* The arrays of the graph.
ShapeInv ==
    /\ element_levels_ \in [Ids -> AllLevels]
    /\ data = [i \in Ids |-> data[i]]
    /\ links \in [Ids -> [AllLevels -> Seq(Ids)]]

(* No two elements and no two calls have the same vector: the queues have  *)
(* no ties.                                                                *)
Uses(c) == IF Early(c) THEN \A i \in Filled : data[i] # c.p ELSE data[c.id] = c.p
VectorInv ==
    /\ \A i \in Filled : data[i] \in Points
    /\ \A i, j \in Filled : data[i] = data[j] => i = j
    /\ \A t \in Threads : ~At(t, "idle") => th[t].p \in Points /\ Uses(th[t])
    /\ \A t, u \in Threads : t # u /\ ~At(t, "idle") /\ ~At(u, "idle") => th[t].p # th[u].p

\* The pairs of a search or a selection around p.
Around(p, E, Q) == IsFiniteSet(Q) /\ \A x \in Q : x[2] \in E /\ x = <<distance(p, data[x[2]]), x[2]>>

\* A list of element i on level v: no doubles, not itself, within its block.
ListOK(i, v, E, list) ==
    list \in Seq(E) /\ i \notin Range(list) /\ IsInjective(list) /\ Len(list) <= max_M(v)
ListsInv == \A i \in Ids, v \in AllLevels : ListOK(i, v, Shown(v), links[i][v])

LEMMA ImageFinite ==
    ASSUME NEW S, IsFiniteSet(S), NEW f
    PROVE  IsFiniteSet({f[x] : x \in S})
<1> DEFINE T == {f[x] : x \in S}
           g == [x \in S |-> f[x]]
<1>1. g \in Surjection(S, T)
  BY DEF Surjection
<1> HIDE DEF T, g
<1>2. IsFiniteSet(T)
  BY <1>1, FS_Surjection
<1> QED BY <1>2 DEF T

LEMMA TopOfLevels ==
    /\ Max(Levels) \in Nat
    /\ \A l \in Levels : l \in AllLevels
    /\ 0 \in AllLevels
    /\ \A v \in AllLevels : v \in Nat /\ \A w \in 0 .. v : w \in AllLevels
<1> DEFINE Q == {<<l, 0>> : l \in Levels}
<1>1. Distances(Q) /\ Q # {}
  <2> DEFINE f == [l \in Levels |-> <<l, 0>>]
  <2>1. IsFiniteSet({f[l] : l \in Levels})
    BY HnswAssumption, ImageFinite
  <2>2. {f[l] : l \in Levels} = Q
    OBVIOUS
  <2> HIDE DEF f
  <2>3. \A x \in Q : x[1] \in Int
    BY HnswAssumption
  <2>4. Q # {}
    BY HnswAssumption
  <2> QED BY <2>1, <2>2, <2>3, <2>4 DEF Distances
<1>2. PICK x \in Q : IsFarthest(Q, x)
  BY <1>1, EndsExist
<1>3. PICK m \in Levels : x = <<m, 0>>
  BY <1>2
<1>4. \A l \in Levels : m >= l
  <2> TAKE l \in Levels
  <2>1. <<l, 0>> \in Q
    OBVIOUS
  <2> HIDE DEF Q
  <2> QED BY <1>2, <1>3, <2>1 DEF IsFarthest
<1>5. Max(Levels) = m
  <2>1. Levels \subseteq Int
    BY HnswAssumption
  <2> QED BY <1>4, <2>1, MaxIs
<1>6. AllLevels = 0 .. m /\ m \in Nat
  BY <1>5, HnswAssumption DEF AllLevels
<1> QED BY <1>4, <1>5, <1>6, HnswAssumption

LEMMA IdsFinite == IsFiniteSet(Ids) /\ \A S \in SUBSET Ids : IsFiniteSet(S)
<1>1. IsFiniteSet(Ids)
  BY FS_Interval, HnswAssumption DEF Ids
<1> QED BY <1>1, FS_Subset

LEMMA ElementsAreIds == ASSUME TypeInv PROVE Elements \subseteq Ids
BY HnswAssumption DEF TypeInv, Elements, Ids

LEMMA ShownFilled ==
    ASSUME NEW v
    PROVE  Shown(v) \subseteq Filled /\ Filled \subseteq Elements
BY DEF Shown, Filled

\* An element nobody inserts is shown on all its levels.
LEMMA FreeShown ==
    ASSUME TypeInv, LockInv, NEW i \in Elements, LockFree(i), NEW v, element_levels_[i] >= v
    PROVE  i \in Shown(v)
<1>1. \A t \in Threads : ~(Inserting(t) /\ th[t].id = i)
  BY HnswAssumption DEF LockInv, InsertionInv, LockFree
<1> QED BY <1>1 DEF Shown

LEMMA DistanceFacts ==
    ASSUME NEW p \in Int, NEW q \in Int
    PROVE  distance(p, q) \in Nat /\ distance(p, q) \in Int /\ distance(p, q) = distance(q, p)
BY DEF distance

\* No vector is halfway between two others.
LEMMA NoTie ==
    ASSUME NEW p \in Points, NEW q \in Points, NEW r \in Points, distance(p, q) = distance(p, r)
    PROVE  q = r
<1>1. p \in Int /\ q \in Int /\ r \in Int /\ (q # r => q - p # p - r)
  BY HnswAssumption
<1> QED BY <1>1 DEF distance

LEMMA AroundQueue ==
    ASSUME VectorInv, NEW p \in Points, NEW E \in SUBSET Filled, NEW Q, Around(p, E, Q)
    PROVE  Queue(Q) /\ (\A x \in Q : x[2] \in E) /\ \A x, y \in Q : x[2] = y[2] => x = y
<1>1. \A x \in Q : x[2] \in E /\ data[x[2]] \in Points /\ x[1] = distance(p, data[x[2]])
  BY DEF VectorInv, Around
<1>2. ASSUME NEW x \in Q
      PROVE  x[1] \in Int
  <2>1. Points \subseteq Int
    BY HnswAssumption
  <2>2. p \in Int /\ data[x[2]] \in Int
    BY <1>1, <2>1
  <2>3. distance(p, data[x[2]]) \in Nat
    BY <2>2, DistanceFacts
  <2> QED BY <1>1, <2>3
<1>3. ASSUME NEW x \in Q, NEW y \in Q, x[2] = y[2]
      PROVE  x = y
  <2>1. x = <<distance(p, data[x[2]]), x[2]>> /\ y = <<distance(p, data[y[2]]), y[2]>>
    BY Zenon DEF Around
  <2> QED BY <1>3, <2>1, Zenon
<1>4. ASSUME NEW x \in Q, NEW y \in Q, x[1] = y[1]
      PROVE  x = y
  <2>1. data[x[2]] = data[y[2]]
    BY <1>1, <1>4, NoTie
  <2>2. x[2] = y[2]
    BY <1>1, <2>1 DEF VectorInv
  <2> QED BY <1>3, <2>2
<1>5. IsFiniteSet(Q)
  BY DEF Around
<1> QED BY <1>1, <1>2, <1>3, <1>4, <1>5 DEF Queue, Distances, NoTies

\* What the selection of at most M of the candidates around p gives.
LEMMA Selected ==
    ASSUME VectorInv, NEW p \in Points, NEW E \in SUBSET Filled, NEW Q, Around(p, E, Q),
           NEW M \in Nat \ {0}
    PROVE  LET list == Popped(getNeighborsByHeuristic2(Q, M)) IN
           /\ list \in Seq(E) /\ IsInjective(list) /\ Len(list) <= M
           /\ \A n \in Range(list) : \E x \in Q : n = x[2]
           /\ Q # {} => list # << >>
<1> DEFINE H == getNeighborsByHeuristic2(Q, M)
           list == Popped(H)
<1>1. Queue(Q) /\ (\A x \in Q : x[2] \in E) /\ \A x, y \in Q : x[2] = y[2] => x = y
  BY AroundQueue
<1>2. /\ H \subseteq Q /\ Queue(H) /\ Cardinality(H) <= M /\ Cardinality(H) \in Nat
      /\ Q # {} => H # {}
  BY <1>1, HeuristicFacts
<1> HIDE DEF H
<1>3. (\A x \in H : x[2] \in E) /\ \A x, y \in H : x[2] = y[2] => x = y
  BY <1>1, <1>2
<1>4. /\ list \in Seq(E) /\ Len(list) = Cardinality(H)
      /\ \A i \in 1 .. Cardinality(H) : \E x \in H : list[i] = x[2]
      /\ \A i, j \in 1 .. Cardinality(H) : list[i] = list[j] => i = j
  BY <1>2, <1>3, PoppedFacts
<1> HIDE DEF list
<1>5. DOMAIN list = 1 .. Cardinality(H)
  BY <1>4
<1>6. IsInjective(list) /\ \A n \in Range(list) : \E x \in Q : n = x[2]
  BY <1>2, <1>4, <1>5 DEF IsInjective, Range
<1>7. H # {} => list # << >>
  <2>1. H # {} => Cardinality(H) # 0
    BY <1>2, FS_EmptySet DEF Queue, Distances
  <2> QED BY <1>4, <2>1
<1> QED BY <1>2, <1>4, <1>6, <1>7 DEF list, H

LEMMA PointsAreInts == Points \subseteq Int
BY HnswAssumption

LEMMA MaxMType ==
    ASSUME NEW v \in AllLevels
    PROVE  max_M(v) \in Nat \ {0} /\ M_ \in Nat \ {0} /\ M_ <= max_M(v)
BY HnswAssumption DEF max_M

\* The ids of a set with their distances from p.
LEMMA PairsAround ==
    ASSUME VectorInv, TypeInv, NEW p \in Points, NEW R \in SUBSET Filled
    PROVE  /\ Around(p, R, {<<distance(p, data[x]), x>> : x \in R})
           /\ {<<distance(data[x], p), x>> : x \in R} = {<<distance(p, data[x]), x>> : x \in R}
<1> DEFINE Q == {<<distance(p, data[x]), x>> : x \in R}
           f == [x \in R |-> <<distance(p, data[x]), x>>]
<1>1. IsFiniteSet(R)
  BY IdsFinite, ElementsAreIds, ShownFilled
<1>2. Q = {f[x] : x \in R}
  OBVIOUS
<1>3. IsFiniteSet(Q)
  <2> HIDE DEF f, Q
  <2> QED BY <1>1, <1>2, ImageFinite
<1>4. \A x \in Q : x[2] \in R /\ x = <<distance(p, data[x[2]]), x[2]>>
  OBVIOUS
<1>5. \A x \in R : distance(data[x], p) = distance(p, data[x])
  BY DistanceFacts, PointsAreInts DEF VectorInv
<1>6. {<<distance(data[x], p), x>> : x \in R} = Q
  BY <1>5
<1> HIDE DEF Q
<1>7. Around(p, R, Q)
  BY <1>3, <1>4, Zenon DEF Around
<1> QED BY <1>6, <1>7 DEF Q

LEMMA AroundSubset ==
    ASSUME NEW p, NEW E, NEW F, NEW Q, Around(p, E, Q), NEW R \in SUBSET Q, E \subseteq F
    PROVE  Around(p, F, R)
BY FS_Subset DEF Around

LEMMA AroundWiden ==
    ASSUME NEW p, NEW E, NEW F, NEW Q, Around(p, E, Q), E \subseteq F
    PROVE  Around(p, F, Q)
BY DEF Around

LEMMA AppendList ==
    ASSUME NEW E, NEW list \in Seq(E), NEW id \in E, id \notin Range(list), IsInjective(list)
    PROVE  /\ Append(list, id) \in Seq(E) /\ IsInjective(Append(list, id))
           /\ Len(Append(list, id)) = Len(list) + 1
           /\ Range(Append(list, id)) = Range(list) \cup {id}
<1> DEFINE a == Append(list, id)
           n == Len(list)
<1>1. n \in Nat /\ DOMAIN list = 1 .. n
  OBVIOUS
<1>2. /\ a \in Seq(E) /\ Len(a) = n + 1 /\ DOMAIN a = 1 .. n + 1
      /\ a[n + 1] = id /\ \A i \in 1 .. n : a[i] = list[i]
  OBVIOUS
<1> HIDE DEF a, n
<1>3. \A i \in 1 .. n : list[i] # id
  BY <1>1 DEF Range
<1>4. \A i \in 1 .. n + 1 : i = n + 1 \/ i \in 1 .. n
  BY <1>1
<1>5. IsInjective(a)
  BY <1>1, <1>2, <1>3, <1>4 DEF IsInjective
<1>6. Range(a) = Range(list) \cup {id}
  <2>1. n + 1 \in 1 .. n + 1 /\ 1 .. n \subseteq 1 .. n + 1
    BY <1>1
  <2> QED BY <1>1, <1>2, <1>4, <2>1 DEF Range
<1> QED BY <1>2, <1>5, <1>6 DEF a, n

LEMMA RangeInSet ==
    ASSUME NEW E, NEW list \in Seq(E)
    PROVE  Range(list) \subseteq E
BY DEF Range

LEMMA ListInRange ==
    ASSUME NEW E, NEW list \in Seq(E), NEW F, Range(list) \subseteq F
    PROVE  list \in Seq(F)
<1>1. DOMAIN list = 1 .. Len(list) /\ Len(list) \in Nat
  OBVIOUS
<1>2. \A i \in 1 .. Len(list) : list[i] \in F
  BY <1>1 DEF Range
<1>3. list \in [1 .. Len(list) -> F]
  BY <1>1, <1>2
<1> QED BY <1>1, <1>3

\* The list of a neighbor with the new element.
LEMMA LinkedOK ==
    ASSUME TypeInv, VectorInv, NEW v \in AllLevels, NEW E \in SUBSET Filled, NEW n \in Filled,
           ListOK(n, v, E, links[n][v]), NEW id \in E, id # n, NEW upd \in BOOLEAN,
           upd \/ id \notin Range(links[n][v])
    PROVE  /\ ListOK(n, v, E, Linked(n, id, v, upd))
           /\ Range(Linked(n, id, v, upd)) \subseteq Range(links[n][v]) \cup {id}
<1> DEFINE list == links[n][v]
           R == Range(list) \cup {id}
           pairs == {<<distance(data[x], data[n]), x>> : x \in R}
           sel == Popped(getNeighborsByHeuristic2(pairs, max_M(v)))
<1>1. list \in Seq(E) /\ n \notin Range(list) /\ IsInjective(list) /\ Len(list) <= max_M(v)
  BY DEF ListOK
<1>2. Linked(n, id, v, upd) = IF upd /\ id \in Range(list) THEN list
                              ELSE IF Len(list) < max_M(v) THEN Append(list, id) ELSE sel
  BY Zenon DEF Linked
<1>3. max_M(v) \in Nat \ {0} /\ Len(list) \in Nat
  BY <1>1, MaxMType
<1>4. R \subseteq E /\ n \notin R
  BY <1>1, RangeInSet
<1>5. data[n] \in Points
  BY DEF VectorInv
<1>6. sel \in Seq(R) /\ IsInjective(sel) /\ Len(sel) <= max_M(v) /\ Range(sel) \subseteq R
  <2> HIDE DEF R
  <2>1. Around(data[n], R, pairs)
    BY <1>4, <1>5, PairsAround
  <2> HIDE DEF pairs
  <2>2. R \in SUBSET Filled
    BY <1>4
  <2>3. sel \in Seq(R) /\ IsInjective(sel) /\ Len(sel) <= max_M(v)
    BY <1>3, <1>5, <2>1, <2>2, Selected
  <2> QED BY <2>3, RangeInSet
<1> HIDE DEF sel, list
<1>7. CASE Linked(n, id, v, upd) = list
  BY <1>1, <1>7 DEF ListOK, list
<1>8. CASE Linked(n, id, v, upd) = Append(list, id) /\ id \notin Range(list) /\ Len(list) < max_M(v)
  <2>1. /\ Append(list, id) \in Seq(E) /\ IsInjective(Append(list, id))
        /\ Len(Append(list, id)) = Len(list) + 1
        /\ Range(Append(list, id)) = R
    BY <1>1, <1>8, AppendList
  <2>2. Len(list) + 1 <= max_M(v)
    BY <1>3, <1>8
  <2> QED BY <1>4, <1>8, <2>1, <2>2 DEF ListOK, list
<1>9. CASE Linked(n, id, v, upd) = sel
  <2>1. sel \in Seq(E)
    BY <1>4, <1>6, ListInRange
  <2> QED BY <1>4, <1>6, <1>9, <2>1 DEF ListOK, list
<1> QED BY <1>2, <1>7, <1>8, <1>9 DEF list

\* The list a neighbor gets from an update.
LEMMA RewiredOK ==
    ASSUME TypeInv, VectorInv, NEW v \in AllLevels, NEW E \in SUBSET Filled, NEW n \in Filled,
           NEW cands \in SUBSET E
    PROVE  ListOK(n, v, E, Rewired(n, v, cands))
<1> DEFINE R == cands \ {n}
           pairs == {<<distance(data[n], data[x]), x>> : x \in R}
           kept == {x \in pairs : Cardinality({y \in pairs : y[1] < x[1]}) < efConstruction_}
           sel == Popped(getNeighborsByHeuristic2(kept, max_M(v)))
<1>1. Rewired(n, v, cands) = sel
  BY DEF Rewired
<1>2. R \in SUBSET Filled /\ R \subseteq E /\ n \notin R /\ data[n] \in Points /\ max_M(v) \in Nat \ {0}
  BY MaxMType DEF VectorInv
<1> HIDE DEF R
<1>3. Around(data[n], R, pairs)
  BY <1>2, PairsAround
<1>4. Around(data[n], R, kept)
  <2>1. kept \in SUBSET pairs
    OBVIOUS
  <2> HIDE DEF kept, pairs
  <2> QED BY <1>3, <2>1, AroundSubset
<1> HIDE DEF kept
<1>5. sel \in Seq(R) /\ IsInjective(sel) /\ Len(sel) <= max_M(v)
  BY <1>2, <1>4, Selected
<1> HIDE DEF sel
<1>6. Range(sel) \subseteq R
  BY <1>5, RangeInSet
<1>7. sel \in Seq(E)
  BY <1>2, <1>5, <1>6, ListInRange
<1> QED BY <1>1, <1>2, <1>5, <1>6, <1>7 DEF ListOK
-----------------------------------------------------------------------------
(* A search.                                                               *)

SearchFields == {"Top_K", "K_Set", "visited", "lower_bound"}
SearchOK(s, p, E) ==
    /\ DOMAIN s = SearchFields
    /\ Distances(s.K_Set) /\ \A x \in s.K_Set : x[2] \in E
    /\ Around(p, E, s.Top_K)

LEMMA OfferAround ==
    ASSUME NEW p, NEW E, NEW Q, Around(p, E, Q), NEW y \in E, NEW keep
    PROVE  Around(p, E, Offer(Q, <<distance(p, data[y]), y>>, keep))
<1> DEFINE x == <<distance(p, data[y]), y>>
           G == Q \cup {x}
<1>1. x[2] = y /\ x = <<distance(p, data[x[2]]), x[2]>>
  OBVIOUS
<1> HIDE DEF x
<1>2. Around(p, E, G)
  <2>1. IsFiniteSet(G)
    BY FS_AddElement DEF Around
  <2> QED BY <1>1, <2>1, Zenon DEF Around
<1>3. Offer(Q, x, keep) = G \/ Offer(Q, x, keep) = G \ {Farthest(G)}
  BY Zenon DEF Offer
<1> HIDE DEF G
<1>4. Offer(Q, x, keep) \in SUBSET G
  BY <1>3
<1> QED BY <1>2, <1>4, AroundSubset DEF x

LEMMA VisitKeeps ==
    ASSUME NEW p \in Int, NEW E, NEW s, SearchOK(s, p, E), NEW x \in E, data[x] \in Int
    PROVE  SearchOK(Visit(s, p, x), p, E)
<1> DEFINE best == IF x \in deleted THEN s.Top_K
                   ELSE Offer(s.Top_K, <<distance(p, data[x]), x>>, efConstruction_)
           visited == s.visited \cup {x}
           lower == IF best = {} THEN s.lower_bound ELSE Farthest(best)[1]
           K == s.K_Set \cup {<<distance(p, data[x]), x>>}
           s1 == [s EXCEPT !.visited = visited]
           s2 == [s EXCEPT !.visited = visited, !.K_Set = K, !.Top_K = best, !.lower_bound = lower]
<1>1. Visit(s, p, x) \in {s, s1, s2}
  BY Zenon DEF Visit
<1>2. Around(p, E, best)
  BY OfferAround DEF SearchOK
<1>3. Distances(K) /\ \A y \in K : y[2] \in E
  <2>1. IsFiniteSet(K)
    BY FS_AddElement DEF SearchOK, Distances
  <2>2. distance(p, data[x]) \in Int
    BY DistanceFacts
  <2> QED BY <2>1, <2>2 DEF SearchOK, Distances
<1> HIDE DEF best, visited, lower, K
<1>4. DOMAIN s = SearchFields
  BY DEF SearchOK
<1>5. SearchOK(s1, p, E)
  <2>1. DOMAIN s1 = SearchFields /\ s1.K_Set = s.K_Set /\ s1.Top_K = s.Top_K
    BY <1>4 DEF SearchFields
  <2> HIDE DEF s1
  <2> QED BY <2>1 DEF SearchOK
<1>6. SearchOK(s2, p, E)
  <2>1. DOMAIN s2 = SearchFields /\ s2.K_Set = K /\ s2.Top_K = best
    BY <1>4 DEF SearchFields
  <2> HIDE DEF s2
  <2> QED BY <1>2, <1>3, <2>1 DEF SearchOK
<1> QED BY <1>1, <1>5, <1>6

\* One popped candidate: only what its list leads to is added.
LEMMA VisitsKeep ==
    ASSUME NEW p \in Int, NEW E, NEW s, SearchOK(s, p, E), NEW list \in Seq(E),
           \A x \in E : data[x] \in Int
    PROVE  SearchOK(Visits(p, s, list), p, E)
<1> DEFINE all == Visits(p, s, list)
           n == Len(list)
<1>1. PICK acc : Chain("visit", p, s, list, n, acc) /\ all = acc[n]
  BY VisitFold
<1> HIDE DEF all
<1>2. n \in Nat /\ \A k \in 1 .. n : list[k] \in E
  OBVIOUS
<1> HIDE DEF n
<1>3. acc[0] = s /\ \A k \in 0 .. n - 1 : acc[k + 1] = Visit(acc[k], p, list[k + 1])
  BY <1>1 DEF Chain, Apply
<1> DEFINE S == {k \in 0 .. n : SearchOK(acc[k], p, E)}
<1>4. 0 \in S
  BY <1>2, <1>3
<1>5. ASSUME NEW k \in 0 .. n - 1, k \in S
      PROVE  k + 1 \in S
  <2>1. SearchOK(acc[k], p, E) /\ k + 1 \in 1 .. n /\ k + 1 \in 0 .. n
    BY <1>2, <1>5
  <2>2. list[k + 1] \in E /\ data[list[k + 1]] \in Int
    BY <1>2, <2>1
  <2>3. SearchOK(Visit(acc[k], p, list[k + 1]), p, E)
    BY <2>1, <2>2, VisitKeeps
  <2> QED BY <1>3, <2>1, <2>3
<1> HIDE DEF S
<1>6. n \in S
  BY <1>2, <1>4, <1>5, UpTo
<1>7. SearchOK(all, p, E)
  BY <1>1, <1>6 DEF S
<1> QED BY <1>7 DEF all

LEMMA InfiniteType == ASSUME Points # {} PROVE Infinite \in Int
<1> DEFINE Q == {<<l, 0>> : l \in Points}
<1>1. Distances(Q) /\ Q # {}
  <2> DEFINE f == [l \in Points |-> <<l, 0>>]
  <2>1. IsFiniteSet({f[l] : l \in Points})
    BY HnswAssumption, ImageFinite
  <2>2. {f[l] : l \in Points} = Q
    OBVIOUS
  <2> HIDE DEF f
  <2>3. \A x \in Q : x[1] \in Int
    BY PointsAreInts
  <2> QED BY <2>1, <2>2, <2>3 DEF Distances
<1>2. PICK x \in Q : IsFarthest(Q, x)
  BY <1>1, EndsExist
<1>3. PICK y \in Q : IsNearest(Q, y)
  BY <1>1, EndsExist
<1>4. PICK a \in Points : x = <<a, 0>>
  BY <1>2
<1>5. PICK b \in Points : y = <<b, 0>>
  BY <1>3
<1>6. \A l \in Points : a >= l /\ b <= l
  <2> TAKE l \in Points
  <2>1. <<l, 0>> \in Q
    OBVIOUS
  <2> HIDE DEF Q
  <2> QED BY <1>2, <1>3, <1>4, <1>5, <2>1 DEF IsFarthest, IsNearest
<1>7. Max(Points) \in Points
  BY <1>6 DEF Max
<1>8. Min(Points) \in Points
  BY <1>6 DEF Min
<1> QED BY <1>7, <1>8, PointsAreInts DEF Infinite

LEMMA SearchFromOK ==
    ASSUME VectorInv, TypeInv, NEW p \in Points, NEW E \in SUBSET Filled, NEW x \in E
    PROVE  SearchOK(SearchFrom(x, p), p, E)
<1> DEFINE s == SearchFrom(x, p)
           y == <<distance(p, data[x]), x>>
<1>1. p \in Int /\ data[x] \in Int /\ distance(p, data[x]) \in Int /\ Infinite \in Int
  <2>1. p \in Int /\ data[x] \in Int
    BY PointsAreInts DEF VectorInv
  <2> QED BY <2>1, DistanceFacts, InfiniteType
<1>2. Around(p, E, {y}) /\ Around(p, E, {})
  <2>1. y[2] = x /\ y = <<distance(p, data[y[2]]), y[2]>>
    OBVIOUS
  <2> HIDE DEF y
  <2>2. Around(p, E, {y})
    BY <2>1, FS_Singleton, Zenon DEF Around
  <2>3. Around(p, E, {})
    BY FS_EmptySet DEF Around
  <2> QED BY <2>2, <2>3
<1>3. Distances({y}) /\ Distances({<<-Infinite, x>>})
  <2>1. IsFiniteSet({y}) /\ IsFiniteSet({<<-Infinite, x>>})
    BY FS_Singleton
  <2>2. -Infinite \in Int
    BY <1>1
  <2> QED BY <1>1, <2>1, <2>2 DEF Distances
<1>4. CASE x \in deleted
  <2>1. /\ DOMAIN s = SearchFields /\ s.Top_K = {} /\ s.K_Set = {<<-Infinite, x>>}
    BY <1>4 DEF SearchFrom, SearchFields
  <2> HIDE DEF s
  <2> QED BY <1>2, <1>3, <2>1 DEF SearchOK, s
<1>5. CASE x \notin deleted
  <2>1. /\ DOMAIN s = SearchFields /\ s.Top_K = {y} /\ s.K_Set = {y}
    BY <1>5 DEF SearchFrom, SearchFields
  <2> HIDE DEF s
  <2> QED BY <1>2, <1>3, <2>1 DEF SearchOK, s
<1> QED BY <1>4, <1>5
-----------------------------------------------------------------------------
(* What the locals of a thread inside a call lead to.                      *)

\* An update runs alone.
AloneInv ==
    \A t \in Threads : th[t].upd =>
        /\ \A u \in Threads \ {t} : At(u, "idle")
        /\ th[t].id \in Elements \ deleted /\ th[t].level = element_levels_[th[t].id]

\* The entry point is finished, except while the first element is inserted.
EntryDone ==
    /\ entry_id_ \in Elements /\ LockFree(entry_id_) /\ element_levels_[entry_id_] = max_level_
    /\ \A t \in Threads : At(t, "entry") => th[t].max >= 0
FirstAlone ==
    \E g \in Threads : /\ At(g, "publish") /\ global_lock_ = g
                       /\ \A t \in Threads \ {g} : th[t].pc \in {"idle", "global"}
NoEntryYet ==
    /\ \A i \in Elements : ~LockFree(i)
    /\ \A t \in Threads : \/ th[t].pc \in {"idle", "global"}
                          \/ At(t, "entry") /\ global_lock_ = t
EntryInv ==
    /\ max_level_ \in AllLevels \cup {-1}
    /\ entry_id_ = None => NoEntryYet
    /\ entry_id_ # None => EntryDone \/ FirstAlone
    /\ \A t \in Threads : At(t, "entry") => th[t].max \in AllLevels \cup {-1} /\ th[t].max <= max_level_
    /\ \A t \in Threads : Early(th[t]) => th[t].level \in AllLevels

(* The locals of a call: the level it is on, the entry point it started    *)
(* from, the elements it walks over, the candidates it has found, the      *)
(* neighbors it has left to connect or to rewire.                          *)
Placed(c) ==
    /\ c.pc \notin {"idle", "global", "entry"} => c.lev \in AllLevels
    /\ c.pc \in {"global", "entry", "publish"} => c.lev = 0
Started(c) ==
    c.pc \notin {"idle", "global", "entry", "publish", "error"} =>
        /\ c.ep \in Elements /\ LockFree(c.ep) /\ element_levels_[c.ep] >= c.max
        /\ c.level \in AllLevels /\ c.max \in AllLevels
OnPath(c) ==
    c.pc \in {"descend", "start", "search", "connect"} =>
        /\ c.lev <= c.max /\ c.obj \in Shown(c.lev)
        /\ IF c.pc = "descend" THEN c.lev > c.level ELSE c.lev <= c.level
Searching(c) == c.pc = "search" => SearchOK(c.search, c.p, Shown(c.lev))
NotLinkedYet(c) == \A n \in Range(c.pending) : c.id \notin Range(links[n][c.lev])
Connecting(c) ==
    c.pc = "connect" =>
        /\ c.pending \in Seq(Shown(c.lev)) /\ c.pending # << >> /\ Last(c.pending) = c.obj
        /\ IsInjective(c.pending) /\ c.id \notin Range(c.pending)
Rewiring(c) ==
    /\ c.pc \in {"onehop", "twohop", "rewire"} => c.upd /\ c.lev <= c.level
    /\ c.pc \in {"twohop", "rewire"} =>
          c.pending \in Seq(Shown(c.lev)) /\ c.pending # << >> /\ c.cands \subseteq Shown(c.lev)
    /\ c.pc = "twohop" => c.nbrs \in Seq(Shown(c.lev)) /\ c.nbrs # << >>
WalkerOK(c) ==
    Placed(c) /\ Started(c) /\ OnPath(c) /\ Searching(c) /\ Connecting(c) /\ Rewiring(c)
WalkersInv ==
    \A t \in Threads :
        /\ WalkerOK(th[t])
        /\ At(t, "connect") /\ ~th[t].upd => NotLinkedYet(th[t])

\* Of two insertions that connect on a level, only the later one can wait for the other.
RankedBy(rank) ==
    \A t, u \in Threads :
        /\ At(t, "connect") /\ At(u, "connect") /\ ~th[t].upd /\ ~th[u].upd
        /\ th[t].lev = th[u].lev /\ th[u].id \in Range(th[t].pending)
        => rank[th[u].id] < rank[th[t].id]
RankInv == \E rank \in [Ids -> Nat] : RankedBy(rank)

\* The graph and the threads that walk on it, when callers keep the discipline.
GraphInv ==
    ShapeInv /\ VectorInv /\ AloneInv /\ EntryInv /\ WalkersInv /\ ListsInv /\ RankInv

\* All that the steps below start from.
Base == TypeInv /\ MarksInv /\ LockInv /\ GraphInv /\ Disciplined

\* A step takes nothing away from what threads know.
Frame ==
    /\ \A v \in Int : Shown(v) \subseteq Shown(v)'
    /\ \A i \in Elements : /\ i \in Elements' /\ element_levels_'[i] = element_levels_[i]
                           /\ LockFree(i) => LockFree(i)'
    /\ \A i \in Filled : data'[i] = data[i]

LEMMA SeqWiden ==
    ASSUME NEW E, NEW F, E \subseteq F, NEW list \in Seq(E)
    PROVE  list \in Seq(F)
BY RangeInSet, ListInRange

\* The locals that were right stay right.
LEMMA WalkerLater ==
    ASSUME Frame, NEW c, WalkerOK(c)
    PROVE  WalkerOK(c)'
<1>1. Placed(c)'
  BY DEF WalkerOK, Placed
<1>2. Started(c)'
  BY DEF WalkerOK, Started, Frame
<1>3. c.pc \in {"descend", "start", "search", "connect", "twohop", "rewire"} =>
        c.lev \in Int /\ Shown(c.lev) \subseteq Shown(c.lev)'
  BY TopOfLevels DEF WalkerOK, Placed, Frame
<1>4. OnPath(c)'
  BY <1>3 DEF WalkerOK, OnPath
<1>5. Searching(c)'
  <2> SUFFICES ASSUME c.pc = "search" PROVE SearchOK(c.search, c.p, Shown(c.lev))'
    BY DEF Searching
  <2>1. SearchOK(c.search, c.p, Shown(c.lev))
    BY DEF WalkerOK, Searching
  <2>2. \A i \in Shown(c.lev) : data'[i] = data[i]
    BY ShownFilled DEF Frame
  <2> DEFINE Q == c.search.Top_K
  <2>3. Around(c.p, Shown(c.lev), Q)'
    <3>1. ASSUME NEW x \in Q
          PROVE  x[2] \in Shown(c.lev)' /\ x = <<distance(c.p, data'[x[2]]), x[2]>>
      <4>1. x[2] \in Shown(c.lev) /\ x = <<distance(c.p, data[x[2]]), x[2]>>
        BY <2>1, Zenon DEF SearchOK, Around
      <4>2. data'[x[2]] = data[x[2]] /\ x[2] \in Shown(c.lev)'
        BY <1>3, <2>2, <4>1
      <4> QED BY <4>1, <4>2, Zenon
    <3>2. IsFiniteSet(Q)
      BY <2>1 DEF SearchOK, Around
    <3> HIDE DEF Q
    <3> QED BY <3>1, <3>2, Zenon DEF Around, distance
  <2>4. /\ DOMAIN c.search = SearchFields /\ Distances(c.search.K_Set)
        /\ \A x \in c.search.K_Set : x[2] \in Shown(c.lev)'
    BY <1>3, <2>1 DEF SearchOK
  <2> QED BY <2>3, <2>4 DEF SearchOK
<1>6. Connecting(c)'
  BY <1>3, SeqWiden DEF WalkerOK, Connecting
<1>7. Rewiring(c)'
  BY <1>3, SeqWiden DEF WalkerOK, Rewiring
<1> QED BY <1>1, <1>2, <1>4, <1>5, <1>6, <1>7 DEF WalkerOK

LEMMA ListLater ==
    ASSUME Frame, NEW i, NEW v \in AllLevels, NEW list, ListOK(i, v, Shown(v), list)
    PROVE  ListOK(i, v, Shown(v), list)'
<1>1. Shown(v) \subseteq Shown(v)'
  BY TopOfLevels DEF Frame
<1>2. list \in Seq(Shown(v)')
  BY <1>1, SeqWiden DEF ListOK
<1> QED BY <1>2 DEF ListOK, max_M

\* Rank: nobody starts to connect.
LEMMA RankKept ==
    ASSUME RankInv,
           \A t \in Threads : th'[t].pc = "connect" /\ ~th'[t].upd =>
              /\ At(t, "connect") /\ ~th[t].upd /\ th'[t].lev = th[t].lev /\ th'[t].id = th[t].id
              /\ Range(th'[t].pending) \subseteq Range(th[t].pending)
    PROVE  RankInv'
<1>1. PICK rank \in [Ids -> Nat] : RankedBy(rank)
  BY DEF RankInv
<1>2. RankedBy(rank)'
  <2> SUFFICES ASSUME NEW t \in Threads, NEW u \in Threads,
                      th'[t].pc = "connect", th'[u].pc = "connect", ~th'[t].upd, ~th'[u].upd,
                      th'[t].lev = th'[u].lev, th'[u].id \in Range(th'[t].pending)
               PROVE  rank[th'[u].id] < rank[th'[t].id]
    BY DEF RankedBy, At
  <2> QED BY <1>1 DEF RankedBy
<1> QED BY <1>1, <1>2 DEF RankInv
-----------------------------------------------------------------------------
(* A step of a thread inside a call.                                       *)

\* A call goes on, an insertion never back to an earlier stage.
Same(c, d) ==
    /\ d.id = c.id /\ d.p = c.p /\ d.upd = c.upd /\ d.level = c.level
    /\ d.pc \notin {"idle", "global", "entry"}
Move(t, d) ==
    /\ th[t].pc \notin {"idle", "global", "entry", "publish"}
    /\ th' = [th EXCEPT ![t] = d]
    /\ UNCHANGED <<element_levels_, data, marks, names, top, link_locks_, global_lock_>>
    /\ \/ d = Idle /\ th[t].upd
       \/ Same(th[t], d) /\ (th[t].upd \/ Stage(d) <= Stage(th[t]))
    /\ WalkerOK(d)

LEMMA StageType ==
    ASSUME NEW c, Placed(c), c.pc \notin {"idle", "global", "entry"}
    PROVE  Stage(c) \in Int /\ c.lev \in Nat
BY TopOfLevels DEF Placed, Stage

LEMMA ThreadsMoved ==
    ASSUME TypeInv, NEW t \in Threads, NEW d, th' = [th EXCEPT ![t] = d]
    PROVE  th'[t] = d /\ \A u \in Threads : u # t => th'[u] = th[u]
BY DEF TypeInv

LEMMA MoveFrame ==
    ASSUME Base, NEW t \in Threads, NEW d, Move(t, d)
    PROVE  Frame /\ Filled' = Filled /\ Elements' = Elements
<1>1. TypeInv /\ WalkersInv /\ Elements' = Elements /\ element_levels_' = element_levels_ /\ data' = data
  BY DEF Base, GraphInv, Move, Elements, names
<1>2. th'[t] = d /\ \A u \in Threads : u # t => th'[u] = th[u]
  BY <1>1, ThreadsMoved DEF Move
<1>3. ~Early(th[t]) /\ th[t].pc # "idle"
  BY DEF Early, Move
<1>4. Inserting(t)' => Inserting(t) /\ d.id = th[t].id /\ ~Early(d) /\ Stage(d) <= Stage(th[t])
  BY <1>2, IdleFacts DEF Move, Same, Inserting, Early
<1>5. Inserting(t) => Inserting(t)' /\ d.id = th[t].id
  BY <1>2, IdleFacts DEF Move, Same, Inserting
<1>6. \A u \in Threads : u # t => (Inserting(u)' <=> Inserting(u))
  BY <1>2 DEF Inserting
<1>7. Filled' = Filled
  <2>1. \A i : \A u \in Threads : (Inserting(u) /\ th[u].id = i => ~Early(th[u]))
                   <=> (Inserting(u) /\ th[u].id = i => ~Early(th[u]))'
    BY <1>2, <1>3, <1>4, <1>6 DEF Early
  <2> QED BY <1>1, <2>1 DEF Filled
<1>8. ASSUME NEW v \in Int
      PROVE  Shown(v) \subseteq Shown(v)'
  <2>1. Inserting(t)' => Stage(d) \in Int /\ Stage(th[t]) \in Int
    <3>1. Placed(d) /\ Placed(th[t])
      BY <1>1 DEF Move, WalkerOK, WalkersInv
    <3>2. Inserting(t)' => d.pc \notin {"idle", "global", "entry"}
      BY <1>2, <1>4 DEF Early, Inserting
    <3> QED BY <1>3, <3>1, <3>2, StageType DEF Early
  <2> SUFFICES ASSUME NEW i \in Shown(v), NEW u \in Threads, Inserting(u)', th'[u].id = i
               PROVE  ~Early(th'[u]) /\ Stage(th'[u]) <= 2 * v
    BY <1>1 DEF Shown, Early, Stage
  <2>2. CASE u = t
    <3>1. Stage(th[t]) <= 2 * v
      BY <1>2, <1>4, <2>2 DEF Shown
    <3> QED BY <1>2, <1>4, <2>1, <2>2, <3>1
  <2>3. CASE u # t
    BY <1>2, <1>6, <2>3 DEF Shown
  <2> QED BY <2>2, <2>3
<1>9. \A i : LockFree(i) => LockFree(i)'
  BY DEF LockFree, Move
<1> QED BY <1>1, <1>7, <1>8, <1>9 DEF Frame

LEMMA MoveKeepsVectors ==
    ASSUME Base, NEW t \in Threads, NEW d, Move(t, d)
    PROVE  VectorInv'
<1>1. Filled' = Filled /\ data' = data /\ VectorInv /\ TypeInv
  BY MoveFrame DEF Base, GraphInv, Move
<1>2. th'[t] = d /\ \A u \in Threads : u # t => th'[u] = th[u]
  BY <1>1, ThreadsMoved DEF Move
<1>3. /\ ~Early(th[t]) /\ th[t].pc # "idle"
      /\ d.pc # "idle" => ~Early(d) /\ d.id = th[t].id /\ d.p = th[t].p
  BY IdleFacts DEF Early, Move, Same
<1>4. (\A i \in Filled : data[i] \in Points)' /\ (\A i, j \in Filled : data[i] = data[j] => i = j)'
  BY <1>1 DEF VectorInv
<1>5. ASSUME NEW u \in Threads, th'[u].pc # "idle"
      PROVE  /\ th[u].pc # "idle" /\ th'[u].p = th[u].p
             /\ th'[u].p \in Points /\ Uses(th[u])'
  <2>1. th[u].pc # "idle" => th[u].p \in Points /\ Uses(th[u])
    BY <1>1 DEF VectorInv, At
  <2>2. CASE u = t
    BY <1>1, <1>2, <1>3, <1>5, <2>1, <2>2 DEF Uses, Early
  <2>3. CASE u # t
    BY <1>1, <1>2, <1>5, <2>1, <2>3 DEF Uses, Early
  <2> QED BY <2>2, <2>3
<1>6. (\A a, b \in Threads : a # b /\ ~At(a, "idle") /\ ~At(b, "idle") => th[a].p # th[b].p)'
  BY <1>1, <1>5 DEF VectorInv, At
<1> QED BY <1>4, <1>5, <1>6 DEF VectorInv, At

LEMMA MoveKeepsAlone ==
    ASSUME Base, NEW t \in Threads, NEW d, Move(t, d)
    PROVE  AloneInv'
<1>1. /\ Elements' = Elements /\ AloneInv /\ TypeInv /\ deleted' = deleted
      /\ element_levels_' = element_levels_
  BY MoveFrame DEF Base, GraphInv, Move, marks
<1>2. th'[t] = d /\ \A u \in Threads : u # t => th'[u] = th[u]
  BY <1>1, ThreadsMoved DEF Move
<1>3. d.upd => th[t].upd /\ d.id = th[t].id /\ d.level = th[t].level
  BY IdleFacts DEF Move, Same
<1>4. th[t].pc # "idle"
  BY DEF Move
<1>5. ASSUME NEW u \in Threads, th'[u].upd
      PROVE  u = t
  <2> SUFFICES ASSUME u # t PROVE FALSE
    OBVIOUS
  <2>1. th[u].upd
    BY <1>2, <1>5
  <2> QED BY <1>1, <1>4, <2>1 DEF AloneInv, At
<1>6. th'[t].upd => /\ \A u \in Threads \ {t} : th'[u].pc = "idle"
                    /\ th'[t].id \in Elements' \ deleted' /\ th'[t].level = element_levels_'[th'[t].id]
  BY <1>1, <1>2, <1>3 DEF AloneInv, At
<1> QED BY <1>5, <1>6 DEF AloneInv, At

LEMMA MoveKeepsEntry ==
    ASSUME Base, NEW t \in Threads, NEW d, Move(t, d)
    PROVE  EntryInv'
<1>1. /\ Elements' = Elements /\ EntryInv /\ TypeInv
      /\ element_levels_' = element_levels_ /\ entry_id_' = entry_id_ /\ max_level_' = max_level_
      /\ link_locks_' = link_locks_
  BY MoveFrame DEF Base, GraphInv, Move, top
<1>2. th'[t] = d /\ \A u \in Threads : u # t => th'[u] = th[u]
  BY <1>1, ThreadsMoved DEF Move
<1>3. d.pc \notin {"entry", "global"} /\ th[t].pc \notin {"idle", "global", "entry", "publish"}
  BY IdleFacts DEF Move, Same
<1>4. ~NoEntryYet /\ ~FirstAlone
  BY <1>3 DEF NoEntryYet, FirstAlone, At
<1>5. entry_id_ # None /\ EntryDone
  BY <1>1, <1>4 DEF EntryInv
<1>6. EntryDone'
  BY <1>1, <1>2, <1>3, <1>5 DEF EntryDone, At, LockFree
<1>7. \A u \in Threads : (th'[u].pc = "entry" \/ th'[u].pc = "global") => th'[u] = th[u]
  BY <1>2, <1>3
<1> QED BY <1>1, <1>5, <1>6, <1>7 DEF EntryInv, At, Early

LEMMA InsertedApart ==
    ASSUME LockInv, NEW t \in Threads, NEW u \in Threads, Inserting(t), Inserting(u), t # u
    PROVE  th[t].id # th[u].id
BY DEF LockInv, InsertionInv

\* The lists after a step that writes none, or the list of n on level v.
Written(n, v, list) == links' = [links EXCEPT ![n][v] = list]

LEMMA WrittenList ==
    ASSUME ShapeInv, NEW n \in Ids, NEW v \in AllLevels, NEW list \in Seq(Ids), Written(n, v, list)
    PROVE  /\ links' \in [Ids -> [AllLevels -> Seq(Ids)]]
           /\ links'[n][v] = list
           /\ \A i \in Ids, w \in AllLevels : i # n \/ w # v => links'[i][w] = links[i][w]
BY DEF ShapeInv, Written

\* A step of a thread that writes no list.
LEMMA MoveOnly ==
    ASSUME Base, NEW t \in Threads, NEW d, Move(t, d), links' = links,
           d.pc = "connect" => d.upd
    PROVE  GraphInv'
<1>1. /\ TypeInv /\ ShapeInv /\ WalkersInv /\ ListsInv /\ RankInv
  BY DEF Base, GraphInv
<1>2. Frame /\ Elements' = Elements
  BY MoveFrame
<1>3. th'[t] = d /\ \A u \in Threads : u # t => th'[u] = th[u]
  BY <1>1, ThreadsMoved DEF Move
<1>4. ShapeInv'
  BY <1>1 DEF ShapeInv, Move
<1>5. \A c : WalkerOK(c) => WalkerOK(c)'
  BY <1>2, WalkerLater
<1>6. \A u \in Threads : WalkerOK(th'[u])
  BY <1>1, <1>3 DEF Move, WalkersInv
<1>7. WalkersInv'
  <2>1. \A u \in Threads : WalkerOK(th[u])'
    BY <1>5, <1>6
  <2>2. \A u \in Threads : th'[u].pc = "connect" /\ ~th'[u].upd => NotLinkedYet(th[u])'
    BY <1>1, <1>3 DEF WalkersInv, NotLinkedYet, At
  <2> QED BY <2>1, <2>2 DEF WalkersInv, At
<1>8. ListsInv'
  BY <1>1, <1>2, ListLater DEF ListsInv
<1>9. RankInv'
  <2>1. \A u \in Threads : th'[u].pc = "connect" /\ ~th'[u].upd => th'[u] = th[u]
    BY <1>3
  <2> QED BY <1>1, <2>1, RankKept DEF At
<1> QED BY <1>4, <1>7, <1>8, <1>9, MoveKeepsVectors, MoveKeepsAlone, MoveKeepsEntry DEF GraphInv

\* A step of a thread that writes the list of n on level v.
LEMMA MoveWrites ==
    ASSUME Base, NEW t \in Threads, NEW d, Move(t, d),
           NEW n \in Ids, NEW v \in AllLevels, NEW list, Written(n, v, list),
           ListOK(n, v, Shown(v), list),
           \A u \in Threads : /\ u # t /\ At(u, "connect") /\ ~th[u].upd
                              /\ th[u].lev = v /\ n \in Range(th[u].pending)
                              => th[u].id \notin Range(list),
           d.pc = "connect" /\ ~d.upd => \A m \in Range(d.pending) : d.id \notin Range(links'[m][d.lev]),
           RankInv'
    PROVE  GraphInv'
<1>1. /\ TypeInv /\ ShapeInv /\ WalkersInv /\ ListsInv
  BY DEF Base, GraphInv
<1>2. Frame /\ Elements' = Elements
  BY MoveFrame
<1>3. th'[t] = d /\ \A u \in Threads : u # t => th'[u] = th[u]
  BY <1>1, ThreadsMoved DEF Move
<1>4. /\ links' \in [Ids -> [AllLevels -> Seq(Ids)]]
      /\ links'[n][v] = list
      /\ \A i \in Ids, w \in AllLevels : i # n \/ w # v => links'[i][w] = links[i][w]
  <2>1. list \in Seq(Ids)
    BY <1>1, SeqWiden, ShownFilled, ElementsAreIds DEF ListOK
  <2> QED BY <1>1, <2>1, WrittenList
<1>5. ShapeInv'
  BY <1>1, <1>4 DEF ShapeInv, Move
<1>6. \A c : WalkerOK(c) => WalkerOK(c)'
  BY <1>2, WalkerLater
<1>7. \A u \in Threads : WalkerOK(th'[u])
  BY <1>1, <1>3 DEF Move, WalkersInv
<1>8. WalkersInv'
  <2>1. \A u \in Threads : WalkerOK(th[u])'
    BY <1>6, <1>7
  <2>2. ASSUME NEW u \in Threads, th'[u].pc = "connect", ~th'[u].upd
        PROVE  NotLinkedYet(th[u])'
    <3>1. CASE u = t
      BY <1>3, <2>2, <3>1 DEF NotLinkedYet
    <3>2. CASE u # t
      <4>1. th'[u] = th[u] /\ NotLinkedYet(th[u])
        BY <1>1, <1>3, <2>2, <3>2 DEF WalkersInv, At
      <4>2. th[u].lev \in AllLevels /\ Range(th[u].pending) \subseteq Ids
        <5>1. th[u].lev \in AllLevels /\ th[u].pending \in Seq(Shown(th[u].lev))
          BY <1>1, <2>2, <4>1 DEF WalkersInv, WalkerOK, Placed, Connecting
        <5> QED BY <1>1, <5>1, RangeInSet, ShownFilled, ElementsAreIds
      <4>3. ASSUME NEW m \in Range(th[u].pending)
            PROVE  th[u].id \notin Range(links'[m][th[u].lev])
        <5>1. CASE m = n /\ th[u].lev = v
          BY <1>4, <2>2, <3>2, <4>1, <4>3, <5>1 DEF At
        <5>2. CASE m # n \/ th[u].lev # v
          BY <1>4, <4>1, <4>2, <5>2 DEF NotLinkedYet
        <5> QED BY <5>1, <5>2
      <4> QED BY <4>1, <4>3 DEF NotLinkedYet
    <3> QED BY <3>1, <3>2
  <2> QED BY <2>1, <2>2 DEF WalkersInv, At
<1>9. ListsInv'
  <2> SUFFICES ASSUME NEW i \in Ids, NEW w \in AllLevels
               PROVE  ListOK(i, w, Shown(w), links[i][w])'
    BY DEF ListsInv
  <2>1. ListOK(i, w, Shown(w), links'[i][w])
    BY <1>1, <1>4 DEF ListsInv
  <2> QED BY <1>2, <2>1, ListLater
<1> QED BY <1>5, <1>8, <1>9, MoveKeepsVectors, MoveKeepsAlone, MoveKeepsEntry DEF GraphInv
-----------------------------------------------------------------------------
(* The locals the steps leave.                                             *)

\* A call that has read a finished entry point.
Ready(c) ==
    /\ DOMAIN c = Local /\ c.p \in Points /\ c.upd \in BOOLEAN
    /\ c.ep \in Elements /\ LockFree(c.ep) /\ element_levels_[c.ep] >= c.max
    /\ c.level \in AllLevels /\ c.max \in AllLevels

\* The same call, with other locals.
SameCall(c, d) ==
    /\ DOMAIN d = Local /\ d.p = c.p /\ d.upd = c.upd /\ d.id = c.id
    /\ d.ep = c.ep /\ d.level = c.level /\ d.max = c.max

LEMMA StartSearchOK ==
    ASSUME Base, NEW c, Ready(c), NEW v \in AllLevels, v <= c.max, v <= c.level, NEW obj \in Shown(v)
    PROVE  LET e == StartSearch(c, obj, v) IN
           WalkerOK(e) /\ SameCall(c, e) /\ e.pc = "start" /\ e.lev = v
<1> DEFINE e == [c EXCEPT !.pc = "start", !.obj = obj, !.lev = v]
<1>1. StartSearch(c, obj, v) = e
  BY DEF StartSearch
<1>2. /\ DOMAIN e = Local /\ e.pc = "start" /\ e.obj = obj /\ e.lev = v
      /\ e.p = c.p /\ e.upd = c.upd /\ e.id = c.id /\ e.ep = c.ep /\ e.level = c.level /\ e.max = c.max
  BY DEF Ready, Local
<1> HIDE DEF e
<1>3. WalkerOK(e)
  BY <1>2 DEF WalkerOK, Placed, Started, OnPath, Searching, Connecting, Rewiring, Ready
<1> QED BY <1>1, <1>2, <1>3 DEF SameCall

\* A finished element on the first level to connect on.
LEMMA StartLevelsOK ==
    ASSUME Base, NEW c, Ready(c), NEW obj \in Elements, LockFree(obj),
           element_levels_[obj] >= c.max \/ (c.level < c.max /\ element_levels_[obj] >= c.level)
    PROVE  LET e == StartLevels(c, obj) IN
           /\ WalkerOK(e) /\ SameCall(c, e) /\ e.pc = "start"
           /\ e.lev = IF c.level < c.max THEN c.level ELSE c.max
<1> DEFINE b == c.ep \in deleted
           c1 == [c EXCEPT !.ep_deleted = b]
           v == IF c.level < c.max THEN c.level ELSE c.max
<1>1. StartLevels(c, obj) = StartSearch(c1, obj, v)
  BY DEF StartLevels
<1> HIDE DEF b
<1>2. /\ DOMAIN c1 = Local /\ c1.p = c.p /\ c1.upd = c.upd /\ c1.id = c.id /\ c1.ep = c.ep
      /\ c1.level = c.level /\ c1.max = c.max
  BY DEF Ready, Local
<1> HIDE DEF c1
<1>3. Ready(c1)
  BY <1>2 DEF Ready
<1>4. c.level \in Nat /\ c.max \in Nat /\ element_levels_[obj] \in Nat
  BY TopOfLevels, ElementsAreIds DEF Ready, Base, GraphInv, ShapeInv
<1>5. v \in AllLevels /\ v <= c.max /\ v <= c.level /\ element_levels_[obj] >= v
  BY <1>4 DEF Ready
<1>6. obj \in Shown(v)
  BY <1>5, FreeShown DEF Base
<1> HIDE DEF v
<1>7. LET e == StartSearch(c1, obj, v) IN
      WalkerOK(e) /\ SameCall(c1, e) /\ e.pc = "start" /\ e.lev = v
  BY <1>2, <1>3, <1>5, <1>6, StartSearchOK
<1> QED BY <1>1, <1>2, <1>7 DEF SameCall, v

LEMMA StartDescentOK ==
    ASSUME Base, NEW c, Ready(c)
    PROVE  LET e == StartDescent(c) IN
           WalkerOK(e) /\ SameCall(c, e) /\ e.pc \in {"descend", "start"}
<1> DEFINE dist == distance(c.p, data[c.ep])
           e1 == [c EXCEPT !.pc = "descend", !.obj = c.ep, !.lev = c.max, !.d = dist]
<1>1. StartDescent(c) = IF c.level < c.max THEN e1 ELSE StartLevels(c, c.ep)
  BY DEF StartDescent
<1> HIDE DEF dist
<1>2. /\ DOMAIN e1 = Local /\ e1.p = c.p /\ e1.upd = c.upd /\ e1.id = c.id /\ e1.ep = c.ep
      /\ e1.level = c.level /\ e1.max = c.max /\ e1.pc = "descend" /\ e1.obj = c.ep /\ e1.lev = c.max
  BY DEF Ready, Local
<1> HIDE DEF e1
<1>3. CASE c.level < c.max
  <2>1. c.ep \in Shown(c.max)
    BY FreeShown DEF Base, Ready
  <2>2. c.level \in Nat /\ c.max \in Nat
    BY TopOfLevels DEF Ready
  <2>3. WalkerOK(e1)
    BY <1>2, <1>3, <2>1, <2>2
       DEF WalkerOK, Placed, Started, OnPath, Searching, Connecting, Rewiring, Ready
  <2> QED BY <1>1, <1>2, <1>3, <2>3 DEF SameCall
<1>4. CASE ~(c.level < c.max)
  BY <1>1, <1>4, StartLevelsOK DEF Ready
<1> QED BY <1>3, <1>4

\* After a level: obj is finished and is on the level.
LEMMA LevelDoneOK ==
    ASSUME Base, NEW c, Ready(c), c.lev \in AllLevels, c.lev <= c.max, c.lev <= c.level,
           NEW obj \in Elements, LockFree(obj), element_levels_[obj] >= c.lev
    PROVE  LET e == LevelDone(c, obj) IN
           \/ e = Idle /\ c.upd
           \/ /\ WalkerOK(e) /\ SameCall(c, e)
              /\ \/ e.pc = "start" /\ e.lev = c.lev - 1
                 \/ e.pc = "publish" /\ e.lev = c.lev /\ ~c.upd
<1> DEFINE c1 == [c EXCEPT !.pending = << >>]
           e2 == [c EXCEPT !.pc = "publish", !.search = NoSearch]
<1>1. LevelDone(c, obj) = IF c.lev > 0 THEN StartSearch(c1, obj, c.lev - 1)
                          ELSE IF c.upd THEN Idle ELSE e2
  BY DEF LevelDone
<1>2. /\ DOMAIN c1 = Local /\ c1.p = c.p /\ c1.upd = c.upd /\ c1.id = c.id /\ c1.ep = c.ep
      /\ c1.level = c.level /\ c1.max = c.max
  BY DEF Ready, Local
<1>3. /\ DOMAIN e2 = Local /\ e2.p = c.p /\ e2.upd = c.upd /\ e2.id = c.id /\ e2.ep = c.ep
      /\ e2.level = c.level /\ e2.max = c.max /\ e2.pc = "publish" /\ e2.lev = c.lev
  BY DEF Ready, Local
<1> HIDE DEF c1, e2
<1>4. c.lev \in Nat /\ c.level \in Nat /\ c.max \in Nat /\ element_levels_[obj] \in Nat
  BY TopOfLevels, ElementsAreIds DEF Ready, Base, GraphInv, ShapeInv
<1>5. CASE c.lev > 0
  <2> DEFINE v == c.lev - 1
  <2>1. v \in AllLevels /\ v <= c.max /\ v <= c.level /\ element_levels_[obj] >= v
    <3>1. v \in 0 .. c.lev
      BY <1>4, <1>5
    <3> QED BY <1>4, <3>1, TopOfLevels
  <2>2. obj \in Shown(v)
    BY <2>1, FreeShown DEF Base
  <2>3. Ready(c1)
    BY <1>2 DEF Ready
  <2> HIDE DEF v
  <2>4. LET e == StartSearch(c1, obj, v) IN
        WalkerOK(e) /\ SameCall(c1, e) /\ e.pc = "start" /\ e.lev = v
    BY <1>2, <2>1, <2>2, <2>3, StartSearchOK
  <2> QED BY <1>1, <1>2, <1>5, <2>4 DEF SameCall, v
<1>6. CASE ~(c.lev > 0) /\ ~c.upd
  <2>1. WalkerOK(e2)
    BY <1>3, <1>4, <1>6
       DEF WalkerOK, Placed, Started, OnPath, Searching, Connecting, Rewiring
  <2> QED BY <1>1, <1>3, <1>6, <2>1 DEF SameCall
<1>7. CASE ~(c.lev > 0) /\ c.upd
  BY <1>1, <1>7
<1> QED BY <1>5, <1>6, <1>7
-----------------------------------------------------------------------------
(* The steps of descending and searching.                                  *)

\* What is known of a thread that walks.
LEMMA WalkerReady ==
    ASSUME Base, NEW t \in Threads,
           th[t].pc \in {"descend", "start", "search", "connect", "onehop", "twohop", "rewire"}
    PROVE  /\ Ready(th[t]) /\ WalkerOK(th[t]) /\ th[t].lev \in AllLevels /\ th[t].lev \in Nat
           /\ th[t].level \in Nat /\ th[t].max \in Nat
           /\ th[t].id \in Elements /\ th[t].level = element_levels_[th[t].id]
           /\ Shown(th[t].lev) \subseteq Filled /\ Filled \subseteq Elements /\ Elements \subseteq Ids
<1> DEFINE c == th[t]
<1>1. DOMAIN c = Local /\ c.upd \in BOOLEAN /\ WalkerOK(c) /\ TypeInv
  BY DEF Base, GraphInv, TypeInv, Sane, WalkersInv
<1>2. c.p \in Points
  BY DEF Base, GraphInv, VectorInv, At
<1>3. c.id \in Elements /\ c.level = element_levels_[c.id]
  <2>1. CASE c.upd
    BY <2>1 DEF Base, GraphInv, AloneInv
  <2>2. CASE c.upd = FALSE
    BY <2>2 DEF Base, LockInv, InsertionInv, Inserting
  <2> QED BY <1>1, <2>1, <2>2
<1>4. Placed(c) /\ Started(c)
  BY <1>1 DEF WalkerOK
<1> HIDE DEF c
<1>5. Ready(c) /\ c.lev \in AllLevels
  BY <1>1, <1>2, <1>4 DEF Ready, Placed, Started, c
<1>6. c.lev \in Nat /\ c.level \in Nat /\ c.max \in Nat
  BY <1>5, TopOfLevels DEF Ready
<1> QED BY <1>1, <1>3, <1>5, <1>6, ShownFilled, ElementsAreIds DEF c

\* The steps of a walk change nothing but the lists and the locals.
Only == UNCHANGED <<element_levels_, data, marks, names, top, link_locks_, global_lock_>>

LEMMA MoveIntro ==
    ASSUME NEW t \in Threads, th[t].pc \notin {"idle", "global", "entry", "publish"},
           NEW d, Step(t, d), Only, WalkerOK(d), SameCall(th[t], d),
           d.pc \notin {"idle", "global", "entry"}, th[t].upd \/ Stage(d) <= Stage(th[t])
    PROVE  Move(t, d)
BY DEF Move, Same, SameCall, Step, Only

LEMMA IdleOK == WalkerOK(Idle)
BY DEF Idle, WalkerOK, Placed, Started, OnPath, Searching, Connecting, Rewiring

LEMMA EndIntro ==
    ASSUME NEW t \in Threads, th[t].pc \notin {"idle", "global", "entry", "publish"},
           Step(t, Idle), Only, th[t].upd
    PROVE  Move(t, Idle)
BY IdleOK DEF Move, Step, Only

LEMMA ErrorIntro ==
    ASSUME Base, NEW t \in Threads, At(t, "search") \/ At(t, "connect"),
           NEW d, d = [th[t] EXCEPT !.pc = "error"], Step(t, d), Only
    PROVE  Move(t, d) /\ d.pc = "error"
<1> DEFINE c == th[t]
<1>1. Ready(c) /\ c.lev \in AllLevels /\ c.lev \in Nat /\ c.pc \in {"search", "connect"}
  BY WalkerReady DEF At
<1> HIDE DEF c
<1>2. /\ DOMAIN d = Local /\ d.pc = "error" /\ d.lev = c.lev
      /\ d.p = c.p /\ d.upd = c.upd /\ d.id = c.id /\ d.ep = c.ep /\ d.level = c.level /\ d.max = c.max
  BY <1>1 DEF Ready, Local, c
<1>3. WalkerOK(d)
  BY <1>1, <1>2 DEF WalkerOK, Placed, Started, OnPath, Searching, Connecting, Rewiring
<1>4. Stage(d) <= Stage(c)
  BY <1>1, <1>2 DEF Stage
<1> QED BY <1>1, <1>2, <1>3, <1>4, MoveIntro DEF SameCall, c

\* Every step of every thread keeps the invariant.
LEMMA DescendKeeps ==
    ASSUME Base, NEW t \in Threads, Descend(t)
    PROVE  GraphInv'
<1> DEFINE c == th[t]
           list == links[c.obj][c.lev]
           offers == {<<distance(c.p, data[x]), x>> : x \in Range(list)}
           better == {o \in offers : o[1] < c.d}
           d1 == Nearest(better)[1]
           o1 == Nearest(better)[2]
           e1 == [c EXCEPT !.d = d1, !.obj = o1]
           e2 == [c EXCEPT !.lev = @ - 1]
           e3 == StartLevels(c, c.obj)
<1>1. c.pc = "descend" /\ LockFree(c.obj) /\ Only /\ links' = links
  BY DEF Descend, At, graph, Only
<1>2. Step(t, IF better # {} THEN e1 ELSE IF c.lev - 1 > c.level THEN e2 ELSE e3)
  BY Zenon DEF Descend
<1>3. /\ Ready(c) /\ WalkerOK(c) /\ c.lev \in AllLevels /\ c.lev \in Nat /\ c.level \in Nat /\ c.max \in Nat
      /\ Shown(c.lev) \subseteq Filled /\ Filled \subseteq Elements /\ Elements \subseteq Ids
  BY <1>1, WalkerReady
<1>4. c.lev <= c.max /\ c.obj \in Shown(c.lev) /\ c.lev > c.level /\ element_levels_[c.obj] >= c.lev
  BY <1>1, <1>3 DEF WalkerOK, OnPath, Shown
<1>5. c.obj \in Elements /\ element_levels_[c.obj] \in Nat
  BY <1>3, <1>4, TopOfLevels DEF Base, GraphInv, ShapeInv
<1>6. CASE better # {} /\ Step(t, e1)
  <2>1. o1 \in Shown(c.lev)
    <3>1. list \in Seq(Shown(c.lev))
      BY <1>3, <1>5 DEF Base, GraphInv, ListsInv, ListOK
    <3>2. Range(list) \subseteq Shown(c.lev)
      BY <3>1, RangeInSet
    <3>3. Around(c.p, Range(list), offers)
      BY <1>3, <3>2, PairsAround DEF Base, GraphInv, Ready
    <3> HIDE DEF offers, list
    <3>4. Around(c.p, Range(list), better)
      <4>1. better \in SUBSET offers
        OBVIOUS
      <4> HIDE DEF better
      <4> QED BY <3>3, <4>1, AroundSubset
    <3>5. Queue(better) /\ \A x \in better : x[2] \in Range(list)
      BY <1>3, <3>2, <3>4, AroundQueue DEF Base, GraphInv, Ready
    <3> HIDE DEF better
    <3>6. Nearest(better) \in better
      BY <1>6, <3>5, NearestIn DEF Queue
    <3> QED BY <3>2, <3>5, <3>6
  <2> HIDE DEF o1, d1, c
  <2>2. /\ DOMAIN e1 = Local /\ e1.p = c.p /\ e1.upd = c.upd /\ e1.id = c.id /\ e1.ep = c.ep
        /\ e1.level = c.level /\ e1.max = c.max /\ e1.pc = c.pc /\ e1.lev = c.lev /\ e1.obj = o1
    BY <1>3 DEF Ready, Local
  <2> HIDE DEF e1
  <2>3. WalkerOK(e1)
    BY <1>1, <1>3, <1>4, <2>1, <2>2
       DEF WalkerOK, Placed, Started, OnPath, Searching, Connecting, Rewiring
  <2>4. Stage(e1) <= Stage(c)
    BY <1>1, <1>3, <2>2 DEF Stage
  <2>5. Move(t, e1)
    BY <1>1, <1>6, <2>2, <2>3, <2>4, MoveIntro DEF SameCall, c
  <2> QED BY <1>1, <2>2, <2>5, MoveOnly
<1>7. CASE c.lev - 1 > c.level /\ Step(t, e2)
  <2> HIDE DEF c
  <2>1. /\ DOMAIN e2 = Local /\ e2.p = c.p /\ e2.upd = c.upd /\ e2.id = c.id /\ e2.ep = c.ep
        /\ e2.level = c.level /\ e2.max = c.max /\ e2.pc = c.pc /\ e2.lev = c.lev - 1 /\ e2.obj = c.obj
    BY <1>3 DEF Ready, Local
  <2> HIDE DEF e2
  <2>2. c.lev - 1 \in 0 .. c.lev /\ element_levels_[c.obj] >= c.lev - 1 /\ c.lev - 1 <= c.max
    BY <1>3, <1>4, <1>5, <1>7
  <2>3. c.lev - 1 \in AllLevels
    BY <1>3, <2>2, TopOfLevels
  <2>4. c.obj \in Shown(c.lev - 1)
    BY <1>1, <1>5, <2>2, FreeShown DEF Base
  <2>5. WalkerOK(e2)
    BY <1>1, <1>3, <1>7, <2>1, <2>2, <2>3, <2>4
       DEF WalkerOK, Placed, Started, OnPath, Searching, Connecting, Rewiring
  <2>6. Stage(e2) <= Stage(c)
    BY <1>1, <1>3, <2>1 DEF Stage
  <2>7. Move(t, e2)
    BY <1>1, <1>7, <2>1, <2>5, <2>6, MoveIntro DEF SameCall, c
  <2> QED BY <1>1, <2>1, <2>7, MoveOnly
<1>8. CASE Step(t, e3)
  <2>1. element_levels_[c.obj] >= c.level /\ c.level < c.max
    BY <1>3, <1>4, <1>5
  <2> HIDE DEF c
  <2>2. WalkerOK(e3) /\ SameCall(c, e3) /\ e3.pc = "start" /\ e3.lev = c.level
    BY <1>1, <1>3, <1>5, <2>1, StartLevelsOK
  <2> HIDE DEF e3
  <2>3. Stage(e3) <= Stage(c)
    BY <1>1, <1>3, <1>4, <2>2 DEF Stage
  <2>4. Move(t, e3)
    BY <1>1, <1>8, <2>2, <2>3, MoveIntro DEF c
  <2> QED BY <1>1, <2>2, <2>4, MoveOnly
<1> QED BY <1>2, <1>6, <1>7, <1>8

LEMMA BeginSearchKeeps ==
    ASSUME Base, NEW t \in Threads, BeginSearch(t)
    PROVE  GraphInv'
<1> DEFINE c == th[t]
           s == SearchFrom(c.obj, c.p)
           e == [c EXCEPT !.pc = "search", !.search = s]
<1>1. c.pc = "start" /\ Only /\ links' = links
  BY DEF BeginSearch, At, graph, Only
<1>2. Step(t, e)
  BY Zenon DEF BeginSearch
<1>3. /\ Ready(c) /\ WalkerOK(c) /\ c.lev \in AllLevels /\ c.lev \in Nat
      /\ c.lev <= c.max /\ c.lev <= c.level /\ c.obj \in Shown(c.lev)
  BY <1>1, WalkerReady DEF WalkerOK, OnPath
<1>4. SearchOK(s, c.p, Shown(c.lev))
  <2> HIDE DEF c
  <2> QED BY <1>3, SearchFromOK, ShownFilled DEF Base, GraphInv, Ready
<1> HIDE DEF s, c
<1>5. /\ DOMAIN e = Local /\ e.p = c.p /\ e.upd = c.upd /\ e.id = c.id /\ e.ep = c.ep
      /\ e.level = c.level /\ e.max = c.max /\ e.pc = "search" /\ e.lev = c.lev /\ e.obj = c.obj
      /\ e.search = s
  BY <1>3 DEF Ready, Local
<1> HIDE DEF e
<1>6. WalkerOK(e)
  BY <1>1, <1>3, <1>4, <1>5
     DEF WalkerOK, Placed, Started, OnPath, Searching, Connecting, Rewiring
<1>7. Stage(e) <= Stage(c)
  BY <1>1, <1>3, <1>5 DEF Stage
<1>8. Move(t, e)
  BY <1>1, <1>2, <1>5, <1>6, <1>7, MoveIntro DEF SameCall, c
<1> QED BY <1>1, <1>5, <1>8, MoveOnly

LEMMA SearchStepKeeps ==
    ASSUME Base, NEW t \in Threads, SearchStep(t)
    PROVE  GraphInv'
<1> DEFINE c == th[t]
           x == Nearest(c.search.K_Set)
           less == c.search.K_Set \ {x}
           s0 == [c.search EXCEPT !.K_Set = less]
           list == links[x[2]][c.lev]
           s == Visits(c.p, s0, list)
           e == [c EXCEPT !.search = s]
           E == Shown(c.lev)
<1>1. c.pc = "search" /\ ~SearchOver(c.search) /\ Only /\ links' = links
  BY DEF SearchStep, At, graph, Only
<1>2. Step(t, e)
  BY Zenon DEF SearchStep, Visits
<1>3. /\ Ready(c) /\ WalkerOK(c) /\ c.lev \in AllLevels /\ c.lev \in Nat
      /\ E \subseteq Filled /\ Filled \subseteq Elements /\ Elements \subseteq Ids
  BY <1>1, WalkerReady
<1>4. SearchOK(c.search, c.p, E)
  BY <1>1, <1>3 DEF WalkerOK, Searching
<1>5. x \in c.search.K_Set
  <2>1. c.search.K_Set # {}
    BY <1>1 DEF SearchOver
  <2> QED BY <1>4, <2>1, NearestIn DEF SearchOK
<1>6. list \in Seq(E)
  <2>1. x[2] \in Ids
    BY <1>3, <1>4, <1>5 DEF SearchOK
  <2> HIDE DEF c, x
  <2> QED BY <1>3, <2>1 DEF Base, GraphInv, ListsInv, ListOK
<1>7. SearchOK(s0, c.p, E)
  <2> HIDE DEF x, c, E
  <2>1. Distances(less) /\ \A y \in less : y[2] \in E
    BY <1>4, FS_Subset DEF SearchOK, Distances
  <2> HIDE DEF less
  <2>2. DOMAIN s0 = SearchFields /\ s0.K_Set = less /\ s0.Top_K = c.search.Top_K
    BY <1>4 DEF SearchOK, SearchFields
  <2> HIDE DEF s0
  <2> QED BY <1>4, <2>1, <2>2 DEF SearchOK
<1>8. SearchOK(s, c.p, E)
  <2>1. c.p \in Int /\ \A y \in E : data[y] \in Int
    BY <1>3, PointsAreInts DEF Base, GraphInv, VectorInv, Ready
  <2> HIDE DEF s0, list, E, c
  <2> QED BY <1>6, <1>7, <2>1, VisitsKeep
<1> HIDE DEF s, c
<1>9. /\ DOMAIN e = Local /\ e.p = c.p /\ e.upd = c.upd /\ e.id = c.id /\ e.ep = c.ep
      /\ e.level = c.level /\ e.max = c.max /\ e.pc = c.pc /\ e.lev = c.lev /\ e.obj = c.obj
      /\ e.search = s
  BY <1>3 DEF Ready, Local
<1> HIDE DEF e
<1>10. WalkerOK(e)
  BY <1>1, <1>3, <1>8, <1>9
     DEF WalkerOK, Placed, Started, OnPath, Searching, Connecting, Rewiring
<1>11. Stage(e) <= Stage(c)
  BY <1>1, <1>3, <1>9 DEF Stage
<1>12. Move(t, e)
  BY <1>1, <1>2, <1>9, <1>10, <1>11, MoveIntro DEF SameCall, c
<1> QED BY <1>1, <1>9, <1>12, MoveOnly
-----------------------------------------------------------------------------
(* The steps of connecting an element.                                     *)

LEMMA TailFacts ==
    ASSUME NEW E, NEW s \in Seq(E), s # << >>
    PROVE  /\ Head(s) \in E /\ Head(s) \in Range(s)
           /\ Tail(s) \in Seq(E) /\ Range(Tail(s)) \subseteq Range(s)
           /\ IsInjective(s) => Head(s) \notin Range(Tail(s)) /\ IsInjective(Tail(s))
           /\ Tail(s) = << >> => Last(s) = Head(s)
           /\ Tail(s) # << >> => Last(Tail(s)) = Last(s)
<1> DEFINE n == Len(s)
           r == Tail(s)
<1>1. n \in Nat \ {0} /\ DOMAIN s = 1 .. n /\ Head(s) = s[1] /\ s[1] \in E
  OBVIOUS
<1>2. r \in Seq(E) /\ Len(r) = n - 1 /\ DOMAIN r = 1 .. n - 1 /\ \A i \in 1 .. n - 1 : r[i] = s[i + 1]
  <2>1. r \in Seq(E) /\ Len(r) = n - 1 /\ \A i \in 1 .. Len(s) - 1 : r[i] = s[i + 1]
    BY HeadTailProperties
  <2>2. DOMAIN r = 1 .. Len(r)
    BY <2>1
  <2> HIDE DEF r
  <2> QED BY <2>1, <2>2
<1>3. r = << >> <=> n = 1
  <2>1. r = << >> => n - 1 = 0
    BY <1>2
  <2>2. Len(r) = 0 => r = << >>
    <3> HIDE DEF r
    <3> QED BY <1>2
  <2> HIDE DEF r
  <2> QED BY <1>1, <1>2, <2>1, <2>2
<1> HIDE DEF r, n
<1>4. 1 \in DOMAIN s /\ \A i \in 1 .. n - 1 : i + 1 \in DOMAIN s /\ i + 1 # 1
  BY <1>1
<1>5. Head(s) \in Range(s)
  BY <1>1, <1>4 DEF Range
<1>6. Range(r) \subseteq Range(s)
  BY <1>2, <1>4 DEF Range
<1>7. ASSUME IsInjective(s)
      PROVE  Head(s) \notin Range(r) /\ IsInjective(r)
  <2>1. \A i \in 1 .. n - 1 : r[i] # s[1]
    BY <1>2, <1>4, <1>7 DEF IsInjective
  <2>2. ASSUME NEW i \in 1 .. n - 1, NEW j \in 1 .. n - 1, r[i] = r[j]
        PROVE  i = j
    <3>1. i + 1 = j + 1
      BY <1>2, <1>4, <1>7, <2>2 DEF IsInjective
    <3> QED BY <1>1, <3>1
  <2> QED BY <1>1, <1>2, <2>1, <2>2 DEF IsInjective, Range
<1>8. n = 1 => Last(s) = Head(s)
  BY <1>1 DEF Last, n
<1>9. n # 1 => Last(r) = Last(s)
  <2>1. n # 1 => n - 1 \in 1 .. n - 1 /\ (n - 1) + 1 = n
    BY <1>1
  <2> QED BY <1>2, <2>1 DEF Last, n
<1> QED BY <1>1, <1>2, <1>3, <1>5, <1>6, <1>7, <1>8, <1>9 DEF r

LEMMA LastFacts ==
    ASSUME NEW E, NEW s \in Seq(E), s # << >>
    PROVE  Last(s) \in E
BY DEF Last

\* Nobody keeps a link lock while an update runs.
LEMMA AloneFree ==
    ASSUME Base, NEW t \in Threads, th[t].upd
    PROVE  /\ \A i \in Ids : LockFree(i)
           /\ \A u \in Threads : u # t => th[u].pc = "idle"
<1>1. \A u \in Threads : u # t => th[u].pc = "idle"
  BY DEF Base, GraphInv, AloneInv, At
<1>2. \A u \in Threads : ~Inserting(u)
  BY <1>1 DEF Inserting
<1>3. OwnersInv /\ link_locks_ \in [Ids -> Threads \cup {Free}]
  BY DEF Base, LockInv, TypeInv
<1> QED BY <1>1, <1>2, <1>3 DEF OwnersInv, LockFree

\* Nobody can have found an element before its search on the level is over...
LEMMA NotShown ==
    ASSUME Base, NEW t \in Threads, Inserting(t), At(t, "search")
    PROVE  th[t].id \notin Shown(th[t].lev)
<1>1. th[t].lev \in Nat
  BY WalkerReady DEF At
<1>2. ~(Stage(th[t]) <= 2 * th[t].lev)
  BY <1>1 DEF Stage, At
<1> QED BY <1>2 DEF Shown

\* ... and from then on it may be linked to there.
LEMMA SelfShown ==
    ASSUME Base, NEW t \in Threads, At(t, "connect") \/ (th[t].upd /\ ~At(t, "idle")),
           th[t].pc \in {"descend", "start", "search", "connect", "onehop", "twohop", "rewire"},
           th[t].lev <= th[t].level
    PROVE  th[t].id \in Shown(th[t].lev)
<1> DEFINE c == th[t]
<1>1. c.id \in Elements /\ element_levels_[c.id] >= c.lev /\ Elements \subseteq Ids /\ c.lev \in Nat /\ c.upd \in BOOLEAN
  BY WalkerReady DEF Ready
<1>2. CASE c.upd
  BY <1>1, <1>2, AloneFree, FreeShown DEF Base
<1>3. CASE ~c.upd
  <2>1. At(t, "connect") /\ Inserting(t)
    BY <1>1, <1>3 DEF Inserting, At
  <2>2. \A u \in Threads : Inserting(u) /\ th[u].id = c.id => u = t
    BY <2>1, InsertedApart DEF Base
  <2>3. ~Early(c) /\ Stage(c) <= 2 * c.lev
    BY <1>1, <2>1 DEF At, Early, Stage
  <2> QED BY <1>1, <2>2, <2>3 DEF Shown
<1> QED BY <1>2, <1>3

\* The candidates of an element do not contain it.
LEMMA CandidatesOK ==
    ASSUME Base, NEW t \in Threads, At(t, "search")
    PROVE  Around(th[t].p, Shown(th[t].lev) \ {th[t].id}, Candidates(th[t]))
<1> DEFINE c == th[t]
           E == Shown(c.lev) \ {c.id}
           found == {x \in c.search.Top_K : x[2] # c.id \/ ~c.upd}
           dead == IF c.upd THEN found # {} /\ c.ep \in deleted ELSE c.ep_deleted
           pair == <<distance(c.p, data[c.ep]), c.ep>>
<1>1. Candidates(c) = IF dead THEN Offer(found, pair, efConstruction_) ELSE found
  BY Zenon DEF Candidates
<1>2. /\ Ready(c) /\ WalkerOK(c) /\ c.pc = "search" /\ c.lev \in Nat /\ c.max \in Nat /\ Elements \subseteq Ids
      /\ c.id \in Elements
  BY WalkerReady DEF At
<1>3. Around(c.p, Shown(c.lev), c.search.Top_K) /\ c.lev <= c.max
  BY <1>2 DEF WalkerOK, Searching, SearchOK, OnPath
<1>4. ~c.upd => c.id \notin Shown(c.lev)
  BY <1>2, NotShown DEF Inserting, Ready
<1>5. Around(c.p, E, found)
  <2>1. found \in SUBSET c.search.Top_K
    OBVIOUS
  <2>2. Around(c.p, Shown(c.lev), found)
    <3> HIDE DEF found
    <3> QED BY <1>3, <2>1, AroundSubset
  <2>3. \A x \in found : x[2] # c.id
    BY <1>4, <2>2 DEF Around
  <2> HIDE DEF found
  <2> QED BY <2>2, <2>3, Zenon DEF Around
<1>6. dead => c.ep \in E
  <2>1. element_levels_[c.ep] \in Nat
    BY <1>2, TopOfLevels DEF Ready, Base, GraphInv, ShapeInv
  <2>2. c.ep \in Elements /\ LockFree(c.ep) /\ element_levels_[c.ep] >= c.lev
    BY <1>2, <1>3, <2>1 DEF Ready
  <2>3. c.ep \in Shown(c.lev)
    BY <2>2, FreeShown DEF Base
  <2>4. c.upd /\ c.ep \in deleted => c.ep # c.id
    BY DEF Base, GraphInv, AloneInv
  <2> QED BY <1>4, <2>3, <2>4
<1> HIDE DEF found, E, dead
<1>7. dead => Around(c.p, E, Offer(found, pair, efConstruction_))
  BY <1>5, <1>6, OfferAround
<1> QED BY <1>1, <1>5, <1>7 DEF E

\* Rank: an insertion starts to connect, after all that do.
LEMMA RankNew ==
    ASSUME Base, NEW t \in Threads, At(t, "search"), ~th[t].upd, NEW d, th' = [th EXCEPT ![t] = d],
           d.id = th[t].id, d.lev = th[t].lev, d.id \notin Range(d.pending)
    PROVE  RankInv'
<1> DEFINE id == th[t].id
<1>1. PICK rank \in [Ids -> Nat] : RankedBy(rank)
  BY DEF Base, GraphInv, RankInv
<1>2. PICK m \in Nat : \A i \in Ids : rank[i] <= m
  <2> DEFINE f == [i \in Ids |-> <<rank[i], i>>]
             Q == {f[i] : i \in Ids}
  <2>1. IsFiniteSet(Q)
    <3> HIDE DEF f
    <3> QED BY IdsFinite, ImageFinite
  <2>2. \A x \in Q : x[1] \in Nat
    OBVIOUS
  <2>3. Distances(Q)
    <3> HIDE DEF Q
    <3> QED BY <2>1, <2>2 DEF Distances
  <2>4. CASE Q = {}
    <3>1. Ids = {}
      BY <2>4
    <3> QED BY <3>1
  <2>5. CASE Q # {}
    <3>1. PICK x \in Q : IsFarthest(Q, x)
      BY <2>3, <2>5, EndsExist
    <3>2. ASSUME NEW i \in Ids
          PROVE  rank[i] <= x[1]
      <4>1. <<rank[i], i>> \in Q
        OBVIOUS
      <4> HIDE DEF Q
      <4>2. x[1] >= <<rank[i], i>>[1]
        BY <3>1, <4>1 DEF IsFarthest
      <4> QED BY <2>2, <3>1, <4>2
    <3> QED BY <2>2, <3>1, <3>2
  <2> QED BY <2>4, <2>5
<1>3. th'[t] = d /\ \A u \in Threads : u # t => th'[u] = th[u]
  BY ThreadsMoved DEF Base
<1>4. Inserting(t) /\ id \in Ids
  BY WalkerReady DEF At, Inserting, Ready
<1>5. PICK new \in [Ids -> Nat] : new = [rank EXCEPT ![id] = m + 1]
  <2> DEFINE f == [rank EXCEPT ![id] = m + 1]
  <2>1. f \in [Ids -> Nat]
    BY <1>4
  <2> QED BY <2>1
<1>6. ASSUME NEW a \in Threads, NEW b \in Threads,
             th'[a].pc = "connect", th'[b].pc = "connect", ~th'[a].upd, ~th'[b].upd,
             th'[a].lev = th'[b].lev, th'[b].id \in Range(th'[a].pending)
      PROVE  new[th'[b].id] < new[th'[a].id]
  <2>1. \A u \in Threads : u # t /\ th'[u].pc = "connect" /\ ~th'[u].upd =>
           Inserting(u) /\ th[u].id # id /\ th[u].id \in Ids /\ At(u, "connect")
    <3> TAKE u \in Threads
    <3> HAVE u # t /\ th'[u].pc = "connect" /\ ~th'[u].upd
    <3>1. th[u].pc = "connect" /\ ~th[u].upd
      BY <1>3
    <3>2. Inserting(u) /\ th[u].id \in Ids
      BY <3>1, WalkerReady DEF Inserting, Ready
    <3> QED BY <1>4, <3>1, <3>2, InsertedApart DEF Base, At
  <2>2. CASE a = t /\ b = t
    BY <1>3, <1>6, <2>2
  <2>3. CASE a = t /\ b # t
    <3>1. th'[b].id \in Ids /\ th'[b].id # id /\ th'[a].id = id
      BY <1>3, <1>6, <2>1, <2>3
    <3>2. new[th'[b].id] = rank[th'[b].id] /\ new[id] = m + 1 /\ rank[th'[b].id] \in Nat
      BY <1>4, <1>5, <3>1
    <3> QED BY <1>2, <3>1, <3>2
  <2>4. CASE a # t /\ b = t
    <3>1. At(a, "connect") /\ th[a].lev = th[t].lev /\ id \in Range(th[a].pending)
      BY <1>3, <1>6, <2>1, <2>4
    <3>2. th[a].pending \in Seq(Shown(th[a].lev))
      BY <3>1 DEF Base, GraphInv, WalkersInv, WalkerOK, Connecting, At
    <3>3. id \in Shown(th[t].lev)
      BY <3>1, <3>2, RangeInSet
    <3> QED BY <1>4, <3>3, NotShown
  <2>5. CASE a # t /\ b # t
    <3>1. /\ th'[a] = th[a] /\ th'[b] = th[b] /\ At(a, "connect") /\ At(b, "connect")
          /\ th[a].id \in Ids /\ th[b].id \in Ids /\ th[a].id # id /\ th[b].id # id
      BY <1>3, <1>6, <2>1, <2>5
    <3>2. rank[th[b].id] < rank[th[a].id]
      BY <1>1, <1>6, <3>1 DEF RankedBy
    <3> QED BY <1>5, <3>1, <3>2
  <2> QED BY <2>2, <2>3, <2>4, <2>5
<1>7. RankedBy(new)'
  BY <1>6 DEF RankedBy, At
<1> QED BY <1>5, <1>7 DEF RankInv

\* LevelDone as a step of a thread.
LEMMA LevelDoneMoves ==
    ASSUME Base, NEW t \in Threads, At(t, "search") \/ At(t, "connect"),
           NEW c, SameCall(th[t], c), c.lev = th[t].lev, NEW obj \in Elements, LockFree(obj),
           element_levels_[obj] >= c.lev, Step(t, LevelDone(c, obj)), Only
    PROVE  /\ Move(t, LevelDone(c, obj)) /\ LevelDone(c, obj).pc # "connect"
<1> DEFINE b == th[t]
           e == LevelDone(c, obj)
<1>1. /\ Ready(b) /\ WalkerOK(b) /\ b.lev \in AllLevels /\ b.lev \in Nat /\ b.pc \in {"search", "connect"}
  BY WalkerReady DEF At
<1>2. b.lev <= b.max /\ b.lev <= b.level
  BY <1>1 DEF WalkerOK, OnPath
<1>3. Ready(c) /\ c.lev \in AllLevels /\ c.lev <= c.max /\ c.lev <= c.level
  BY <1>1, <1>2 DEF Ready, SameCall
<1>4. \/ e = Idle /\ c.upd
      \/ /\ WalkerOK(e) /\ SameCall(c, e)
         /\ \/ e.pc = "start" /\ e.lev = c.lev - 1
            \/ e.pc = "publish" /\ e.lev = c.lev /\ ~c.upd
  BY <1>3, LevelDoneOK
<1> HIDE DEF e
<1>5. CASE e = Idle /\ c.upd
  <2>1. Move(t, Idle)
    BY <1>1, <1>5, EndIntro DEF SameCall, e
  <2> QED BY <1>5, <2>1, IdleFacts DEF e
<1>6. CASE WalkerOK(e) /\ SameCall(c, e) /\ (\/ e.pc = "start" /\ e.lev = c.lev - 1
                                             \/ e.pc = "publish" /\ e.lev = c.lev /\ ~c.upd)
  <2>1. SameCall(b, e)
    BY <1>6 DEF SameCall
  <2>2. Stage(e) <= Stage(b)
    BY <1>1, <1>6 DEF Stage
  <2>3. Move(t, e)
    BY <1>1, <1>6, <2>1, <2>2, MoveIntro DEF e
  <2> QED BY <1>6, <2>3 DEF e
<1> QED BY <1>4, <1>5, <1>6

LEMMA ConnectOwnKeeps ==
    ASSUME Base, NEW t \in Threads, ConnectOwn(t)
    PROVE  GraphInv'
<1> DEFINE c == th[t]
           C == Candidates(c)
           sel == Popped(getNeighborsByHeuristic2(C, M_))
           obj == Last(sel)
           e1 == [c EXCEPT !.pc = "error"]
           e2 == [c EXCEPT !.pc = "connect", !.pending = sel, !.obj = obj, !.search = NoSearch]
           E == Shown(c.lev) \ {c.id}
<1>1. c.pc = "search" /\ Only /\ At(t, "search")
  BY DEF ConnectOwn, At, Only
<1>2. \/ c.upd /\ Step(t, LevelDone(c, c.obj)) /\ links' = links
      \/ Step(t, e1) /\ links' = links
      \/ C # {} /\ Written(c.id, c.lev, sel) /\ Step(t, e2)
  BY Zenon DEF ConnectOwn, Written
<1>3. /\ Ready(c) /\ WalkerOK(c) /\ c.lev \in AllLevels /\ c.lev \in Nat /\ c.level \in Nat /\ c.max \in Nat
      /\ Shown(c.lev) \subseteq Filled /\ Filled \subseteq Elements /\ Elements \subseteq Ids
      /\ c.id \in Elements
  BY <1>1, WalkerReady
<1>4. c.lev <= c.max /\ c.obj \in Shown(c.lev) /\ c.lev <= c.level /\ element_levels_[c.obj] >= c.lev
  BY <1>1, <1>3 DEF WalkerOK, OnPath, Shown
<1>5. CASE c.upd /\ Step(t, LevelDone(c, c.obj)) /\ links' = links
  <2>1. LockFree(c.obj) /\ c.obj \in Elements
    BY <1>3, <1>4, <1>5, AloneFree
  <2>2. SameCall(c, c)
    BY <1>3 DEF SameCall, Ready
  <2>3. Move(t, LevelDone(c, c.obj)) /\ LevelDone(c, c.obj).pc # "connect"
    BY <1>1, <1>4, <1>5, <2>1, <2>2, LevelDoneMoves
  <2> QED BY <1>5, <2>3, MoveOnly
<1>6. CASE Step(t, e1) /\ links' = links
  <2>1. Move(t, e1) /\ e1.pc = "error"
    BY <1>1, <1>6, ErrorIntro
  <2> QED BY <1>6, <2>1, MoveOnly
<1>7. CASE C # {} /\ Written(c.id, c.lev, sel) /\ Step(t, e2)
  <2>1. Around(c.p, E, C)
    BY <1>1, CandidatesOK
  <2>2. M_ \in Nat \ {0} /\ M_ <= max_M(c.lev) /\ max_M(c.lev) \in Nat
    BY <1>3, MaxMType
  <2> HIDE DEF C
  <2>3. /\ sel \in Seq(E) /\ IsInjective(sel) /\ Len(sel) <= M_ /\ sel # << >>
    <3>1. VectorInv /\ c.p \in Points /\ E \in SUBSET Filled
      BY <1>3 DEF Base, GraphInv, Ready
    <3> HIDE DEF E, c
    <3>2. LET list == Popped(getNeighborsByHeuristic2(C, M_)) IN
          /\ list \in Seq(E) /\ IsInjective(list) /\ Len(list) <= M_
          /\ C # {} => list # << >>
      BY <2>1, <2>2, <3>1, Selected
    <3> QED BY <1>7, <3>2
  <2> HIDE DEF sel
  <2>4. Range(sel) \subseteq E /\ sel \in Seq(Shown(c.lev)) /\ c.id \notin Range(sel)
    BY <2>3, RangeInSet, SeqWiden
  <2>5. ListOK(c.id, c.lev, Shown(c.lev), sel)
    <3>1. Len(sel) \in Nat
      BY <2>3
    <3> HIDE DEF c
    <3> QED BY <2>2, <2>3, <2>4, <3>1 DEF ListOK
  <2>6. obj \in Shown(c.lev)
    BY <2>3, <2>4, LastFacts
  <2> HIDE DEF c, obj
  <2>7. /\ DOMAIN e2 = Local /\ e2.p = c.p /\ e2.upd = c.upd /\ e2.id = c.id /\ e2.ep = c.ep
        /\ e2.level = c.level /\ e2.max = c.max /\ e2.pc = "connect" /\ e2.lev = c.lev
        /\ e2.obj = obj /\ e2.pending = sel
    BY <1>3 DEF Ready, Local
  <2> HIDE DEF e2
  <2>8. WalkerOK(e2)
    <3>1. Placed(e2) /\ Started(e2) /\ OnPath(e2) /\ Searching(e2) /\ Rewiring(e2)
      BY <1>3, <1>4, <2>6, <2>7 DEF Placed, Started, OnPath, Searching, Rewiring, Ready
    <3>2. Connecting(e2)
      BY <2>3, <2>4, <2>7 DEF Connecting, obj
    <3> QED BY <3>1, <3>2 DEF WalkerOK
  <2>9. Stage(e2) <= Stage(c)
    BY <1>1, <1>3, <2>7 DEF Stage
  <2>10. Move(t, e2)
    BY <1>1, <1>7, <2>7, <2>8, <2>9, MoveIntro DEF SameCall, c
  <2>11. th'[t] = e2 /\ \A u \in Threads : u # t => th'[u] = th[u]
    BY <1>7, ThreadsMoved DEF Base, Step
  <2>12. ~c.upd => Inserting(t) /\ c.id \notin Shown(c.lev)
    BY <1>1, <1>3, NotShown DEF Inserting, c, Ready
  <2>13. \A u \in Threads : /\ u # t /\ At(u, "connect") /\ ~th[u].upd
                            /\ th[u].lev = c.lev /\ c.id \in Range(th[u].pending)
                            => th[u].id \notin Range(sel)
    <3> SUFFICES ASSUME NEW u \in Threads, u # t, At(u, "connect"), th[u].lev = c.lev,
                        c.id \in Range(th[u].pending)
                 PROVE  FALSE
      OBVIOUS
    <3>1. ~c.upd
      BY AloneFree DEF At, c
    <3>2. th[u].pending \in Seq(Shown(c.lev))
      BY DEF Base, GraphInv, WalkersInv, WalkerOK, Connecting, At
    <3> QED BY <2>12, <3>1, <3>2, RangeInSet
  <2>14. ~c.upd => \A m \in Range(sel) : c.id \notin Range(links'[m][c.lev])
    <3> SUFFICES ASSUME ~c.upd, NEW m \in Range(sel) PROVE c.id \notin Range(links'[m][c.lev])
      OBVIOUS
    <3>1. m \in Ids /\ m # c.id /\ c.id \in Ids /\ ShapeInv
      BY <1>3, <2>4 DEF Base, GraphInv
    <3>2. sel \in Seq(Ids)
      BY <1>3, <2>4, SeqWiden
    <3>3. links'[m][c.lev] = links[m][c.lev]
      BY <1>3, <1>7, <3>1, <3>2, WrittenList
    <3>4. links[m][c.lev] \in Seq(Shown(c.lev))
      BY <1>3, <3>1 DEF Base, GraphInv, ListsInv, ListOK
    <3> QED BY <2>12, <3>3, <3>4, RangeInSet
  <2>15. RankInv'
    <3>1. CASE c.upd
      <4>1. \A u \in Threads : th'[u].pc = "connect" /\ ~th'[u].upd => th'[u] = th[u]
        BY <2>7, <2>11, <3>1
      <4> QED BY <4>1, RankKept DEF At, Base, GraphInv
    <3>2. CASE ~c.upd
      BY <1>1, <1>7, <2>4, <2>7, <3>2, RankNew DEF Step, c
    <3> QED BY <3>1, <3>2
  <2> QED BY <1>3, <1>7, <2>5, <2>7, <2>10, <2>13, <2>14, <2>15, MoveWrites
<1> QED BY <1>2, <1>5, <1>6, <1>7

LEMMA ConnectNeighborKeeps ==
    ASSUME Base, NEW t \in Threads, ConnectNeighbor(t)
    PROVE  GraphInv'
<1> DEFINE c == th[t]
           n == Head(c.pending)
           tail == Tail(c.pending)
           list == Linked(n, c.id, c.lev, c.upd)
           rest == [c EXCEPT !.pending = tail]
           e1 == [c EXCEPT !.pc = "error"]
           d == IF tail = << >> THEN LevelDone(rest, c.obj) ELSE rest
<1>1. c.pc = "connect" /\ Only /\ At(t, "connect") /\ LockFree(n)
  BY DEF ConnectNeighbor, At, Only
<1>2. /\ Ready(c) /\ WalkerOK(c) /\ c.lev \in AllLevels /\ c.lev \in Nat /\ c.level \in Nat /\ c.max \in Nat
      /\ Shown(c.lev) \subseteq Filled /\ Filled \subseteq Elements /\ Elements \subseteq Ids
      /\ c.id \in Elements
  BY <1>1, WalkerReady
<1>3. /\ DOMAIN rest = Local /\ rest.p = c.p /\ rest.upd = c.upd /\ rest.id = c.id /\ rest.ep = c.ep
      /\ rest.level = c.level /\ rest.max = c.max /\ rest.pc = "connect" /\ rest.lev = c.lev
      /\ rest.obj = c.obj /\ rest.pending = tail
  <2> HIDE DEF c, tail
  <2> QED BY <1>1, <1>2 DEF Ready, Local
<1>4. \/ Step(t, e1) /\ links' = links
      \/ Written(n, c.lev, list) /\ Step(t, d)
  <2>1. \/ Step(t, e1) /\ links' = links
        \/ Written(n, c.lev, list)
           /\ Step(t, IF rest.pending = << >> THEN LevelDone(rest, c.obj) ELSE rest)
    BY Zenon DEF ConnectNeighbor, Written
  <2> HIDE DEF c, n, tail, list, rest, e1
  <2> QED BY <1>3, <2>1
<1>5. c.lev <= c.max /\ c.lev <= c.level
  BY <1>1, <1>2 DEF WalkerOK, OnPath
<1>6. /\ c.pending \in Seq(Shown(c.lev)) /\ c.pending # << >> /\ Last(c.pending) = c.obj
      /\ IsInjective(c.pending) /\ c.id \notin Range(c.pending)
  BY <1>1, <1>2 DEF WalkerOK, Connecting
<1>7. /\ n \in Shown(c.lev) /\ n \in Range(c.pending)
      /\ tail \in Seq(Shown(c.lev)) /\ Range(tail) \subseteq Range(c.pending)
      /\ n \notin Range(tail) /\ IsInjective(tail)
      /\ tail = << >> => c.obj = n
      /\ tail # << >> => Last(tail) = c.obj
  <2> HIDE DEF c
  <2> QED BY <1>6, TailFacts
<1>8. CASE Step(t, e1) /\ links' = links
  <2>1. Move(t, e1) /\ e1.pc = "error"
    BY <1>1, <1>8, ErrorIntro
  <2> QED BY <1>8, <2>1, MoveOnly
<1>9. CASE Written(n, c.lev, list) /\ Step(t, d)
  <2> HIDE DEF n, tail, rest
  <2>1. n \in Filled /\ n \in Elements /\ n \in Ids /\ n # c.id /\ element_levels_[n] >= c.lev
    BY <1>2, <1>6, <1>7 DEF Shown
  <2>2. c.id \in Shown(c.lev)
    BY <1>1, <1>5, SelfShown
  <2>3. ~c.upd => NotLinkedYet(c)
    BY <1>1 DEF Base, GraphInv, WalkersInv
  <2>4. ListOK(n, c.lev, Shown(c.lev), list) /\ Range(list) \subseteq Range(links[n][c.lev]) \cup {c.id}
    <3>1. c.upd \/ c.id \notin Range(links[n][c.lev])
      BY <1>7, <2>3 DEF NotLinkedYet
    <3>2. ListOK(n, c.lev, Shown(c.lev), links[n][c.lev])
      BY <1>2, <2>1 DEF Base, GraphInv, ListsInv
    <3>3. c.upd \in BOOLEAN /\ TypeInv /\ VectorInv
      BY <1>2 DEF Ready, Base, GraphInv
    <3> HIDE DEF c
    <3> QED BY <1>2, <2>1, <2>2, <3>1, <3>2, <3>3, LinkedOK
  <2> HIDE DEF list
  <2>5. Move(t, d) /\ (d.pc = "connect" => d = rest)
    <3>1. CASE tail = << >>
      <4>1. SameCall(c, rest) /\ LockFree(c.obj) /\ c.obj \in Elements /\ element_levels_[c.obj] >= rest.lev
        BY <1>1, <1>3, <1>7, <2>1, <3>1 DEF SameCall
      <4>2. d = LevelDone(rest, c.obj)
        BY <3>1
      <4>3. Step(t, LevelDone(rest, c.obj))
        BY <1>9, <4>2
      <4>4. Move(t, LevelDone(rest, c.obj)) /\ LevelDone(rest, c.obj).pc # "connect"
        BY <1>1, <1>3, <4>1, <4>3, LevelDoneMoves
      <4> HIDE DEF d
      <4> QED BY <4>2, <4>4
    <3>2. CASE tail # << >>
      <4>1. d = rest
        BY <3>2
      <4>2. WalkerOK(rest)
        <5>1. Placed(rest) /\ Started(rest) /\ OnPath(rest) /\ Searching(rest) /\ Rewiring(rest)
          BY <1>1, <1>2, <1>3 DEF WalkerOK, Placed, Started, OnPath, Searching, Rewiring
        <5>2. Connecting(rest)
          BY <1>3, <1>6, <1>7, <3>2 DEF Connecting
        <5> QED BY <5>1, <5>2 DEF WalkerOK
      <4>3. Stage(rest) <= Stage(c)
        BY <1>1, <1>2, <1>3 DEF Stage
      <4>4. Move(t, rest)
        BY <1>1, <1>3, <1>9, <4>1, <4>2, <4>3, MoveIntro DEF SameCall
      <4> QED BY <4>1, <4>4
    <3> QED BY <3>1, <3>2
  <2> HIDE DEF d
  <2>6. th'[t] = d /\ \A u \in Threads : u # t => th'[u] = th[u]
    BY <1>9, ThreadsMoved DEF Base, Step
  <2>7. \A u \in Threads : /\ u # t /\ At(u, "connect") /\ ~th[u].upd
                            /\ th[u].lev = c.lev /\ n \in Range(th[u].pending)
                            => th[u].id \notin Range(list)
    <3> SUFFICES ASSUME NEW u \in Threads, u # t, At(u, "connect"), ~th[u].upd, th[u].lev = c.lev,
                        n \in Range(th[u].pending)
                 PROVE  th[u].id \notin Range(list)
      OBVIOUS
    <3>1. ~c.upd
      BY AloneFree DEF At
    <3>2. Inserting(t) /\ Inserting(u)
      <4>1. th[u].upd \in BOOLEAN /\ c.upd \in BOOLEAN
        BY DEF Base, TypeInv, Sane
      <4> QED BY <1>1, <3>1, <4>1 DEF Inserting, At
    <3>3. th[u].id # c.id
      BY <3>2, InsertedApart DEF Base
    <3>4. th[u].id \notin Range(links[n][c.lev])
      BY DEF Base, GraphInv, WalkersInv, NotLinkedYet
    <3> QED BY <2>4, <3>3, <3>4
  <2>8. ~c.upd => \A m \in Range(tail) : c.id \notin Range(links'[m][c.lev])
    <3> SUFFICES ASSUME ~c.upd, NEW m \in Range(tail) PROVE c.id \notin Range(links'[m][c.lev])
      OBVIOUS
    <3>1. m \in Ids /\ m # n /\ m \in Range(c.pending) /\ ShapeInv
      BY <1>2, <1>6, <1>7, RangeInSet DEF Base, GraphInv
    <3>2. list \in Seq(Ids)
      BY <1>2, <2>4, SeqWiden DEF ListOK
    <3>3. links'[m][c.lev] = links[m][c.lev]
      <4> HIDE DEF c
      <4> QED BY <1>2, <1>9, <2>1, <3>1, <3>2, WrittenList
    <3> QED BY <2>3, <3>1, <3>3 DEF NotLinkedYet
  <2>9. RankInv'
    <3>1. ASSUME NEW u \in Threads, th'[u].pc = "connect", ~th'[u].upd
          PROVE  /\ At(u, "connect") /\ ~th[u].upd /\ th'[u].lev = th[u].lev /\ th'[u].id = th[u].id
                 /\ Range(th'[u].pending) \subseteq Range(th[u].pending)
      BY <1>1, <1>3, <1>7, <2>5, <2>6, <3>1 DEF At
    <3> QED BY <3>1, RankKept DEF Base, GraphInv
  <2>10. d.pc = "connect" /\ ~d.upd => \A m \in Range(d.pending) : d.id \notin Range(links'[m][d.lev])
    BY <1>3, <2>5, <2>8
  <2> HIDE DEF c
  <2> QED BY <1>2, <1>9, <2>1, <2>4, <2>5, <2>7, <2>9, <2>10, MoveWrites
<1> QED BY <1>4, <1>8, <1>9
-----------------------------------------------------------------------------
(* The steps of an update.                                                 *)

LEMMA NextLayerOK ==
    ASSUME Base, NEW c, Ready(c), c.upd, c.lev \in AllLevels, c.lev <= c.level
    PROVE  LET e == NextLayer(c) IN
           WalkerOK(e) /\ SameCall(c, e) /\ e.pc \in {"onehop", "error", "descend", "start"}
<1> DEFINE n == [c EXCEPT !.pending = << >>, !.nbrs = << >>, !.cands = {}]
           e1 == [n EXCEPT !.pc = "onehop", !.lev = @ + 1]
           e2 == [n EXCEPT !.pc = "error"]
<1>1. NextLayer(c) = IF c.lev < c.level THEN e1 ELSE IF c.level > c.max THEN e2 ELSE StartDescent(n)
  BY DEF NextLayer
<1>2. /\ DOMAIN n = Local /\ n.p = c.p /\ n.upd = c.upd /\ n.id = c.id /\ n.ep = c.ep
      /\ n.level = c.level /\ n.max = c.max /\ n.lev = c.lev
  BY DEF Ready, Local
<1> HIDE DEF n
<1>3. /\ DOMAIN e1 = Local /\ e1.p = n.p /\ e1.upd = n.upd /\ e1.id = n.id /\ e1.ep = n.ep
      /\ e1.level = n.level /\ e1.max = n.max /\ e1.lev = n.lev + 1 /\ e1.pc = "onehop"
  BY <1>2 DEF Local
<1>4. /\ DOMAIN e2 = Local /\ e2.p = n.p /\ e2.upd = n.upd /\ e2.id = n.id /\ e2.ep = n.ep
      /\ e2.level = n.level /\ e2.max = n.max /\ e2.lev = n.lev /\ e2.pc = "error"
  BY <1>2 DEF Local
<1> HIDE DEF e1, e2
<1>5. c.lev \in Nat /\ c.level \in Nat /\ c.max \in Nat
  BY TopOfLevels DEF Ready
<1>6. CASE c.lev < c.level
  <2>1. c.lev + 1 \in 0 .. c.level /\ c.level \in AllLevels
    BY <1>5, <1>6 DEF Ready
  <2>2. c.lev + 1 \in AllLevels /\ c.lev + 1 <= c.level
    BY <1>5, <2>1, TopOfLevels
  <2>3. WalkerOK(e1)
    BY <1>2, <1>3, <2>2
       DEF WalkerOK, Placed, Started, OnPath, Searching, Connecting, Rewiring, Ready
  <2> QED BY <1>1, <1>2, <1>3, <1>6, <2>3 DEF SameCall
<1>7. CASE ~(c.lev < c.level) /\ c.level > c.max
  <2>1. WalkerOK(e2)
    BY <1>2, <1>4 DEF WalkerOK, Placed, Started, OnPath, Searching, Connecting, Rewiring
  <2> QED BY <1>1, <1>2, <1>4, <1>7, <2>1 DEF SameCall
<1>8. CASE ~(c.lev < c.level) /\ ~(c.level > c.max)
  <2>1. Ready(n)
    BY <1>2 DEF Ready
  <2>2. WalkerOK(StartDescent(n)) /\ SameCall(n, StartDescent(n)) /\ StartDescent(n).pc \in {"descend", "start"}
    BY <2>1, StartDescentOK
  <2> QED BY <1>1, <1>2, <1>8, <2>2 DEF SameCall
<1> QED BY <1>6, <1>7, <1>8

\* A step of updatePoint.
LEMMA UpdateMove ==
    ASSUME Base, NEW t \in Threads, th[t].pc \in {"onehop", "twohop", "rewire"},
           NEW d, WalkerOK(d), SameCall(th[t], d), Only, Step(t, d),
           d.pc \in {"onehop", "twohop", "rewire", "error", "descend", "start"}
    PROVE  /\ Move(t, d)
           /\ RankInv'
<1>1. th[t].upd
  BY DEF Base, GraphInv, WalkersInv, WalkerOK, Rewiring
<1>2. Move(t, d)
  BY <1>1, MoveIntro
<1>3. th'[t] = d /\ \A u \in Threads : u # t => th'[u] = th[u]
  BY ThreadsMoved DEF Base, Step
<1>4. \A u \in Threads : th'[u].pc = "connect" /\ ~th'[u].upd => th'[u] = th[u]
  BY <1>3
<1> QED BY <1>2, <1>4, RankKept DEF At, Base, GraphInv

LEMMA OneHopKeeps ==
    ASSUME Base, NEW t \in Threads, OneHop(t)
    PROVE  GraphInv'
<1> DEFINE c == th[t]
           list == links[c.id][c.lev]
           cands == {c.id} \cup Range(list)
           e == [c EXCEPT !.pc = "twohop", !.pending = list, !.nbrs = list, !.cands = cands]
<1>1. c.pc = "onehop" /\ Only /\ links' = links
  BY DEF OneHop, At, Only, graph
<1>2. \/ Step(t, NextLayer(c))
      \/ list # << >> /\ Step(t, e)
  BY Zenon DEF OneHop
<1>3. /\ Ready(c) /\ WalkerOK(c) /\ c.lev \in AllLevels /\ c.lev \in Nat
      /\ Shown(c.lev) \subseteq Filled /\ Filled \subseteq Elements /\ Elements \subseteq Ids
      /\ c.id \in Elements
  BY <1>1, WalkerReady
<1>4. c.upd /\ c.lev <= c.level
  BY <1>1, <1>3 DEF WalkerOK, Rewiring
<1>5. CASE Step(t, NextLayer(c))
  <2>1. WalkerOK(NextLayer(c)) /\ SameCall(c, NextLayer(c))
        /\ NextLayer(c).pc \in {"onehop", "error", "descend", "start"}
    BY <1>3, <1>4, NextLayerOK
  <2>2. Move(t, NextLayer(c))
    BY <1>1, <1>5, <2>1, UpdateMove
  <2> QED BY <1>1, <2>1, <2>2, MoveOnly
<1>6. CASE list # << >> /\ Step(t, e)
  <2>1. c.id \in Shown(c.lev)
    BY <1>1, <1>4, SelfShown DEF At
  <2>2. list \in Seq(Shown(c.lev))
    BY <1>3 DEF Base, GraphInv, ListsInv, ListOK
  <2>3. cands \subseteq Shown(c.lev)
    BY <2>1, <2>2, RangeInSet
  <2> HIDE DEF list, cands, c
  <2>4. /\ DOMAIN e = Local /\ e.p = c.p /\ e.upd = c.upd /\ e.id = c.id /\ e.ep = c.ep
        /\ e.level = c.level /\ e.max = c.max /\ e.lev = c.lev /\ e.pc = "twohop"
        /\ e.pending = list /\ e.nbrs = list /\ e.cands = cands
    BY <1>3 DEF Ready, Local
  <2> HIDE DEF e
  <2>5. WalkerOK(e)
    <3>1. Placed(e) /\ Started(e) /\ OnPath(e) /\ Searching(e) /\ Connecting(e)
      BY <1>3, <2>4 DEF Placed, Started, OnPath, Searching, Connecting, Ready
    <3>2. Rewiring(e)
      BY <1>4, <1>6, <2>2, <2>3, <2>4 DEF Rewiring
    <3> QED BY <3>1, <3>2 DEF WalkerOK
  <2>6. SameCall(c, e)
    BY <2>4 DEF SameCall
  <2>7. Move(t, e)
    BY <1>1, <1>6, <2>4, <2>5, <2>6, UpdateMove DEF c
  <2> QED BY <1>1, <2>4, <2>7, MoveOnly
<1> QED BY <1>2, <1>5, <1>6

LEMMA TwoHopKeeps ==
    ASSUME Base, NEW t \in Threads, TwoHop(t)
    PROVE  GraphInv'
<1> DEFINE c == th[t]
           n == Head(c.pending)
           tail == Tail(c.pending)
           cands == c.cands \cup Range(links[n][c.lev])
           more == [c EXCEPT !.pending = tail, !.cands = cands]
           e == [more EXCEPT !.pc = "rewire", !.pending = c.nbrs]
           E == Shown(c.lev)
<1>1. c.pc = "twohop" /\ Only /\ links' = links
  BY DEF TwoHop, At, Only, graph
<1>2. \/ more.pending # << >> /\ Step(t, more)
      \/ Step(t, e)
  BY Zenon DEF TwoHop
<1>3. /\ Ready(c) /\ WalkerOK(c) /\ c.lev \in AllLevels /\ c.lev \in Nat
      /\ E \subseteq Filled /\ Filled \subseteq Elements /\ Elements \subseteq Ids
  BY <1>1, WalkerReady
<1>4. /\ c.upd /\ c.lev <= c.level /\ c.pending \in Seq(E) /\ c.pending # << >> /\ c.cands \subseteq E
      /\ c.nbrs \in Seq(E) /\ c.nbrs # << >>
  BY <1>1, <1>3 DEF WalkerOK, Rewiring
<1>5. n \in E /\ tail \in Seq(E)
  BY <1>4, TailFacts
<1>6. cands \subseteq E
  <2>1. links[n][c.lev] \in Seq(E)
    BY <1>3, <1>5 DEF Base, GraphInv, ListsInv, ListOK
  <2> QED BY <1>4, <2>1, RangeInSet
<1> HIDE DEF c, n, tail, cands
<1>7. /\ DOMAIN more = Local /\ more.p = c.p /\ more.upd = c.upd /\ more.id = c.id /\ more.ep = c.ep
      /\ more.level = c.level /\ more.max = c.max /\ more.lev = c.lev /\ more.pc = "twohop"
      /\ more.pending = tail /\ more.nbrs = c.nbrs /\ more.cands = cands
  BY <1>1, <1>3 DEF Ready, Local
<1> HIDE DEF more
<1>8. /\ DOMAIN e = Local /\ e.p = c.p /\ e.upd = c.upd /\ e.id = c.id /\ e.ep = c.ep
      /\ e.level = c.level /\ e.max = c.max /\ e.lev = c.lev /\ e.pc = "rewire"
      /\ e.pending = c.nbrs /\ e.cands = cands
  BY <1>7 DEF Local
<1> HIDE DEF e
<1>9. CASE more.pending # << >> /\ Step(t, more)
  <2>1. WalkerOK(more)
    <3>1. Placed(more) /\ Started(more) /\ OnPath(more) /\ Searching(more) /\ Connecting(more)
      BY <1>3, <1>7 DEF Placed, Started, OnPath, Searching, Connecting, Ready
    <3>2. Rewiring(more)
      BY <1>4, <1>5, <1>6, <1>7, <1>9 DEF Rewiring
    <3> QED BY <3>1, <3>2 DEF WalkerOK
  <2>2. SameCall(c, more)
    BY <1>7 DEF SameCall
  <2>3. Move(t, more)
    BY <1>1, <1>7, <1>9, <2>1, <2>2, UpdateMove DEF c
  <2> QED BY <1>1, <1>7, <2>3, MoveOnly
<1>10. CASE Step(t, e)
  <2>1. WalkerOK(e)
    <3>1. Placed(e) /\ Started(e) /\ OnPath(e) /\ Searching(e) /\ Connecting(e)
      BY <1>3, <1>8 DEF Placed, Started, OnPath, Searching, Connecting, Ready
    <3>2. Rewiring(e)
      BY <1>4, <1>6, <1>8 DEF Rewiring
    <3> QED BY <3>1, <3>2 DEF WalkerOK
  <2>2. SameCall(c, e)
    BY <1>8 DEF SameCall
  <2>3. Move(t, e)
    BY <1>1, <1>8, <1>10, <2>1, <2>2, UpdateMove DEF c
  <2> QED BY <1>1, <1>8, <2>3, MoveOnly
<1> QED BY <1>2, <1>9, <1>10

LEMMA RewireKeeps ==
    ASSUME Base, NEW t \in Threads, Rewire(t)
    PROVE  GraphInv'
<1> DEFINE c == th[t]
           n == Head(c.pending)
           tail == Tail(c.pending)
           rest == [c EXCEPT !.pending = tail]
           list == Rewired(n, c.lev, c.cands)
           d == IF rest.pending # << >> THEN rest ELSE NextLayer(rest)
           E == Shown(c.lev)
<1>1. c.pc = "rewire" /\ Only /\ Written(n, c.lev, list) /\ Step(t, d)
  BY Zenon DEF Rewire, At, Only, Written
<1>2. /\ Ready(c) /\ WalkerOK(c) /\ c.lev \in AllLevels /\ c.lev \in Nat
      /\ E \subseteq Filled /\ Filled \subseteq Elements /\ Elements \subseteq Ids
  BY <1>1, WalkerReady
<1>3. /\ c.upd /\ c.lev <= c.level /\ c.pending \in Seq(E) /\ c.pending # << >> /\ c.cands \subseteq E
  BY <1>1, <1>2 DEF WalkerOK, Rewiring
<1>4. n \in E /\ tail \in Seq(E) /\ n \in Filled /\ n \in Ids
  BY <1>2, <1>3, TailFacts
<1>5. ListOK(n, c.lev, E, list)
  <2>1. TypeInv /\ VectorInv
    BY DEF Base, GraphInv
  <2> HIDE DEF n, c, E
  <2> QED BY <1>2, <1>3, <1>4, <2>1, RewiredOK
<1> HIDE DEF c, n, tail, list
<1>6. /\ DOMAIN rest = Local /\ rest.p = c.p /\ rest.upd = c.upd /\ rest.id = c.id /\ rest.ep = c.ep
      /\ rest.level = c.level /\ rest.max = c.max /\ rest.lev = c.lev /\ rest.pc = "rewire"
      /\ rest.pending = tail /\ rest.cands = c.cands
  BY <1>1, <1>2 DEF Ready, Local
<1> HIDE DEF rest
<1>7. WalkerOK(d) /\ SameCall(c, d) /\ d.pc \in {"rewire", "onehop", "error", "descend", "start"}
  <2>1. CASE rest.pending # << >>
    <3>1. Placed(rest) /\ Started(rest) /\ OnPath(rest) /\ Searching(rest) /\ Connecting(rest)
      BY <1>2, <1>6 DEF Placed, Started, OnPath, Searching, Connecting, Ready
    <3>2. Rewiring(rest)
      BY <1>3, <1>4, <1>6, <2>1 DEF Rewiring
    <3> QED BY <1>6, <2>1, <3>1, <3>2 DEF WalkerOK, SameCall
  <2>2. CASE ~(rest.pending # << >>)
    <3>1. Ready(rest)
      BY <1>2, <1>6 DEF Ready
    <3>2. WalkerOK(NextLayer(rest)) /\ SameCall(rest, NextLayer(rest))
          /\ NextLayer(rest).pc \in {"onehop", "error", "descend", "start"}
      BY <1>2, <1>3, <1>6, <3>1, NextLayerOK
    <3> QED BY <1>6, <2>2, <3>2 DEF SameCall
  <2> QED BY <2>1, <2>2
<1> HIDE DEF d
<1>8. Move(t, d) /\ RankInv'
  BY <1>1, <1>7, UpdateMove DEF c
<1>9. \A u \in Threads : u # t => th[u].pc = "idle"
  BY <1>3, AloneFree DEF c
<1> QED BY <1>1, <1>2, <1>4, <1>5, <1>7, <1>8, <1>9, MoveWrites DEF At
-----------------------------------------------------------------------------
(* The steps of an insertion before and after the walk.                    *)

LEMMA EmptyListOK ==
    ASSUME NEW i, NEW v \in AllLevels, NEW E
    PROVE  ListOK(i, v, E, << >>)
<1>1. max_M(v) \in Nat
  BY MaxMType
<1> QED BY <1>1 DEF ListOK, IsInjective, Range

\* A step of a thread that clears lists at most, and starts no connection.
LEMMA OthersKeep ==
    ASSUME Base, Frame, NEW t \in Threads, NEW d, th' = [th EXCEPT ![t] = d],
           WalkerOK(d) \/ WalkerOK(d)', d.pc # "connect",
           \A i \in Ids, v \in AllLevels : links'[i][v] = links[i][v] \/ links'[i][v] = << >>
    PROVE  WalkersInv' /\ ListsInv' /\ RankInv'
<1>1. /\ TypeInv /\ ShapeInv /\ WalkersInv /\ ListsInv /\ RankInv
  BY DEF Base, GraphInv
<1>2. th'[t] = d /\ \A u \in Threads : u # t => th'[u] = th[u]
  BY <1>1, ThreadsMoved
<1>3. \A c : WalkerOK(c) => WalkerOK(c)'
  BY WalkerLater
<1>5. \A u \in Threads : WalkerOK(th[u])'
  <2> SUFFICES ASSUME NEW u \in Threads PROVE WalkerOK(th[u])'
    OBVIOUS
  <2>1. CASE u = t
    <3>1. WalkerOK(d)'
      BY <1>3
    <3> QED BY <1>2, <2>1, <3>1
  <2>2. CASE u # t
    <3>1. WalkerOK(th[u])
      BY <1>1 DEF WalkersInv
    <3>2. \A c : c = th[u] => WalkerOK(c)'
      BY <1>3, <3>1
    <3> QED BY <1>2, <2>2, <3>2
  <2> QED BY <2>1, <2>2
<1>6. ASSUME NEW u \in Threads, th'[u].pc = "connect", ~th'[u].upd
      PROVE  NotLinkedYet(th[u])'
  <2>1. u # t /\ th'[u] = th[u] /\ At(u, "connect") /\ ~th[u].upd
    BY <1>2, <1>6 DEF At
  <2>2. NotLinkedYet(th[u]) /\ th[u].lev \in AllLevels /\ th[u].pending \in Seq(Shown(th[u].lev))
    BY <1>1, <2>1 DEF WalkersInv, WalkerOK, Placed, Connecting, At
  <2>3. Range(th[u].pending) \subseteq Ids
    BY <1>1, <2>2, RangeInSet, ShownFilled, ElementsAreIds
  <2>4. \A m \in Range(th[u].pending) : Range(links'[m][th[u].lev]) \subseteq Range(links[m][th[u].lev])
    <3>1. Range(<< >>) = {}
      BY DEF Range
    <3> QED BY <2>2, <2>3, <3>1
  <2> QED BY <2>1, <2>2, <2>4 DEF NotLinkedYet
<1>7. WalkersInv'
  BY <1>5, <1>6 DEF WalkersInv, At
<1>8. ListsInv'
  <2> SUFFICES ASSUME NEW i \in Ids, NEW v \in AllLevels
               PROVE  ListOK(i, v, Shown(v), links[i][v])'
    BY DEF ListsInv
  <2>1. ListOK(i, v, Shown(v), links'[i][v])
    BY <1>1, EmptyListOK DEF ListsInv
  <2> QED BY <2>1, ListLater
<1>9. RankInv'
  <2>1. \A u \in Threads : th'[u].pc = "connect" /\ ~th'[u].upd => th'[u] = th[u]
    BY <1>2
  <2> QED BY <1>1, <2>1, RankKept DEF At
<1> QED BY <1>7, <1>8, <1>9

\* An insertion and an update never overlap.
LEMMA NoUpdate ==
    ASSUME Base, NEW t \in Threads, Inserting(t)
    PROVE  \A u \in Threads : ~th[u].upd
BY DEF Base, GraphInv, AloneInv, Inserting, At

LEMMA ReadMaxLevelKeeps ==
    ASSUME Base, NEW t \in Threads, ReadMaxLevel(t)
    PROVE  GraphInv'
<1> DEFINE c == th[t]
           d == [c EXCEPT !.pc = "entry", !.max = max_level_]
<1>1. /\ c.pc = "global" /\ global_lock_ = Free /\ th' = [th EXCEPT ![t] = d]
      /\ global_lock_' = IF c.level <= max_level_ THEN Free ELSE t
      /\ UNCHANGED <<element_levels_, links, data, element_count_, entry_id_, max_level_, link_locks_, deleted>>
  BY Zenon DEF ReadMaxLevel, Step, At, graph, names, top, marks
<1>2. TypeInv /\ ShapeInv /\ VectorInv /\ AloneInv /\ EntryInv /\ LockInv /\ WalkersInv
  BY DEF Base, GraphInv
<1>3. th'[t] = d /\ \A u \in Threads : u # t => th'[u] = th[u]
  BY <1>1, <1>2, ThreadsMoved
<1>4. DOMAIN c = Local /\ c.upd = FALSE /\ c.level \in AllLevels /\ c.lev = 0
  BY <1>1, <1>2 DEF TypeInv, Sane, EntryInv, Early, WalkersInv, WalkerOK, Placed
<1>5. /\ DOMAIN d = Local /\ d.pc = "entry" /\ d.max = max_level_ /\ d.id = c.id /\ d.p = c.p
      /\ d.upd = c.upd /\ d.level = c.level /\ d.lev = c.lev
  <2> HIDE DEF c
  <2> QED BY <1>4 DEF Local
<1> HIDE DEF d
<1>6. Inserting(t) /\ \A u \in Threads : ~th[u].upd
  BY <1>1, <1>4, NoUpdate DEF Inserting
<1>7. \A u \in Threads : /\ (Inserting(u)' <=> Inserting(u)) /\ th'[u].id = th[u].id /\ th'[u].p = th[u].p
                         /\ (Early(th'[u]) <=> Early(th[u])) /\ (Early(th[u]) \/ th'[u] = th[u])
                         /\ (th'[u].pc = "idle" <=> th[u].pc = "idle")
  BY <1>1, <1>3, <1>4, <1>5 DEF Inserting, Early
<1>8. Elements' = Elements /\ Filled' = Filled /\ \A v : Shown(v)' = Shown(v)
  <2>1. Elements' = Elements
    BY <1>1 DEF Elements
  <2>2. Filled' = Filled
    BY <1>7, <2>1 DEF Filled, Early
  <2>3. ASSUME NEW v PROVE Shown(v)' = Shown(v)
    BY <1>1, <1>7, <2>1 DEF Shown, Early, Stage
  <2> QED BY <2>1, <2>2, <2>3
<1>9. Frame
  BY <1>1, <1>8 DEF Frame, LockFree
<1>10. WalkerOK(d)
  BY <1>4, <1>5 DEF WalkerOK, Placed, Started, OnPath, Searching, Connecting, Rewiring
<1>11. WalkersInv' /\ ListsInv' /\ RankInv'
  BY <1>1, <1>5, <1>9, <1>10, OthersKeep
<1>12. ShapeInv'
  BY <1>1, <1>2 DEF ShapeInv
<1>13. VectorInv'
  <2>1. ASSUME NEW u \in Threads, Uses(th[u])
        PROVE  Uses(th[u])'
    <3>1. CASE Early(th[u])
      <4>1. Early(th[u])' /\ \A i \in Filled : data[i] # th[u].p
        BY <1>7, <2>1, <3>1 DEF Uses, Early
      <4>2. \A i \in Filled' : data'[i] # th'[u].p
        BY <1>1, <1>7, <1>8, <4>1
      <4> QED BY <4>1, <4>2 DEF Uses
    <3>2. CASE ~Early(th[u])
      BY <1>1, <1>7, <2>1, <3>2 DEF Uses, Early
    <3> QED BY <3>1, <3>2
  <2> QED BY <1>1, <1>2, <1>7, <1>8, <2>1 DEF VectorInv, At
<1>14. AloneInv'
  BY <1>3, <1>4, <1>5, <1>6 DEF AloneInv
<1>15. EntryInv'
  <2>1. \A u \in Threads : th'[u].pc = "entry" => u = t \/ (th[u].pc = "entry" /\ th'[u] = th[u])
    BY <1>3
  <2>2. \A u \in Threads : Early(th'[u]) => th'[u].level \in AllLevels
    BY <1>2, <1>3, <1>4, <1>5, <1>7 DEF EntryInv
  <2>3. \A u \in Threads : th'[u].pc = "entry" => th'[u].max \in AllLevels \cup {-1} /\ th'[u].max <= max_level_
    <3>1. max_level_ \in AllLevels \cup {-1} /\ max_level_ \in Int
      BY <1>2 DEF EntryInv, TypeInv
    <3> QED BY <1>2, <1>3, <1>5, <2>1, <3>1 DEF EntryInv, At
  <2>4. CASE entry_id_ = None
    <3>1. NoEntryYet /\ max_level_ = -1 /\ c.level \in Nat
      BY <1>2, <1>4, <2>4, TopOfLevels DEF EntryInv, LockInv, TopInv
    <3>2. global_lock_' = t
      BY <1>1, <3>1
    <3>3. \A u \in Threads : u # t => th[u].pc \in {"idle", "global"}
      BY <1>1, <3>1, HnswAssumption DEF NoEntryYet
    <3>4. NoEntryYet'
      BY <1>1, <1>3, <1>5, <1>8, <3>1, <3>2, <3>3 DEF NoEntryYet, LockFree, At
    <3> QED BY <1>1, <1>2, <2>2, <2>3, <2>4, <3>4 DEF EntryInv, At, Early
  <2>5. CASE entry_id_ # None
    <3>1. ~FirstAlone
      BY <1>1, HnswAssumption DEF FirstAlone
    <3>2. EntryDone
      BY <1>2, <2>5, <3>1 DEF EntryInv
    <3>3. max_level_ \in Nat
      BY <1>2, <3>2, ElementsAreIds DEF EntryDone, TypeInv
    <3>4. EntryDone'
      BY <1>1, <1>3, <1>5, <1>8, <2>1, <3>2, <3>3 DEF EntryDone, LockFree, At
    <3> QED BY <1>1, <1>2, <2>2, <2>3, <2>5, <3>4 DEF EntryInv, At, Early
  <2> QED BY <2>4, <2>5
<1> QED BY <1>11, <1>12, <1>13, <1>14, <1>15 DEF GraphInv

\* ReadEntry in terms of the locals before it.
LEMMA ReadEntryDoes ==
    ASSUME Base, NEW t \in Threads, ReadEntry(t)
    PROVE  LET c == th[t]
               e == [c EXCEPT !.ep = entry_id_, !.obj = entry_id_] IN
           /\ c.pc = "entry" /\ c.upd = FALSE /\ c.p \in Points /\ c.id \in Elements
           /\ c.level \in AllLevels /\ c.lev = 0
           /\ links' = [links EXCEPT ![c.id] = [v \in AllLevels |-> << >>]]
           /\ data' = [data EXCEPT ![c.id] = c.p]
           /\ UNCHANGED <<element_count_, element_levels_, deleted, link_locks_, global_lock_>>
           /\ DOMAIN e = Local /\ e.p = c.p /\ e.upd = c.upd /\ e.id = c.id /\ e.ep = entry_id_
           /\ e.level = c.level /\ e.max = c.max /\ e.lev = c.lev
           /\ \/ /\ entry_id_ = None /\ entry_id_' = 0 /\ max_level_' = c.level
                 /\ th' = [th EXCEPT ![t] = [e EXCEPT !.pc = "publish"]]
              \/ /\ entry_id_ # None /\ entry_id_' = entry_id_ /\ max_level_' = max_level_
                 /\ th' = [th EXCEPT ![t] = StartDescent(e)]
<1> DEFINE c == th[t]
           e == [c EXCEPT !.ep = entry_id_, !.obj = entry_id_]
<1>1. /\ c.pc = "entry"
      /\ links' = [links EXCEPT ![e.id] = [v \in AllLevels |-> << >>]]
      /\ data' = [data EXCEPT ![e.id] = e.p]
      /\ UNCHANGED <<element_count_, element_levels_, deleted, link_locks_, global_lock_>>
      /\ \/ /\ entry_id_ = None /\ entry_id_' = 0 /\ max_level_' = e.level
            /\ th' = [th EXCEPT ![t] = [e EXCEPT !.pc = "publish"]]
         \/ /\ entry_id_ # None /\ entry_id_' = entry_id_ /\ max_level_' = max_level_
            /\ th' = [th EXCEPT ![t] = StartDescent(e)]
  BY Zenon DEF ReadEntry, At, Step, marks, top
<1>2. DOMAIN c = Local /\ c.upd = FALSE /\ c.p \in Points /\ c.level \in AllLevels /\ c.lev = 0
  BY <1>1 DEF Base, GraphInv, TypeInv, Sane, VectorInv, At, EntryInv, Early, WalkersInv, WalkerOK, Placed
<1>3. c.id \in Elements
  BY <1>1, <1>2 DEF Base, LockInv, InsertionInv, Inserting
<1> HIDE DEF c
<1>4. /\ DOMAIN e = Local /\ e.p = c.p /\ e.upd = c.upd /\ e.id = c.id /\ e.ep = entry_id_
      /\ e.level = c.level /\ e.max = c.max /\ e.lev = c.lev
  BY <1>2 DEF Local
<1> HIDE DEF e
<1> QED BY <1>1, <1>2, <1>3, <1>4 DEF c, e

LEMMA ReadEntryKeeps ==
    ASSUME Base, NEW t \in Threads, ReadEntry(t)
    PROVE  GraphInv'
<1> DEFINE c == th[t]
           e == [c EXCEPT !.ep = entry_id_, !.obj = entry_id_]
           d == IF entry_id_ = None THEN [e EXCEPT !.pc = "publish"] ELSE StartDescent(e)
<1>1. /\ c.pc = "entry" /\ c.upd = FALSE /\ c.p \in Points /\ c.id \in Elements
      /\ c.level \in AllLevels /\ c.lev = 0
      /\ links' = [links EXCEPT ![c.id] = [v \in AllLevels |-> << >>]]
      /\ data' = [data EXCEPT ![c.id] = c.p]
      /\ UNCHANGED <<element_count_, element_levels_, deleted, link_locks_, global_lock_>>
      /\ DOMAIN e = Local /\ e.p = c.p /\ e.upd = c.upd /\ e.id = c.id /\ e.ep = entry_id_
      /\ e.level = c.level /\ e.max = c.max /\ e.lev = c.lev
  BY ReadEntryDoes
<1>2. /\ th' = [th EXCEPT ![t] = d]
      /\ entry_id_ = None => entry_id_' = 0 /\ max_level_' = c.level
      /\ entry_id_ # None => entry_id_' = entry_id_ /\ max_level_' = max_level_
  BY ReadEntryDoes, Zenon
<1>3. TypeInv /\ ShapeInv /\ VectorInv /\ AloneInv /\ EntryInv /\ LockInv /\ WalkersInv
  BY DEF Base, GraphInv
<1> HIDE DEF e
<1>4. entry_id_ # None => EntryDone
  BY <1>1, <1>3 DEF EntryInv, FirstAlone, At
<1>5. WalkerOK(d) /\ d.id = c.id /\ d.p = c.p /\ d.upd = c.upd /\ d.level = c.level
      /\ IF entry_id_ = None THEN d.pc = "publish" ELSE d.pc \in {"descend", "start"}
  <2>1. CASE entry_id_ = None
    <3> DEFINE e1 == [e EXCEPT !.pc = "publish"]
    <3>1. /\ DOMAIN e1 = Local /\ e1.p = e.p /\ e1.upd = e.upd /\ e1.id = e.id /\ e1.pc = "publish"
          /\ e1.level = e.level /\ e1.lev = e.lev
      BY <1>1 DEF Local
    <3> HIDE DEF e1
    <3>2. WalkerOK(e1)
      BY <1>1, <3>1, TopOfLevels DEF WalkerOK, Placed, Started, OnPath, Searching, Connecting, Rewiring
    <3> QED BY <1>1, <2>1, <3>1, <3>2 DEF e1
  <2>2. CASE entry_id_ # None
    <3>1. c.max \in AllLevels \cup {-1} /\ c.max <= max_level_ /\ c.max >= 0
      BY <1>1, <1>3, <1>4, <2>2 DEF EntryInv, EntryDone, At
    <3>2. c.max \in AllLevels
      BY <3>1
    <3>3. Ready(e)
      BY <1>1, <1>4, <2>2, <3>1, <3>2 DEF Ready, EntryDone
    <3>4. WalkerOK(StartDescent(e)) /\ SameCall(e, StartDescent(e)) /\ StartDescent(e).pc \in {"descend", "start"}
      BY <3>3, StartDescentOK
    <3> QED BY <1>1, <2>2, <3>4 DEF SameCall
  <2> QED BY <2>1, <2>2
<1> HIDE DEF d
<1>6. th'[t] = d /\ \A u \in Threads : u # t => th'[u] = th[u]
  BY <1>2, <1>3, ThreadsMoved
<1>7. Inserting(t) /\ Inserting(t)' /\ ~Early(d) /\ Early(c) /\ \A u \in Threads : ~th[u].upd
  BY <1>1, <1>5, <1>6, NoUpdate DEF Inserting, Early
<1>8. Elements' = Elements /\ Elements \subseteq Ids /\ c.id \in Ids
  BY <1>1, <1>3, ElementsAreIds DEF Elements
<1>9. data'[c.id] = c.p /\ \A i \in Ids : i # c.id => data'[i] = data[i]
  <2> HIDE DEF c
  <2> QED BY <1>1, <1>3, <1>8 DEF ShapeInv
<1>10. c.id \notin Filled /\ \A i \in Filled' : i = c.id \/ i \in Filled
  <2>1. c.id \notin Filled
    BY <1>7 DEF Filled
  <2>2. \A u \in Threads : u # t => (Inserting(u)' <=> Inserting(u))
    BY <1>6 DEF Inserting
  <2> QED BY <1>6, <1>8, <2>1, <2>2 DEF Filled, Early
<1>11. Frame
  <2>1. ASSUME NEW v, NEW i \in Shown(v) PROVE i \in Shown(v)'
    <3>1. i # c.id /\ i \in Elements
      BY <1>10, ShownFilled
    <3>2. \A u \in Threads : Inserting(u)' /\ th'[u].id = i => u # t /\ th'[u] = th[u] /\ Inserting(u)
      BY <1>5, <1>6, <3>1 DEF Inserting
    <3> QED BY <1>1, <1>8, <3>1, <3>2 DEF Shown, Early, Stage
  <2>2. Filled \subseteq Elements
    BY ShownFilled
  <2> QED BY <1>1, <1>8, <1>9, <1>10, <2>1, <2>2 DEF Frame, LockFree
<1>12. links' \in [Ids -> [AllLevels -> Seq(Ids)]]
       /\ \A i \in Ids, v \in AllLevels : links'[i][v] = links[i][v] \/ links'[i][v] = << >>
  <2>1. << >> \in Seq(Ids)
    OBVIOUS
  <2> HIDE DEF c
  <2> QED BY <1>1, <1>3, <1>8, <2>1 DEF ShapeInv
<1>13. WalkersInv' /\ ListsInv' /\ RankInv'
  <2>1. d.pc # "connect"
    BY <1>5
  <2> QED BY <1>2, <1>5, <1>11, <1>12, <2>1, OthersKeep
<1>14. ShapeInv'
  <2>1. data' = [i \in Ids |-> data'[i]]
    BY <1>1, <1>3 DEF ShapeInv
  <2> QED BY <1>1, <1>3, <1>12, <2>1 DEF ShapeInv
<1>15. VectorInv'
  <2>1. \A i \in Filled : i \in Ids /\ data'[i] = data[i] /\ data[i] \in Points /\ data[i] # c.p
    BY <1>1, <1>3, <1>7, <1>8, <1>9, <1>10, ShownFilled DEF VectorInv, Uses, At
  <2>2. \A i \in Filled' : data'[i] \in Points
    BY <1>1, <1>9, <1>10, <2>1
  <2>3. \A i, j \in Filled' : data'[i] = data'[j] => i = j
    BY <1>3, <1>9, <1>10, <2>1 DEF VectorInv
  <2>4. ASSUME NEW u \in Threads, th'[u].pc # "idle"
        PROVE  th[u].pc # "idle" /\ th'[u].p = th[u].p /\ th'[u].p \in Points /\ Uses(th[u])'
    <3>1. CASE u = t
      BY <1>1, <1>5, <1>6, <1>7, <1>9, <3>1 DEF Uses, Early
    <3>2. CASE u # t
      <4>1. th'[u] = th[u] /\ th[u].p \in Points /\ Uses(th[u]) /\ th[u].p # c.p
        BY <1>1, <1>3, <1>6, <2>4, <3>2 DEF VectorInv, At
      <4>2. CASE Early(th[u])
        <5>1. \A i \in Filled : data[i] # th[u].p
          BY <4>1, <4>2 DEF Uses
        <5>2. \A i \in Filled' : data'[i] # th[u].p
          BY <1>9, <1>10, <2>1, <4>1, <5>1
        <5> QED BY <2>4, <4>1, <4>2, <5>2 DEF Uses, Early
      <4>3. CASE ~Early(th[u])
        <5>1. Inserting(u)
          BY <1>7, <2>4, <4>1 DEF Inserting, Base, TypeInv, Sane
        <5>2. th[u].id # c.id /\ th[u].id \in Ids
          BY <1>3, <1>7, <1>8, <3>2, <5>1, InsertedApart DEF LockInv, InsertionInv
        <5> QED BY <1>9, <2>4, <4>1, <4>3, <5>2 DEF Uses, Early
      <4> QED BY <4>2, <4>3
    <3> QED BY <3>1, <3>2
  <2>5. (\A a, b \in Threads : a # b /\ ~At(a, "idle") /\ ~At(b, "idle") => th[a].p # th[b].p)'
    BY <1>3, <2>4 DEF VectorInv, At
  <2> QED BY <2>2, <2>3, <2>4, <2>5 DEF VectorInv, At
<1>16. AloneInv'
  BY <1>1, <1>5, <1>6, <1>7 DEF AloneInv
<1>17. EntryInv'
  <2>1. d.pc \notin {"entry", "global"}
    BY <1>5
  <2>2. \A u \in Threads : (th'[u].pc = "entry" \/ th'[u].pc = "global") => u # t /\ th'[u] = th[u]
    BY <1>6, <2>1
  <2>3. CASE entry_id_ = None
    <3>1. NoEntryYet
      BY <1>3, <2>3 DEF EntryInv
    <3>2. global_lock_ = t /\ \A u \in Threads : u # t => th[u].pc \in {"idle", "global"}
      BY <1>1, <3>1 DEF NoEntryYet, At
    <3>3. FirstAlone'
      BY <1>1, <1>5, <1>6, <2>3, <3>2 DEF FirstAlone, At
    <3>4. \A u \in Threads : th'[u].pc # "entry"
      BY <2>2, <3>2
    <3> QED BY <1>1, <1>2, <1>3, <2>2, <2>3, <3>3, <3>4 DEF EntryInv, At, Early, None
  <2>4. CASE entry_id_ # None
    <3>1. EntryDone'
      BY <1>1, <1>2, <1>4, <1>8, <2>2, <2>4 DEF EntryDone, At, LockFree
    <3> QED BY <1>2, <1>3, <2>2, <2>4, <3>1 DEF EntryInv, At, Early
  <2> QED BY <2>3, <2>4
<1> QED BY <1>13, <1>14, <1>15, <1>16, <1>17 DEF GraphInv

LEMMA PublishKeeps ==
    ASSUME Base, NEW t \in Threads, Publish(t)
    PROVE  GraphInv'
<1> DEFINE c == th[t]
<1>1. /\ c.pc = "publish" /\ th' = [th EXCEPT ![t] = Idle]
      /\ link_locks_' = [link_locks_ EXCEPT ![c.id] = Free]
      /\ c.level > c.max => entry_id_' = c.id /\ max_level_' = c.level
      /\ ~(c.level > c.max) => entry_id_' = entry_id_ /\ max_level_' = max_level_ /\ global_lock_' = global_lock_
      /\ UNCHANGED <<element_levels_, links, data, element_count_, deleted>>
  BY Zenon DEF Publish, At, Step, graph, marks, names, top
<1>2. TypeInv /\ ShapeInv /\ VectorInv /\ AloneInv /\ EntryInv /\ LockInv /\ WalkersInv
  BY DEF Base, GraphInv
<1>3. th'[t] = Idle /\ \A u \in Threads : u # t => th'[u] = th[u]
  BY <1>1, <1>2, ThreadsMoved
<1>4. c.upd = FALSE /\ Inserting(t) /\ ~Early(c)
  BY <1>1, <1>2 DEF TypeInv, Sane, Inserting, Early
<1>5. /\ c.id \in Elements /\ c.id \in Ids /\ element_levels_[c.id] = c.level /\ c.max \in Int
      /\ c.level > c.max => global_lock_ = t
  BY <1>1, <1>2, <1>4, ElementsAreIds DEF LockInv, InsertionInv
<1>6. ~Inserting(t)' /\ \A u \in Threads : ~th[u].upd
  BY <1>3, <1>4, IdleFacts, NoUpdate DEF Inserting
<1>7. Elements' = Elements /\ Elements \subseteq Ids
  BY <1>1, <1>2, ElementsAreIds DEF Elements
<1>8. \A u \in Threads : Inserting(u)' => u # t /\ th'[u] = th[u] /\ Inserting(u)
  BY <1>3, <1>6 DEF Inserting
<1>9. \A u \in Threads : u # t => (Inserting(u)' <=> Inserting(u))
  BY <1>3 DEF Inserting
<1>10. Filled' = Filled
  BY <1>3, <1>4, <1>6, <1>7, <1>9 DEF Filled, Early
<1>11. /\ link_locks_'[c.id] = Free
       /\ \A i \in Ids : i # c.id => link_locks_'[i] = link_locks_[i]
       /\ \A i \in Ids : LockFree(i) => LockFree(i)'
  <2> HIDE DEF c
  <2> QED BY <1>1, <1>2, <1>5 DEF TypeInv, LockFree
<1>12. Frame
  <2>1. ASSUME NEW v, NEW i \in Shown(v) PROVE i \in Shown(v)'
    BY <1>1, <1>7, <1>8 DEF Shown, Early, Stage
  <2> QED BY <1>1, <1>7, <1>11, <2>1 DEF Frame
<1>13. WalkersInv' /\ ListsInv' /\ RankInv'
  <2>1. Idle.pc # "connect"
    BY IdleFacts
  <2> QED BY <1>1, <1>12, <2>1, IdleOK, OthersKeep
<1>14. ShapeInv'
  BY <1>1, <1>2 DEF ShapeInv
<1>15. VectorInv'
  <2>1. ASSUME NEW u \in Threads, th'[u].pc # "idle"
        PROVE  u # t /\ th'[u] = th[u] /\ th[u].p \in Points /\ Uses(th[u])'
    <3>1. u # t /\ th'[u] = th[u] /\ th[u].p \in Points /\ Uses(th[u])
      BY <1>2, <1>3, <2>1, IdleFacts DEF VectorInv, At
    <3>2. CASE Early(th[u])
      BY <1>1, <1>10, <3>1, <3>2 DEF Uses, Early
    <3>3. CASE ~Early(th[u])
      BY <1>1, <3>1, <3>3 DEF Uses, Early
    <3> QED BY <3>1, <3>2, <3>3
  <2> QED BY <1>1, <1>2, <1>10, <2>1 DEF VectorInv, At
<1>16. AloneInv'
  BY <1>3, <1>6, IdleFacts DEF AloneInv
<1>17. EntryInv'
  <2>1. entry_id_ # None
    BY <1>1, <1>2 DEF EntryInv, NoEntryYet, At
  <2>2. \A u \in Threads : (th'[u].pc = "entry" \/ th'[u].pc = "global") => u # t /\ th'[u] = th[u]
    BY <1>3, IdleFacts
  <2>3. \A u \in Threads : th[u].pc = "entry" => th[u].max >= 0
    BY <1>1, <1>2, <2>1 DEF EntryInv, EntryDone, FirstAlone, At
  <2>4. CASE c.level > c.max
    <3>1. c.level \in AllLevels
      BY <1>2, <1>5 DEF ShapeInv
    <3>2. max_level_ <= c.level /\ max_level_ \in Int /\ c.level \in Nat
      BY <1>2, <1>5, <2>4, <3>1, HnswAssumption, TopOfLevels DEF LockInv, GlobalInv, TypeInv
    <3>3. EntryDone'
      BY <1>1, <1>5, <1>7, <1>11, <2>2, <2>3, <2>4 DEF EntryDone, LockFree, At
    <3>4. entry_id_' # None
      BY <1>1, <1>5, <2>4 DEF Elements, None
    <3>5. ASSUME NEW u \in Threads, th'[u].pc = "entry"
          PROVE  th'[u].max \in AllLevels \cup {-1} /\ th'[u].max <= max_level_'
      <4>1. th'[u].max \in AllLevels \cup {-1} /\ th'[u].max <= max_level_
        BY <1>2, <2>2, <3>5 DEF EntryInv, At
      <4>2. th'[u].max \in Int
        BY <4>1, TopOfLevels
      <4> QED BY <1>1, <2>4, <3>2, <4>1, <4>2
    <3>6. \A u \in Threads : Early(th'[u]) => th'[u].level \in AllLevels
      BY <1>2, <2>2 DEF EntryInv, Early
    <3> QED BY <1>1, <2>4, <3>1, <3>3, <3>4, <3>5, <3>6 DEF EntryInv, At, Early
  <2>5. CASE ~(c.level > c.max)
    <3>1. ~FirstAlone
      BY <1>1, <1>2, <2>5, HnswAssumption DEF FirstAlone, At, LockInv, GlobalInv
    <3>2. EntryDone
      BY <1>2, <2>1, <3>1 DEF EntryInv
    <3>3. EntryDone'
      BY <1>1, <1>7, <1>11, <2>2, <2>5, <3>2 DEF EntryDone, At
    <3> QED BY <1>1, <1>2, <2>1, <2>2, <2>5, <3>3 DEF EntryInv, At, Early
  <2> QED BY <2>4, <2>5
<1> QED BY <1>13, <1>14, <1>15, <1>16, <1>17 DEF GraphInv

LEMMA ReserveKeeps ==
    ASSUME Base, NEW t \in Threads, NEW l, NEW p \in Points, NEW lvl \in Levels,
           At(t, "idle"), Unused(p), Reserve(t, l, p, lvl)
    PROVE  GraphInv'
<1> DEFINE n == element_count_
           d == [Idle EXCEPT !.pc = "global", !.label = l, !.id = n, !.p = p, !.level = lvl]
<1>1. /\ n < capacity_ /\ n' = n + 1 /\ th' = [th EXCEPT ![t] = d]
      /\ link_locks_' = [link_locks_ EXCEPT ![n] = t]
      /\ element_levels_' = [element_levels_ EXCEPT ![n] = lvl]
      /\ UNCHANGED <<links, data, entry_id_, max_level_, global_lock_, deleted>>
      /\ \A o \in Threads : ~th[o].upd
  BY DEF Reserve, MayInsert, Updates, Base, Step, marks, top
<1>2. TypeInv /\ ShapeInv /\ VectorInv /\ EntryInv /\ LockInv /\ WalkersInv
  BY DEF Base, GraphInv
<1>3. th'[t] = d /\ \A u \in Threads : u # t => th'[u] = th[u]
  BY <1>1, <1>2, ThreadsMoved
<1>4. d.pc = "global" /\ d.id = n /\ d.p = p /\ d.level = lvl /\ d.lev = 0 /\ d.upd = FALSE
  BY DEF Idle
<1>5. n \in Nat /\ n \in Ids /\ Elements' = Elements \cup {n} /\ n \notin Elements
  BY <1>1, <1>2, HnswAssumption, SMTT(30) DEF TypeInv, Elements, Ids
<1>6. Elements \subseteq Ids /\ lvl \in AllLevels /\ t # Free
  BY <1>2, ElementsAreIds, TopOfLevels, HnswAssumption
<1> HIDE DEF d
<1>7. ~Inserting(t) /\ Inserting(t)' /\ \A u \in Threads : u # t => (Inserting(u)' <=> Inserting(u))
  BY <1>3, <1>4 DEF Inserting, At
<1>8. /\ element_levels_' \in [Ids -> AllLevels] /\ element_levels_'[n] = lvl /\ link_locks_'[n] = t
      /\ \A i \in Elements : element_levels_'[i] = element_levels_[i] /\ link_locks_'[i] = link_locks_[i]
  <2> HIDE DEF n
  <2> QED BY <1>1, <1>2, <1>5, <1>6 DEF ShapeInv, TypeInv
<1>9. Filled' = Filled
  <2>1. n \notin Filled'
    BY <1>3, <1>4, <1>7 DEF Filled, Early
  <2>2. \A i \in Elements : i \in Filled' <=> i \in Filled
    BY <1>3, <1>4, <1>5, <1>7 DEF Filled, Early
  <2> HIDE DEF n
  <2>3. Filled \subseteq Elements /\ Filled' \subseteq Elements'
    BY DEF Filled
  <2> QED BY <1>5, <2>1, <2>2, <2>3
<1> HIDE DEF n
<1>10. Frame
  <2>1. ASSUME NEW v, NEW i \in Shown(v) PROVE i \in Shown(v)'
    <3>1. i \in Elements /\ i # n
      BY <1>5 DEF Shown
    <3>2. \A u \in Threads : Inserting(u)' /\ th'[u].id = i => u # t /\ th'[u] = th[u] /\ Inserting(u)
      BY <1>3, <1>4, <1>7, <3>1
    <3> QED BY <1>5, <1>8, <3>1, <3>2 DEF Shown, Early, Stage
  <2> QED BY <1>1, <1>5, <1>8, <2>1 DEF Frame, LockFree
<1>11. WalkerOK(d)
  BY <1>4 DEF WalkerOK, Placed, Started, OnPath, Searching, Connecting, Rewiring
<1>12. WalkersInv' /\ ListsInv' /\ RankInv'
  BY <1>1, <1>4, <1>10, <1>11, OthersKeep
<1>13. ShapeInv'
  BY <1>1, <1>2, <1>8 DEF ShapeInv
<1>14. VectorInv'
  <2>1. \A i \in Filled : data[i] # p
    BY ShownFilled DEF Unused, Elements
  <2>2. ASSUME NEW u \in Threads, th'[u].pc # "idle"
        PROVE  th'[u].p \in Points /\ Uses(th[u])'
    <3>1. CASE u = t
      BY <1>1, <1>3, <1>4, <1>9, <2>1, <3>1 DEF Uses, Early
    <3>2. CASE u # t
      <4>1. th'[u] = th[u] /\ th[u].p \in Points /\ Uses(th[u])
        BY <1>2, <1>3, <2>2, <3>2 DEF VectorInv, At
      <4>2. CASE Early(th[u])
        BY <1>1, <1>9, <4>1, <4>2 DEF Uses, Early
      <4>3. CASE ~Early(th[u])
        BY <1>1, <4>1, <4>3 DEF Uses, Early
      <4> QED BY <4>1, <4>2, <4>3
    <3> QED BY <3>1, <3>2
  <2>3. (\A a, b \in Threads : a # b /\ ~At(a, "idle") /\ ~At(b, "idle") => th[a].p # th[b].p)'
    BY <1>2, <1>3, <1>4 DEF VectorInv, At, Unused
  <2> QED BY <1>1, <1>2, <1>9, <2>2, <2>3 DEF VectorInv, At
<1>15. AloneInv'
  BY <1>1, <1>3, <1>4 DEF AloneInv
<1>16. EntryInv'
  <2>1. \A u \in Threads : u # t => th'[u] = th[u]
    BY <1>3
  <2>2. entry_id_ = None => NoEntryYet'
    <3> SUFFICES ASSUME entry_id_ = None PROVE NoEntryYet'
      OBVIOUS
    <3>1. NoEntryYet
      BY <1>2 DEF EntryInv
    <3>2. \A i \in Elements' : ~LockFree(i)'
      BY <1>5, <1>6, <1>8, <3>1 DEF NoEntryYet, LockFree
    <3> QED BY <1>1, <1>3, <1>4, <3>1, <3>2 DEF NoEntryYet, At
  <2>3. EntryDone => EntryDone'
    BY <1>1, <1>3, <1>4, <1>5, <1>8 DEF EntryDone, At, LockFree
  <2>4. FirstAlone => FirstAlone'
    BY <1>1, <1>3, <1>4 DEF FirstAlone, At
  <2>5. \A u \in Threads : th'[u].pc = "entry" => u # t /\ th'[u] = th[u]
    BY <1>3, <1>4
  <2>6. \A u \in Threads : Early(th'[u]) => th'[u].level \in AllLevels
    BY <1>2, <1>3, <1>4, <1>6 DEF EntryInv, Early
  <2> QED BY <1>1, <1>2, <2>2, <2>3, <2>4, <2>5, <2>6 DEF EntryInv, At, Early
<1> QED BY <1>12, <1>13, <1>14, <1>15, <1>16 DEF GraphInv
-----------------------------------------------------------------------------
(* Updates, deletions, resizeIndex and loadIndex, and the invariant.       *)

\* No thread works on the graph.
LEMMA IdleThreads ==
    ASSUME Base, \A u \in Threads : At(u, "idle")
    PROVE  /\ \A u \in Threads : th[u] = Idle /\ ~Inserting(u) /\ ~th[u].upd
           /\ \A i \in Ids : LockFree(i)
           /\ link_locks_ = [i \in Ids |-> Free]
           /\ Filled = Elements
<1>1. \A u \in Threads : th[u] = Idle
  BY DEF At, Base, TypeInv, Sane
<1>2. \A u \in Threads : ~Inserting(u) /\ ~th[u].upd
  BY <1>1, IdleFacts DEF Inserting
<1>3. \A i \in Ids : link_locks_[i] = Free
  BY <1>2 DEF Base, TypeInv, LockInv, OwnersInv
<1>4. link_locks_ = [i \in Ids |-> Free]
  BY <1>3 DEF Base, TypeInv
<1> QED BY <1>1, <1>2, <1>3, <1>4 DEF Filled, LockFree

\* updatePoint of a finished element, alone.
LEMMA UpdateKeeps ==
    ASSUME Base, CallInv, NEW t \in Threads, NEW l \in Labels, updatePoint(t, l)
    PROVE  GraphInv'
<1> DEFINE o == op[l]
           i == o.id
           p == o.p
           lvl == element_levels_[i]
           e0 == [Idle EXCEPT !.pc = "onehop", !.upd = TRUE, !.label = l, !.id = i, !.p = p,
                              !.level = lvl, !.max = max_level_, !.ep = entry_id_]
<1>a. /\ o.pc = "update"
      /\ UNCHANGED <<element_levels_, links, element_count_, entry_id_, max_level_, link_locks_,
                     global_lock_, deleted>>
  BY DEF updatePoint, names, top, marks
<1>b. o.upd /\ i \in Elements
  BY <1>a DEF Base, TypeInv, OpInv, SaneOp
<1>c. i \notin deleted
  BY <1>a DEF CallInv, MarkKnown
<1>d. p \in Points /\ (\A u \in Threads : At(u, "idle")) /\ \A j \in Elements : data[j] # p
  BY <1>a, <1>b DEF CallInv, UpdatesAlone
<1>0. PICK e : e = e0
  OBVIOUS
<1>1. data' = [data EXCEPT ![i] = p] /\ \E f \in {Idle, e} : th' = [th EXCEPT ![t] = f]
  <2>1. data' = [data EXCEPT ![i] = p] /\ \E f \in {Idle, e0} : th' = [th EXCEPT ![t] = f]
    BY Zenon DEF updatePoint, Step
  <2> HIDE DEF e0
  <2> QED BY <1>0, <2>1
<1>2. PICK d \in {Idle, e} : th' = [th EXCEPT ![t] = d]
  BY <1>1
<1>3. /\ TypeInv /\ ShapeInv /\ VectorInv /\ EntryInv /\ LockInv /\ WalkersInv /\ ListsInv /\ RankInv
  BY DEF Base, GraphInv
<1>4. th'[t] = d /\ \A u \in Threads : u # t => th'[u] = th[u]
  BY <1>2, <1>3, ThreadsMoved
<1>5. /\ \A u \in Threads : th[u] = Idle /\ ~Inserting(u) /\ ~th[u].upd
      /\ (\A j \in Ids : LockFree(j)) /\ Filled = Elements
  BY <1>d, IdleThreads
<1> HIDE DEF o, i, p, lvl
<1>6. /\ e.pc = "onehop" /\ e.upd = TRUE /\ e.id = i /\ e.p = p /\ e.level = lvl /\ e.max = max_level_
      /\ e.ep = entry_id_ /\ e.lev = 0
  BY <1>0 DEF Idle
<1> HIDE DEF e0
<1>7. Elements' = Elements /\ Elements \subseteq Ids /\ i \in Ids
  BY <1>3, <1>a, <1>b, ElementsAreIds DEF Elements
<1>8. d.pc # "connect" /\ ~Early(d) /\ (d.pc # "idle" => d = e)
  BY <1>6, IdleFacts DEF Early
<1>9. \A u \in Threads : ~Inserting(u)'
  BY <1>4, <1>5, <1>6, IdleFacts DEF Inserting
<1>10. Filled' = Elements /\ \A v : Shown(v)' = Shown(v)
  BY <1>5, <1>7, <1>9, <1>a DEF Filled, Shown
<1>11. data'[i] = p /\ (\A j \in Ids : j # i => data'[j] = data[j]) /\ data' = [j \in Ids |-> data'[j]]
  BY <1>1, <1>3, <1>7 DEF ShapeInv
<1>12. EntryDone /\ entry_id_ # None
  <2>1. ~NoEntryYet
    BY <1>5, <1>7, <1>b DEF NoEntryYet
  <2>2. ~FirstAlone
    BY <1>5, IdleFacts DEF FirstAlone, At
  <2> QED BY <1>3, <2>1, <2>2 DEF EntryInv
<1>13. WalkerOK(e)'
  <2>1. lvl \in AllLevels /\ 0 \in AllLevels /\ lvl \in Nat
    BY <1>3, <1>7, TopOfLevels DEF ShapeInv, lvl
  <2>2. max_level_ \in AllLevels /\ max_level_ = element_levels_[entry_id_] /\ max_level_ \in Nat
    BY <1>3, <1>7, <1>12, TopOfLevels DEF ShapeInv, EntryDone
  <2>3. Started(e)'
    BY <1>6, <1>7, <1>12, <1>a, <2>1, <2>2 DEF Started, EntryDone, LockFree
  <2> QED BY <1>6, <2>1, <2>3 DEF WalkerOK, Placed, OnPath, Searching, Connecting, Rewiring
<1>14. WalkersInv'
  <2>1. \A u \in Threads : th'[u] = Idle \/ th'[u] = e
    BY <1>2, <1>4, <1>5
  <2>2. WalkerOK(Idle)'
    BY DEF Idle, WalkerOK, Placed, Started, OnPath, Searching, Connecting, Rewiring
  <2>3. \A u \in Threads : WalkerOK(th[u])'
    BY <1>13, <2>1, <2>2
  <2>4. \A u \in Threads : th'[u].pc # "connect"
    BY <1>6, <2>1, IdleFacts
  <2> QED BY <2>3, <2>4 DEF WalkersInv, At
<1>15. RankInv'
  <2>1. \A u \in Threads : th'[u].pc # "connect"
    BY <1>4, <1>5, <1>8, IdleFacts
  <2> QED BY <1>3, <2>1, RankKept
<1>16. ListsInv'
  BY <1>3, <1>10, <1>a DEF ListsInv, ListOK, max_M
<1>17. ShapeInv'
  BY <1>3, <1>11, <1>a DEF ShapeInv
<1>18. VectorInv'
  <2>1. \A j \in Elements : j \in Ids /\ data[j] \in Points /\ data[j] # p
    BY <1>3, <1>5, <1>7, <1>d DEF VectorInv
  <2>2. \A j \in Elements : data'[j] \in Points
    BY <1>11, <1>d, <2>1
  <2>3. \A j, k \in Elements : data'[j] = data'[k] => j = k
    BY <1>3, <1>5, <1>11, <2>1 DEF VectorInv
  <2>4. \A u \in Threads : th'[u].pc # "idle" => u = t /\ th'[u] = e
    BY <1>4, <1>5, <1>8, IdleFacts
  <2>5. \A u \in Threads : th'[u].pc # "idle" => th'[u].p \in Points /\ Uses(th[u])'
    BY <1>6, <1>7, <1>11, <1>b, <1>d, <2>4 DEF Uses, Early
  <2> QED BY <1>10, <2>2, <2>3, <2>4, <2>5 DEF VectorInv, At
<1>19. AloneInv'
  <2>1. \A u \in Threads : th'[u].upd => u = t /\ th'[u] = e
    BY <1>4, <1>5, IdleFacts
  <2>2. \A u \in Threads : u # t => th'[u].pc = "idle"
    BY <1>4, <1>5, IdleFacts
  <2> QED BY <1>6, <1>7, <1>a, <1>b, <1>c, <2>1, <2>2 DEF AloneInv, At, lvl
<1>20. EntryInv'
  <2>1. \A u \in Threads : th'[u].pc \notin {"entry", "global"}
    BY <1>4, <1>5, <1>8, IdleFacts DEF Early
  <2>2. EntryDone'
    BY <1>7, <1>12, <1>a, <2>1 DEF EntryDone, LockFree, At
  <2> QED BY <1>3, <1>12, <1>a, <2>1, <2>2 DEF EntryInv, At, Early
<1> QED BY <1>14, <1>15, <1>16, <1>17, <1>18, <1>19, <1>20 DEF GraphInv

\* The graph, the locks and the locals stay as they are.
LEMMA StillKeeps ==
    ASSUME Base, (\A u \in Threads : ~th[u].upd) \/ deleted' = deleted,
           UNCHANGED <<element_levels_, links, data, element_count_, entry_id_, max_level_, link_locks_,
                       global_lock_, th>>
    PROVE  GraphInv'
<1>1. /\ TypeInv /\ ShapeInv /\ VectorInv /\ AloneInv /\ EntryInv /\ LockInv /\ WalkersInv /\ ListsInv /\ RankInv
  BY DEF Base, GraphInv
<1>2. Elements' = Elements
  BY DEF Elements
<1>3. Filled' = Filled /\ \A v : Shown(v)' = Shown(v)
  BY <1>2 DEF Filled, Shown, Inserting, Early, Stage
<1>4. Frame
  BY <1>2, <1>3 DEF Frame, LockFree
<1>5. WalkersInv'
  <2>1. \A c : WalkerOK(c) => WalkerOK(c)'
    BY <1>4, WalkerLater
  <2>2. \A u \in Threads : \A c : c = th[u] => WalkerOK(c)'
    BY <1>1, <2>1 DEF WalkersInv
  <2> QED BY <1>1, <2>2 DEF WalkersInv, At, NotLinkedYet
<1>6. ListsInv'
  BY <1>1, <1>4, ListLater DEF ListsInv
<1>7. RankInv'
  BY <1>1, RankKept DEF At
<1>8. ShapeInv' /\ VectorInv'
  BY <1>1, <1>3 DEF ShapeInv, VectorInv, Uses, Early, At
<1>9. AloneInv'
  BY <1>1, <1>2 DEF AloneInv, At
<1>10. EntryInv'
  BY <1>1, <1>2 DEF EntryInv, NoEntryYet, EntryDone, FirstAlone, At, LockFree, Early
<1> QED BY <1>5, <1>6, <1>7, <1>8, <1>9, <1>10 DEF GraphInv

LEMMA GraphInit == Init => GraphInv
<1> SUFFICES ASSUME Init PROVE GraphInv
  OBVIOUS
<1>1. /\ Elements = {} /\ max_level_ = -1 /\ entry_id_ = None
      /\ links = [i \in Ids |-> [v \in AllLevels |-> << >>]] /\ data = [i \in Ids |-> 0]
      /\ element_levels_ = [i \in Ids |-> 0]
      /\ \A t \in Threads : th[t] = Idle
  BY DEF Init, Elements
<1>2. Filled = {} /\ 0 \in AllLevels /\ \A t \in Threads : th[t].pc = "idle" /\ ~th[t].upd
  BY <1>1, TopOfLevels, IdleFacts DEF Filled
<1>3. ShapeInv
  BY <1>1, <1>2 DEF ShapeInv
<1>4. VectorInv /\ AloneInv
  BY <1>2 DEF VectorInv, AloneInv, At
<1>5. EntryInv
  BY <1>1, <1>2 DEF EntryInv, NoEntryYet, At, Early
<1>6. WalkersInv
  BY <1>1, <1>2, IdleOK DEF WalkersInv, At
<1>7. ListsInv
  BY <1>1, EmptyListOK DEF ListsInv
<1>8. RankInv
  <2> DEFINE r == [i \in Ids |-> 0]
  <2>1. r \in [Ids -> Nat]
    OBVIOUS
  <2>2. RankedBy(r)
    BY <1>2 DEF RankedBy, At
  <2> QED BY <2>1, <2>2 DEF RankInv
<1> QED BY <1>3, <1>4, <1>5, <1>6, <1>7, <1>8 DEF GraphInv

LEMMA GraphStep ==
    ASSUME Disciplined, IndexInv, LockInv, CallInv, GraphInv, [Next]_vars
    PROVE  GraphInv'
<1> Base
  BY DEF Base, IndexInv
<1>1. ASSUME NEW t \in Threads, Progress(t)
      PROVE  GraphInv'
  BY <1>1, ReadMaxLevelKeeps, ReadEntryKeeps, PublishKeeps, DescendKeeps, BeginSearchKeeps,
     SearchStepKeeps, ConnectOwnKeeps, ConnectNeighborKeeps, OneHopKeeps, TwoHopKeeps, RewireKeeps
     DEF Progress, Insertion, Connection, Update
<1>2. ASSUME NEW t \in Threads, Insert(t)
      PROVE  GraphInv'
  <2>1. PICK l \in Labels, p \in Points, lvl \in Levels :
            At(t, "idle") /\ Unused(p) /\ Reserve(t, l, p, lvl)
    BY <1>2, Zenon DEF Insert
  <2> QED BY <2>1, ReserveKeeps
<1>3. CASE BeginUpdate
  <2>1. deleted' = deleted /\ UNCHANGED <<graph, element_count_, top, link_locks_, global_lock_, th>>
    BY <1>3 DEF BeginUpdate, UpdateExisting, addPoint_reuse, marks, names
  <2> QED BY <2>1, StillKeeps DEF graph, top
<1>4. ASSUME NEW l \in Labels, OnLabel(l)
      PROVE  GraphInv'
  <2>1. UNCHANGED <<graph, element_count_, top, link_locks_, global_lock_, th>>
    BY <1>4 DEF OnLabel, markDelete, unmarkDelete, Mark, Keep, Relabel, Unmark, Erase, names
  <2>2. deleted' = deleted \/ op[l].pc # "none"
    BY <1>4 DEF OnLabel, markDelete, unmarkDelete, Mark, Keep, Relabel, Unmark, Erase, marks
  <2>3. (\A u \in Threads : ~th[u].upd) \/ deleted' = deleted
    BY <2>2 DEF CallInv, NoOps
  <2> QED BY <2>1, <2>3, StillKeeps DEF graph, top
<1>5. CASE SaveAndLoad \/ \E n \in element_count_ .. MaxCapacity : resizeIndex(n)
  <2>1. /\ Quiet /\ link_locks_' = [i \in Ids |-> Free] /\ deleted' = deleted
        /\ UNCHANGED <<graph, element_count_, top, global_lock_, th>>
    BY <1>5 DEF SaveAndLoad, resizeIndex, marks
  <2>2. link_locks_' = link_locks_
    BY <2>1, IdleThreads DEF Quiet
  <2> QED BY <2>1, <2>2, StillKeeps DEF graph, top
<1>6. CASE UNCHANGED vars
  BY <1>6, StillKeeps DEF vars, graph, marks, names, top
<1>7. CASE Next
  BY <1>1, <1>2, <1>3, <1>4, <1>5, <1>7, UpdateKeeps DEF Next
<1> QED BY <1>6, <1>7

\* The graph and the threads that walk on it in every state.
LEMMA GraphInvariant ==
    ASSUME Disciplined
    PROVE  Spec => []GraphInv
<1>1. Init => GraphInv
  BY GraphInit
<1>2. IndexInv /\ LockInv /\ CallInv /\ GraphInv /\ [Next]_vars => GraphInv'
  BY GraphStep
<1>3. Spec => [](LabelInv /\ CallInv)
  BY CallInvariant
<1> QED BY <1>1, <1>2, <1>3, IndexInvariant, LockInvariant, PTL DEF Spec
-----------------------------------------------------------------------------
(* Deadlock.                                                               *)

\* A set of numbers has a smallest one.
LEMMA SmallestNat ==
    ASSUME NEW S \in SUBSET Nat, S # {}
    PROVE  \E m \in S : \A n \in S : m <= n
<1>1. PICK m \in S : \A n \in S : ~(<<n, m>> \in OpToRel(<, Nat))
  BY NatLessThanWellFounded, WFMin
<1>2. ASSUME NEW n \in S PROVE m <= n
  <2>1. m \in Nat /\ n \in Nat /\ ~(<<n, m>> \in OpToRel(<, Nat))
    BY <1>1
  <2> QED BY <2>1 DEF OpToRel
<1> QED BY <1>2

\* The link lock a thread waits for belongs to an element it was shown.
LEMMA WaitsShown ==
    ASSUME Base, NEW t \in Threads, NEW i \in WaitsFor(t)
    PROVE  /\ th[t].pc \in {"descend", "search", "connect", "onehop", "twohop", "rewire"}
           /\ i \in Shown(th[t].lev)
           /\ th[t].pc = "connect" => i \in Range(th[t].pending)
<1> DEFINE c == th[t]
<1>1. \/ c.pc = "descend" /\ i = c.obj
      \/ c.pc = "search" /\ ~SearchOver(c.search) /\ i = Nearest(c.search.K_Set)[2]
      \/ c.pc = "search" /\ c.upd /\ i = c.id
      \/ c.pc = "onehop" /\ i = c.id
      \/ c.pc \in {"connect", "twohop", "rewire"} /\ i = Head(c.pending)
  BY DEF WaitsFor
<1>2. c.pc \in {"descend", "search", "connect", "onehop", "twohop", "rewire"}
  BY <1>1
<1>3. WalkerOK(c) /\ c.lev \in AllLevels
  BY <1>2, WalkerReady
<1>4. CASE c.pc = "descend" /\ i = c.obj
  BY <1>3, <1>4 DEF WalkerOK, OnPath
<1>5. CASE c.pc = "search" /\ ~SearchOver(c.search) /\ i = Nearest(c.search.K_Set)[2]
  <2>1. SearchOK(c.search, c.p, Shown(c.lev)) /\ c.search.K_Set # {}
    BY <1>3, <1>5 DEF WalkerOK, Searching, SearchOver
  <2>2. Nearest(c.search.K_Set) \in c.search.K_Set
    BY <2>1, NearestIn DEF SearchOK
  <2> QED BY <1>5, <2>1, <2>2 DEF SearchOK
<1>6. CASE c.pc \in {"search", "onehop"} /\ i = c.id /\ (c.upd \/ c.pc = "onehop")
  <2>1. c.upd /\ c.lev <= c.level
    BY <1>3, <1>6 DEF WalkerOK, OnPath, Rewiring
  <2> QED BY <1>6, <2>1, SelfShown DEF At
<1>7. CASE c.pc \in {"connect", "twohop", "rewire"} /\ i = Head(c.pending)
  <2>1. c.pending \in Seq(Shown(c.lev)) /\ c.pending # << >>
    BY <1>3, <1>7 DEF WalkerOK, Connecting, Rewiring
  <2> HIDE DEF c
  <2>2. Head(c.pending) \in Shown(c.lev) /\ Head(c.pending) \in Range(c.pending)
    BY <2>1, TailFacts
  <2> QED BY <1>7, <2>2 DEF c
<1> QED BY <1>1, <1>2, <1>4, <1>5, <1>6, <1>7

\* Who holds the link lock of an element that was shown on level v.
LEMMA HolderOf ==
    ASSUME Base, NEW v \in Int, NEW i \in Shown(v), ~LockFree(i)
    PROVE  \E u \in Threads : /\ Inserting(u) /\ th[u].id = i /\ ~Early(th[u])
                              /\ Stage(th[u]) <= 2 * v
<1> DEFINE u == link_locks_[i]
<1>1. i \in Ids /\ u # Free /\ u \in Threads
  BY ShownFilled, ElementsAreIds DEF Base, TypeInv, LockFree
<1>2. Inserting(u) /\ th[u].id = i
  BY <1>1 DEF Base, LockInv, OwnersInv
<1> QED BY <1>1, <1>2 DEF Shown

(* If every call waited, then so would the insertion that is the furthest  *)
(* and, of several, started to connect the first.  It waits for an element *)
(* it was shown, so the holder is at least as far; then both connect on    *)
(* one level, and the holder started before it.                            *)
LEMMA SomeoneRuns ==
    ASSUME Base
    PROVE  NoDeadlock
<1> SUFFICES ASSUME NEW s \in Threads, ~At(s, "idle"),
                    \A t \in Threads : ~At(t, "idle") => Blocked(t)
             PROVE  FALSE
  BY DEF NoDeadlock
<1> DEFINE walk == {"descend", "search", "connect"}
           W == {t \in Threads : th[t].pc \in walk}
<1>1. ASSUME NEW t \in Threads, ~At(t, "idle")
      PROVE  /\ Inserting(t)
             /\ (t \in W /\ \E i \in WaitsFor(t) : ~LockFree(i)) \/ (At(t, "global") /\ global_lock_ # Free)
  <2>1. (\E i \in WaitsFor(t) : ~LockFree(i)) \/ (At(t, "global") /\ global_lock_ # Free)
    BY <1>1 DEF Blocked
  <2>2. th[t].upd \in BOOLEAN /\ (At(t, "global") => th[t].upd = FALSE)
    BY DEF Base, TypeInv, Sane, At
  <2>3. CASE \E i \in WaitsFor(t) : ~LockFree(i)
    <3>1. PICK i \in WaitsFor(t) : ~LockFree(i)
      BY <2>3
    <3>2. th[t].pc \in {"descend", "search", "connect", "onehop", "twohop", "rewire"} /\ i \in Shown(th[t].lev)
      BY WaitsShown
    <3>3. i \in Ids
      BY <3>2, ShownFilled, ElementsAreIds DEF Base
    <3>4. ~th[t].upd
      BY <3>1, <3>3, AloneFree
    <3>5. th[t].pc \notin {"onehop", "twohop", "rewire"}
      BY <3>4 DEF Base, GraphInv, WalkersInv, WalkerOK, Rewiring
    <3> QED BY <1>1, <2>2, <2>3, <3>2, <3>4, <3>5 DEF Inserting, At
  <2>4. CASE At(t, "global") /\ global_lock_ # Free
    BY <1>1, <2>2, <2>4 DEF Inserting, At
  <2> QED BY <2>1, <2>3, <2>4
<1>2. W # {}
  <2>1. CASE s \in W
    BY <2>1
  <2>2. CASE At(s, "global") /\ global_lock_ # Free
    <3>1. global_lock_ \in Threads /\ Inserting(global_lock_) /\ th[global_lock_].pc # "global"
      BY <2>2 DEF Base, TypeInv, LockInv, GlobalInv
    <3> QED BY <1>1, <3>1 DEF Inserting, At
  <2> QED BY <1>1, <2>1, <2>2
<1>3. PICK rank \in [Ids -> Nat] : RankedBy(rank)
  BY DEF Base, GraphInv, RankInv
<1>4. ASSUME NEW t \in W
      PROVE  /\ th[t].lev \in Nat /\ th[t].id \in Ids /\ rank[th[t].id] \in Nat /\ Stage(th[t]) \in Nat
             /\ t \in Threads /\ ~At(t, "idle") /\ ~At(t, "global") /\ ~th[t].upd
  <2>1. th[t].lev \in Nat /\ th[t].id \in Ids
    BY WalkerReady
  <2>2. Inserting(t)
    BY <1>1 DEF At
  <2> QED BY <1>3, <2>1, <2>2 DEF Stage, At, Inserting
<1>5. PICK a \in W : \A t \in W : Stage(th[a]) <= Stage(th[t])
  <2> DEFINE S == {Stage(th[t]) : t \in W}
  <2>1. S \in SUBSET Nat /\ S # {}
    BY <1>2, <1>4
  <2>2. PICK m \in S : \A n \in S : m <= n
    BY <2>1, SmallestNat
  <2> QED BY <2>2
<1> DEFINE L == {t \in W : Stage(th[t]) = Stage(th[a])}
<1>6. PICK t \in L : \A u \in L : rank[th[t].id] <= rank[th[u].id]
  <2> DEFINE S == {rank[th[u].id] : u \in L}
  <2>1. S \in SUBSET Nat /\ S # {}
    BY <1>4, <1>5
  <2>2. PICK m \in S : \A n \in S : m <= n
    BY <2>1, SmallestNat
  <2> QED BY <2>2
<1>7. t \in W /\ Stage(th[t]) = Stage(th[a])
  OBVIOUS
<1>8. PICK i \in WaitsFor(t) : ~LockFree(i)
  BY <1>1, <1>4, <1>7
<1>9. i \in Shown(th[t].lev) /\ (th[t].pc = "connect" => i \in Range(th[t].pending))
  BY <1>4, <1>7, WaitsShown
<1>10. PICK u \in Threads : /\ Inserting(u) /\ th[u].id = i /\ ~Early(th[u])
                            /\ Stage(th[u]) <= 2 * th[t].lev
  BY <1>4, <1>7, <1>8, <1>9, HolderOf
<1>11. u \in W
  BY <1>1, <1>10 DEF Inserting, At, Early
<1>12. Stage(th[t]) <= Stage(th[u]) /\ Stage(th[u]) \in Nat /\ th[u].lev \in Nat /\ ~th[u].upd
  BY <1>4, <1>5, <1>7, <1>11
<1>13. th[t].pc \in walk /\ th[u].pc \in walk /\ th[t].lev \in Nat /\ ~th[t].upd
  BY <1>4, <1>7, <1>11
<1>14. th[t].pc = "connect" /\ th[u].pc = "connect" /\ th[t].lev = th[u].lev
  BY <1>10, <1>12, <1>13 DEF Stage
<1>15. rank[th[u].id] < rank[th[t].id]
  BY <1>3, <1>9, <1>10, <1>12, <1>13, <1>14 DEF RankedBy, At
<1>16. u \in L
  BY <1>7, <1>10, <1>11, <1>12, <1>13, <1>14 DEF Stage
<1>17. rank[th[t].id] <= rank[th[u].id]
  BY <1>6, <1>16
<1> QED BY <1>4, <1>7, <1>11, <1>15, <1>17

(***************************************************************************)
(* When callers run updates alone, some call inside the index can always   *)
(* go on: an insertion keeps the link lock of its element to the end and   *)
(* takes the locks of its neighbors one at a time, and yet no number of    *)
(* overlapping insertions ever waits in a circle.                          *)
(***************************************************************************)
THEOREM NeverDeadlocked ==
    ASSUME Disciplined
    PROVE  Spec => []NoDeadlock
<1>1. IndexInv /\ LockInv /\ GraphInv => NoDeadlock
  BY SomeoneRuns DEF Base, IndexInv
<1> QED BY <1>1, IndexInvariant, LockInvariant, GraphInvariant, PTL
-----------------------------------------------------------------------------
(* The graph is sound.                                                     *)

\* What TypeOK says beyond the invariants above.
StoredOp(o) == o.id \in Ids \cup {0} /\ o.p \in Points \cup {0}
StoredInv ==
    /\ data \in [Ids -> Points \cup {0}]
    /\ entry_id_ \in Ids \cup {None}
    /\ updates \in 0 .. MaxUpdates /\ loaded \in BOOLEAN
    /\ \A l \in Labels : StoredOp(op[l])

\* A call on a label keeps its element and its vector, ends, or begins on an element.
LEMMA StoredOps ==
    ASSUME Base, [Next]_vars
    PROVE  \A k \in Labels : \/ op'[k].id = op[k].id /\ op'[k].p = op[k].p
                             \/ StoredOp(op'[k])
<1> DEFINE fine == \A k \in Labels : \/ op'[k].id = op[k].id /\ op'[k].p = op[k].p
                                     \/ StoredOp(op'[k])
<1> SUFFICES fine
  OBVIOUS
<1>1. TypeInv /\ MarksInv /\ Elements \subseteq Ids
  BY ElementsAreIds DEF Base
<1>2. ASSUME NEW l \in Labels, Ends(l)
      PROVE  fine
  <2>1. op'[l] = NoOp /\ \A k \in Labels \ {l} : op'[k] = op[k]
    BY <1>1, <1>2 DEF Ends, TypeInv, OpInv
  <2>2. StoredOp(NoOp)
    BY DEF StoredOp, NoOp
  <2> QED BY <2>1, <2>2
<1>3. ASSUME NEW l \in Labels, NEW pc \in OpPcs, Goes(l, pc)
      PROVE  fine
  BY <1>1, <1>3, GoesTo DEF Others
<1>4. ASSUME NEW l \in Labels, NEW o, StoredOp(o), op' = [op EXCEPT ![l] = o]
      PROVE  fine
  <2>1. op'[l] = o /\ \A k \in Labels \ {l} : op'[k] = op[k]
    BY <1>1, <1>4 DEF TypeInv, OpInv
  <2> QED BY <1>4, <2>1
<1> HIDE DEF fine
<1>5. op' = op => fine
  BY DEF fine
<1>6. ASSUME NEW t \in Threads, NEW l \in Labels, updatePoint(t, l)
      PROVE  fine
  BY <1>2, <1>6 DEF updatePoint
<1>7. CASE BeginUpdate
  <2>1. PICK l \in Labels, p \in Points : UpdateExisting(l, p) \/ addPoint_reuse(l, p)
    BY <1>7, Zenon DEF BeginUpdate
  <2>2. CASE UpdateExisting(l, p)
    <3> DEFINE o == [pc |-> "exists", upd |-> TRUE, id |-> label_map_[l], p |-> p]
    <3>1. label_map_[l] \in Elements /\ op' = [op EXCEPT ![l] = o]
      BY <1>1, <2>2 DEF UpdateExisting, TypeInv, Begins
    <3>2. StoredOp(o)
      BY <1>1, <3>1 DEF StoredOp
    <3> HIDE DEF o
    <3> QED BY <1>4, <3>1, <3>2
  <2>3. CASE addPoint_reuse(l, p)
    <3>1. PICK i \in deleted_elements_ : Begins(l, "relabel", TRUE, i, p)
      BY <2>3 DEF addPoint_reuse
    <3> DEFINE o == [pc |-> "relabel", upd |-> TRUE, id |-> i, p |-> p]
    <3>2. StoredOp(o) /\ op' = [op EXCEPT ![l] = o]
      BY <1>1, <3>1 DEF MarksInv, StoredOp, Begins
    <3> HIDE DEF o
    <3> QED BY <1>4, <3>2
  <2> QED BY <2>1, <2>2, <2>3
<1>8. ASSUME NEW l \in Labels, OnLabel(l)
      PROVE  fine
  <2>1. CASE markDelete(l) \/ unmarkDelete(l)
    <3>1. /\ label_map_[l] \in Elements
          /\ \E pc \in {"mark", "unmark"} :
                op' = [op EXCEPT ![l] = [pc |-> pc, upd |-> FALSE, id |-> label_map_[l], p |-> 0]]
      BY <1>1, <2>1 DEF markDelete, unmarkDelete, TypeInv, Begins
    <3>2. \A pc : StoredOp([pc |-> pc, upd |-> FALSE, id |-> label_map_[l], p |-> 0])
      BY <1>1, <3>1 DEF StoredOp
    <3> QED BY <1>4, <3>1, <3>2
  <2>2. \A pc \in {"keep", "unmark", "erase", "update"} : pc \in OpPcs
    BY DEF OpPcs
  <2>3. CASE Mark(l) \/ Keep(l) \/ Relabel(l) \/ Unmark(l) \/ Erase(l)
    BY <1>2, <1>3, <2>2, <2>3 DEF Mark, Keep, Relabel, Unmark, Erase, AfterMarks
  <2> QED BY <1>8, <2>1, <2>3 DEF OnLabel
<1>9. CASE \E t \in Threads : Progress(t) \/ Insert(t)
  <2>1. PICK t \in Threads : Progress(t) \/ Insert(t)
    BY <1>9
  <2>2. CASE Insert(t)
    BY <1>5, <2>2 DEF Insert, Reserve
  <2>3. CASE Insertion(t)
    BY <1>5, <2>3 DEF Insertion, ReadMaxLevel, ReadEntry, Publish
  <2>4. CASE Connection(t)
    <3>1. op' = op
      BY <2>4, Zenon DEF Connection, Descend, BeginSearch, SearchStep, ConnectOwn, ConnectNeighbor
    <3> QED BY <1>5, <3>1
  <2>5. CASE Update(t)
    <3>1. op' = op
      BY <2>5, Zenon DEF Update, OneHop, TwoHop, Rewire
    <3> QED BY <1>5, <3>1
  <2> QED BY <2>1, <2>2, <2>3, <2>4, <2>5 DEF Progress
<1>10. CASE SaveAndLoad \/ (\E n \in element_count_ .. MaxCapacity : resizeIndex(n)) \/ UNCHANGED vars
  BY <1>5, <1>10 DEF SaveAndLoad, resizeIndex, vars
<1> QED BY <1>6, <1>7, <1>8, <1>9, <1>10 DEF Next

LEMMA StoredStep ==
    ASSUME Base, StoredInv, [Next]_vars
    PROVE  StoredInv'
<1>0. \A l \in Labels : StoredOp(op'[l])
  BY StoredOps DEF StoredInv, StoredOp
<1>1. CASE UNCHANGED <<data, entry_id_, updates, loaded>>
  BY <1>0, <1>1 DEF StoredInv
<1>2. ASSUME NEW t \in Threads, Progress(t)
      PROVE  StoredInv'
  <2>1. CASE ReadEntry(t)
    <3>1. /\ th[t].p \in Points /\ th[t].id \in Elements
          /\ data' = [data EXCEPT ![th[t].id] = th[t].p]
          /\ entry_id_' \in {0, entry_id_}
      BY <2>1, ReadEntryDoes, Zenon
    <3>2. 0 \in Ids
      BY <3>1, HnswAssumption DEF Base, TypeInv, Elements, Ids
    <3>3. UNCHANGED <<updates, loaded>>
      BY <2>1 DEF ReadEntry, history
    <3> QED BY <1>0, <3>1, <3>2, <3>3 DEF StoredInv
  <2>2. CASE Publish(t)
    <3>1. Inserting(t)
      BY <2>2 DEF Publish, At, Inserting, Base, TypeInv, Sane
    <3>2. th[t].id \in Ids
      BY <3>1, ElementsAreIds DEF Base, LockInv, InsertionInv
    <3>3. UNCHANGED <<data, updates, loaded>> /\ entry_id_' \in {th[t].id, entry_id_}
      BY <2>2 DEF Publish, graph, history, top
    <3> QED BY <1>0, <3>2, <3>3 DEF StoredInv
  <2>3. CASE ReadMaxLevel(t)
    BY <1>1, <2>3 DEF ReadMaxLevel, graph, top, history
  <2>4. CASE Connection(t)
    BY <1>1, <2>4 DEF Connection, Descend, BeginSearch, SearchStep, ConnectOwn, ConnectNeighbor, graph, top, history
  <2>5. CASE Update(t)
    BY <1>1, <2>5 DEF Update, OneHop, TwoHop, Rewire, graph, top, history
  <2> QED BY <1>2, <2>1, <2>2, <2>3, <2>4, <2>5 DEF Progress, Insertion
<1>3. ASSUME NEW t \in Threads, Insert(t)
      PROVE  StoredInv'
  BY <1>1, <1>3 DEF Insert, Reserve, graph, top, history
<1>4. CASE BeginUpdate
  <2>1. /\ updates < MaxUpdates /\ updates' = updates + 1
        /\ UNCHANGED <<data, entry_id_, loaded>>
    BY <1>4 DEF BeginUpdate, UpdateExisting, addPoint_reuse, graph, top
  <2>2. updates' \in 0 .. MaxUpdates
    BY <2>1, HnswAssumption DEF StoredInv
  <2> QED BY <1>0, <2>1, <2>2 DEF StoredInv
<1>5. ASSUME NEW t \in Threads, NEW l \in Labels, updatePoint(t, l)
      PROVE  StoredInv'
  <2>1. data' = [data EXCEPT ![op[l].id] = op[l].p] /\ UNCHANGED <<entry_id_, updates, loaded>>
    BY <1>5 DEF updatePoint, top, history
  <2>2. op[l].p \in Points \cup {0}
    BY DEF StoredInv, StoredOp
  <2>3. data' \in [Ids -> Points \cup {0}]
    BY <2>1, <2>2 DEF StoredInv
  <2> QED BY <1>0, <2>1, <2>3 DEF StoredInv
<1>6. ASSUME NEW l \in Labels, OnLabel(l)
      PROVE  StoredInv'
  BY <1>1, <1>6 DEF OnLabel, markDelete, unmarkDelete, Mark, Keep, Relabel, Unmark, Erase, graph, top, history
<1>7. ASSUME NEW n \in element_count_ .. MaxCapacity, resizeIndex(n)
      PROVE  StoredInv'
  BY <1>1, <1>7 DEF resizeIndex, graph, top, history
<1>8. CASE SaveAndLoad
  BY <1>0, <1>8 DEF SaveAndLoad, graph, top, StoredInv
<1>9. CASE UNCHANGED vars
  BY <1>1, <1>9 DEF vars, graph, top, history
<1>10. CASE Next
  BY <1>2, <1>3, <1>4, <1>5, <1>6, <1>7, <1>8, <1>10 DEF Next
<1> QED BY <1>9, <1>10

LEMMA TypesOK ==
    ASSUME Base, StoredInv
    PROVE  TypeOK
<1>1. TypeInv /\ MarksInv /\ ShapeInv /\ EntryInv /\ Elements \subseteq Ids
  BY ElementsAreIds DEF Base, GraphInv
<1>2. deleted \subseteq Ids /\ deleted_elements_ \subseteq Ids
  BY <1>1 DEF MarksInv
<1>3. deleted_count_ \in 0 .. MaxCapacity
  <2>1. Cardinality(Ids) = MaxCapacity /\ IsFiniteSet(Ids)
    BY FS_Interval, HnswAssumption DEF Ids
  <2>2. Cardinality(deleted) \in Nat /\ Cardinality(deleted) <= Cardinality(Ids)
    BY <1>2, <2>1, FS_Subset, FS_CardinalityType
  <2> QED BY <1>1, <2>1, <2>2, HnswAssumption DEF MarksInv
<1>4. \A i \in Ids, v \in AllLevels : Range(links[i][v]) \subseteq Ids
  BY <1>1, RangeInSet DEF ShapeInv
<1>5. label_map_ \in [Labels -> Ids \cup {None}]
  BY <1>1 DEF TypeInv
<1>6. op \in [Labels -> [pc : OpPcs, upd : BOOLEAN, id : Ids \cup {0}, p : Points \cup {0}]]
  <2>1. op \in [Labels -> Ops] /\ \A l \in Labels : StoredOp(op[l])
    BY <1>1 DEF TypeInv, OpInv, StoredInv
  <2>2. ASSUME NEW l \in Labels
        PROVE  op[l] \in [pc : OpPcs, upd : BOOLEAN, id : Ids \cup {0}, p : Points \cup {0}]
    BY <2>1 DEF Ops, StoredOp
  <2> QED BY <2>1, <2>2
<1> QED BY <1>1, <1>2, <1>3, <1>4, <1>5, <1>6 DEF TypeOK, TypeInv, ShapeInv, EntryInv, StoredInv, OpPcs

LEMMA ListsSound ==
    ASSUME Base
    PROVE  LinksSound /\ OnLevel
<1>1. ASSUME NEW i \in Elements, NEW v \in AllLevels
      PROVE  /\ Len(links[i][v]) <= max_M(v) /\ IsInjective(links[i][v])
             /\ \A n \in Range(links[i][v]) : n \in Elements \ {i} /\ element_levels_[n] >= v
  <2>1. ListOK(i, v, Shown(v), links[i][v])
    BY ElementsAreIds DEF Base, GraphInv, ListsInv
  <2>2. Range(links[i][v]) \subseteq Shown(v)
    BY <2>1, RangeInSet DEF ListOK
  <2> QED BY <2>1, <2>2 DEF ListOK, Shown
<1>2. ASSUME NEW t \in Threads, At(t, "descend") \/ At(t, "start")
      PROVE  element_levels_[th[t].obj] >= th[t].lev
  BY <1>2 DEF Base, GraphInv, WalkersInv, WalkerOK, OnPath, Shown, At
<1>3. ASSUME NEW t \in Threads, At(t, "search"), NEW x \in th[t].search.K_Set
      PROVE  element_levels_[x[2]] >= th[t].lev
  BY <1>3 DEF Base, GraphInv, WalkersInv, WalkerOK, Searching, SearchOK, Shown, At
<1> QED BY <1>1, <1>2, <1>3 DEF LinksSound, OnLevel

(***************************************************************************)
(* When callers run updates alone, every neighbor list is what             *)
(* checkIntegrity asserts of it at every step of every thread, whatever    *)
(* insertions and deletions overlap: it fits its block, leads to other     *)
(* elements of the index that have the level, and to each at most once;    *)
(* and descents and searches stay on elements that have a list on their    *)
(* level.                                                                  *)
(***************************************************************************)
THEOREM GraphStaysSound ==
    ASSUME Disciplined
    PROVE  Spec => []GraphSound
<1>1. Init => StoredInv
  <2> SUFFICES ASSUME Init PROVE StoredInv
    OBVIOUS
  <2>1. data = [i \in Ids |-> 0] /\ entry_id_ = None /\ updates = 0 /\ loaded = FALSE
    BY DEF Init
  <2>4. \A l \in Labels : StoredOp(op[l])
    BY DEF Init, NoOp, StoredOp
  <2>2. data \in [Ids -> Points \cup {0}]
    BY <2>1
  <2>3. 0 \in 0 .. MaxUpdates
    BY HnswAssumption
  <2> QED BY <2>1, <2>2, <2>3, <2>4, Zenon DEF StoredInv
<1>2. IndexInv /\ LockInv /\ GraphInv /\ StoredInv /\ [Next]_vars => StoredInv'
  BY StoredStep DEF Base, IndexInv
<1>3. IndexInv /\ LockInv /\ GraphInv /\ StoredInv => GraphSound
  BY TypesOK, ListsSound DEF Base, IndexInv, GraphSound
<1> QED BY <1>1, <1>2, <1>3, IndexInvariant, LockInvariant, GraphInvariant, PTL DEF Spec
=============================================================================
