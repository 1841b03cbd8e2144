-------------------------- MODULE ThreadPoolProofs --------------------------
(***************************************************************************)
(* No wake-up is lost at a shutdown of the ThreadPool, for any number of   *)
(* workers and callers.                                                    *)
(***************************************************************************)
EXTENDS ThreadPool, TLAPS

(* A thread that was not started is nowhere; while the constructor starts  *)
(* threads stop is not set, and when the pool is ready the owner is in no  *)
(* call; and once shutdown or the destructor has set stop, no thread is    *)
(* between its test of the predicate and its wait: such a thread holds the *)
(* mutex, under which stop is set.                                         *)
Unstarted == \A w \in Workers \ threads_ : pc[w] = "unborn"
OwnerPlaces == (stage = "create" => ~stop) /\ (stage = "ready" => op = "none")
NobodyFallsAsleep == stop /\ op # "ctor" => \A t \in Clients : pc[t] # "wait"

PoolInv ==
    /\ TypeOK /\ Unstarted /\ OwnerPlaces
    /\ NobodyFallsAsleep /\ NobodyLeftAsleep

\* The places of threads, which every step changes for one thread or for sleepers.
Places == {"unborn", "out", "enter", "lock", "check", "wait", "asleep", "notify", "done"}

\* The constructor establishes the invariant.
LEMMA PoolInit == Init => PoolInv
BY PoolAssumption
   DEF Init, PoolInv, TypeOK, Unstarted, OwnerPlaces, NobodyFallsAsleep, NobodyLeftAsleep,
       Clients, Holding

(* A step of one thread keeps the invariant, if the thread was started,    *)
(* holds the mutex afterwards just when its place says so, and does not    *)
(* get between test and wait, or from there to sleep, after stop is set.   *)
LEMMA OneThreadMoves ==
    ASSUME PoolInv, NEW t \in Clients, NEW place \in Places,
           pc[t] # "unborn", place # "unborn",
           pc' = [pc EXCEPT ![t] = place],
           asleep' = IF place = "asleep" THEN asleep \cup {t} ELSE asleep,
           pc[t] # "asleep",
           \/ mutex_' = mutex_ /\ (pc[t] \in Holding <=> place \in Holding)
           \/ mutex_ = Free /\ mutex_' = t /\ place \in Holding
           \/ mutex_ = t /\ mutex_' = Free /\ place \notin Holding,
           place = "wait" => ~stop,
           place = "asleep" => pc[t] = "wait",
           UNCHANGED <<stop, threads_, owner>>
    PROVE  PoolInv'
<1> USE PoolAssumption DEF Clients, owner
<1>1. TypeOK'
  <2>1. /\ mutex_' \in Clients \cup {Free} /\ asleep' \subseteq Clients
        /\ pc' \in [Clients -> Places]
    BY DEF PoolInv, TypeOK, Places
  <2>2. \A u \in Clients : pc'[u] \in Holding <=> mutex_' = u
    BY DEF PoolInv, TypeOK, Holding
  <2>3. asleep' = {u \in Clients : pc'[u] = "asleep"}
    BY DEF PoolInv, TypeOK
  <2> QED BY <2>1, <2>2, <2>3 DEF PoolInv, TypeOK, Places
<1>2. Unstarted' /\ OwnerPlaces'
  BY DEF PoolInv, TypeOK, Unstarted, OwnerPlaces
<1>3. NobodyFallsAsleep' /\ NobodyLeftAsleep'
  BY DEF PoolInv, TypeOK, NobodyFallsAsleep, NobodyLeftAsleep
<1> QED BY <1>1, <1>2, <1>3 DEF PoolInv

\* Waking sleepers moves them to the lock of the mutex, which they do not hold.
LEMMA SleepersWake ==
    ASSUME PoolInv, NEW woken \in SUBSET asleep,
           asleep' = asleep \ woken,
           pc' = [u \in Clients |-> IF u \in woken THEN "lock" ELSE pc[u]],
           UNCHANGED <<mutex_, stop, threads_, owner>>
    PROVE  PoolInv'
<1> USE PoolAssumption DEF Clients, owner
<1>1. TypeOK'
  BY DEF PoolInv, TypeOK, Holding
<1>2. Unstarted' /\ OwnerPlaces'
  BY DEF PoolInv, TypeOK, Unstarted, OwnerPlaces
<1>3. NobodyFallsAsleep' /\ NobodyLeftAsleep'
  BY DEF PoolInv, TypeOK, NobodyFallsAsleep, NobodyLeftAsleep
<1> QED BY <1>1, <1>2, <1>3 DEF PoolInv

\* The steps of workers and callers: locks, tests, waits and enqueue.
LEMMA ThreadSteps ==
    ASSUME PoolInv, NEW t \in Clients,
           Lock(t) \/ Check(t) \/ Sleep(t) \/ (t \in Callers /\ Enqueue(t))
    PROVE  PoolInv'
<1> USE PoolAssumption
<1>t. pc \in [Clients -> Places] /\ (pc[t] \in Holding <=> mutex_ = t)
  BY DEF PoolInv, TypeOK, Places
<1>1. CASE Acquire(t)
  BY <1>t, <1>1, OneThreadMoves DEF Acquire, Goto, Places, Holding
<1>2. CASE AcquireFirst(t)
  BY <1>t, <1>2, OneThreadMoves DEF AcquireFirst, Goto, Places, Holding
<1>3. CASE Check(t) /\ stop
  <2> DEFINE place == IF t \in Workers THEN "done" ELSE "notify"
  <2>1. /\ place \in Places /\ place \notin Holding
        /\ place \notin {"unborn", "asleep", "wait"}
    BY DEF Places, Holding
  <2>2. /\ pc[t] = "check" /\ mutex_ = t /\ mutex_' = Free
        /\ pc' = [pc EXCEPT ![t] = place]
        /\ UNCHANGED <<stop, asleep, threads_, owner>>
    BY <1>t, <1>3 DEF Check, Goto, Holding
  <2> HIDE DEF place
  <2> QED BY <2>1, <2>2, OneThreadMoves
<1>4. CASE Check(t) /\ ~stop
  BY <1>t, <1>4, OneThreadMoves DEF Check, Goto, Places, Holding
<1>5. CASE Sleep(t)
  BY <1>t, <1>5, OneThreadMoves DEF Sleep, Goto, Places, Holding
<1>6. CASE t \in Callers /\ Enqueue(t)
  BY <1>t, <1>6, OneThreadMoves DEF Enqueue, Goto, Places, Holding
<1> QED BY <1>1, <1>2, <1>3, <1>4, <1>5, <1>6 DEF Lock

\* notify_one wakes a sleeper, and its caller returns.
LEMMA NotifyOneStep ==
    ASSUME PoolInv, NEW t \in Clients, NotifyOne(t)
    PROVE  PoolInv'
<1> USE PoolAssumption DEF owner
<1>1. PICK woken \in SUBSET asleep : Wake(woken, [pc EXCEPT ![t] = "out"])
  BY DEF NotifyOne
<1>2. /\ pc[t] = "notify" /\ t \notin woken
      /\ asleep' = asleep \ woken
      /\ pc' = [u \in Clients |-> IF u \in woken THEN "lock" ELSE IF u = t THEN "out" ELSE pc[u]]
      /\ UNCHANGED <<mutex_, stop, threads_, owner>>
  BY <1>1 DEF NotifyOne, Wake, PoolInv, TypeOK
<1>3. TypeOK'
  <2>1. pc' \in [Clients -> Places] /\ asleep' \subseteq Clients
    BY <1>2 DEF PoolInv, TypeOK, Places
  <2>2. \A u \in Clients : pc'[u] \in Holding <=> mutex_' = u
    BY <1>2 DEF PoolInv, TypeOK, Holding
  <2>3. asleep' = {u \in Clients : pc'[u] = "asleep"}
    BY <1>2 DEF PoolInv, TypeOK
  <2> QED BY <1>2, <2>1, <2>2, <2>3 DEF PoolInv, TypeOK, Places
<1>4. Unstarted' /\ OwnerPlaces'
  BY <1>2 DEF PoolInv, TypeOK, Unstarted, OwnerPlaces, Clients
<1>5. NobodyFallsAsleep' /\ NobodyLeftAsleep'
  BY <1>2 DEF PoolInv, TypeOK, NobodyFallsAsleep, NobodyLeftAsleep
<1> QED BY <1>3, <1>4, <1>5 DEF PoolInv

\* The constructor starts a thread.
LEMMA CreateThreadStep ==
    ASSUME PoolInv, NEW w \in Workers, CreateThread(w)
    PROVE  PoolInv'
<1> USE PoolAssumption DEF Clients, owner
<1>1. /\ w \in Workers \ threads_ /\ pc[w] = "unborn" /\ ~stop
      /\ pc' = [pc EXCEPT ![w] = "lock"] /\ threads_' = threads_ \cup {w}
      /\ UNCHANGED <<mutex_, stop, asleep>>
  BY DEF CreateThread, Goto, PoolInv, Unstarted, OwnerPlaces
<1>2. /\ stage = "create"
      /\ (op' = op /\ stage' = stage) \/ (op' = "none" /\ stage' = "ready")
  BY DEF CreateThread
<1>3. TypeOK'
  BY <1>1, <1>2 DEF PoolInv, TypeOK, Holding
<1>4. /\ Unstarted' /\ OwnerPlaces' /\ NobodyFallsAsleep' /\ NobodyLeftAsleep'
  BY <1>1, <1>2 DEF PoolInv, TypeOK, Unstarted, OwnerPlaces, NobodyFallsAsleep, NobodyLeftAsleep
<1> QED BY <1>3, <1>4 DEF PoolInv

(* The other steps of the owner.  SetStop takes the mutex, except in the   *)
(* constructor: nobody is then between test and wait.  NotifyAll wakes     *)
(* every sleeper, and from then on nobody falls asleep.                    *)
LEMMA OwnerSteps ==
    ASSUME PoolInv, CreateFails \/ Begin("shutdown") \/ Begin("dtor") \/ Finish
    PROVE  PoolInv'
<1> USE PoolAssumption DEF owner
<1>1. CASE CreateFails
  BY <1>1 DEF CreateFails, PoolInv, TypeOK, Unstarted, OwnerPlaces, NobodyFallsAsleep,
     NobodyLeftAsleep
<1>2. ASSUME NEW what \in {"shutdown", "dtor"}, Begin(what) PROVE PoolInv'
  <2>1. TypeOK' /\ Unstarted' /\ OwnerPlaces'
    BY <1>2 DEF Begin, PoolInv, TypeOK, Unstarted, OwnerPlaces
  <2>2. op # "ctor"
    BY <1>2 DEF Begin, PoolInv, OwnerPlaces
  <2> QED BY <1>2, <2>1, <2>2 DEF Begin, PoolInv, NobodyFallsAsleep, NobodyLeftAsleep
<1>3. CASE SetStop
  <2>1. TypeOK' /\ Unstarted' /\ OwnerPlaces' /\ NobodyLeftAsleep'
    BY <1>3 DEF SetStop, PoolInv, TypeOK, Unstarted, OwnerPlaces, NobodyLeftAsleep
  <2>2. NobodyFallsAsleep'
    BY <1>3 DEF SetStop, PoolInv, TypeOK, NobodyFallsAsleep, Holding, Clients
  <2> QED BY <2>1, <2>2 DEF PoolInv
<1>4. CASE NotifyAll
  <2>1. /\ asleep' = {} /\ stage' = "join"
        /\ pc' = [u \in Clients |-> IF u \in asleep THEN "lock" ELSE pc[u]]
        /\ UNCHANGED <<mutex_, stop, threads_, op>>
    BY <1>4 DEF NotifyAll, Wake
  <2>2. TypeOK'
    BY <2>1 DEF PoolInv, TypeOK, Holding
  <2>3. Unstarted' /\ OwnerPlaces'
    BY <2>1 DEF PoolInv, TypeOK, Unstarted, OwnerPlaces, Clients
  <2>4. NobodyFallsAsleep' /\ NobodyLeftAsleep'
    BY <2>1 DEF PoolInv, NobodyFallsAsleep, NobodyLeftAsleep
  <2> QED BY <2>2, <2>3, <2>4 DEF PoolInv
<1>5. CASE Join
  BY <1>5 DEF Join, PoolInv, TypeOK, Unstarted, OwnerPlaces, NobodyFallsAsleep, NobodyLeftAsleep
<1> QED BY <1>1, <1>2, <1>3, <1>4, <1>5 DEF Finish

(* The mutex has one holder, and no worker and no enqueue sleeps through   *)
(* the notification of a shutdown: the predicate is tested and the wait    *)
(* entered under the mutex that shutdown locks to set stop.                *)
THEOREM NoLostWakeup == Spec => []PoolSound
<1>1. Init => PoolInv
  BY PoolInit
<1>2. PoolInv /\ [Next]_vars => PoolInv'
  <2> SUFFICES ASSUME PoolInv, [Next]_vars PROVE PoolInv'
    OBVIOUS
  <2>1. ASSUME NEW t \in Clients, Lock(t) \/ Proceed(t) PROVE PoolInv'
    BY <2>1, ThreadSteps, NotifyOneStep DEF Proceed
  <2>2. ASSUME NEW t \in Clients, SpuriousWakeup(t) PROVE PoolInv'
    <3>1. /\ {t} \in SUBSET asleep /\ asleep' = asleep \ {t}
          /\ pc' = [u \in Clients |-> IF u \in {t} THEN "lock" ELSE pc[u]]
          /\ UNCHANGED <<mutex_, stop, threads_, owner>>
      BY <2>2 DEF SpuriousWakeup, Wake
    <3> QED BY <3>1, SleepersWake
  <2>3. ASSUME NEW t \in Callers, Enqueue(t) PROVE PoolInv'
    BY <2>3, ThreadSteps DEF Clients
  <2>4. ASSUME NEW w \in Workers, CreateThread(w) PROVE PoolInv'
    BY <2>4, CreateThreadStep
  <2>5. ASSUME CreateFails \/ Begin("shutdown") \/ Begin("dtor") \/ Finish PROVE PoolInv'
    BY <2>5, OwnerSteps
  <2>6. ASSUME UNCHANGED vars PROVE PoolInv'
    BY <2>6 DEF vars, PoolInv, TypeOK, Unstarted, OwnerPlaces, NobodyFallsAsleep, NobodyLeftAsleep
  <2> QED BY <2>1, <2>2, <2>3, <2>4, <2>5, <2>6 DEF Next
<1>3. PoolInv => PoolSound
  BY DEF PoolInv, PoolSound
<1> QED BY <1>1, <1>2, <1>3, PTL DEF Spec
=============================================================================
