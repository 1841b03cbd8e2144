----------------------------- MODULE ThreadPool -----------------------------
(***************************************************************************)
(* ThreadPool (src/src/dsa/thread_pool.hpp): the owner, which constructs,  *)
(* shuts down and destroys the pool, its workers, and the callers of       *)
(* enqueue, around one mutex and one condition variable.                   *)
(*                                                                         *)
(* No operation of the class adds to tasks_: the predicate                 *)
(* `!tasks_.empty() || stop' is `stop', active_workers_ stays 0,           *)
(* wait_for_tasks only locks and unlocks the mutex, and the part of        *)
(* worker() that runs a task is unreachable.  A predicate is evaluated     *)
(* with the mutex locked, and the wait that follows is a step of its own:  *)
(* it unlocks the mutex and falls asleep atomically.                       *)
(***************************************************************************)
EXTENDS FiniteSets, Naturals

CONSTANTS
    Workers,    \* threads the constructor is asked for
    Callers,    \* threads that call enqueue
    Free        \* owner of the mutex when it is unlocked

ASSUME PoolAssumption ==
    /\ IsFiniteSet(Workers) /\ IsFiniteSet(Callers) /\ Workers # {}
    /\ Workers \cap Callers = {} /\ Free \notin Workers \cup Callers

VARIABLES
    mutex_,    \* who holds the mutex; the owner never keeps it between two steps
    stop,
    asleep,    \* threads waiting on condition_
    threads_,  \* workers that were started
    pc,        \* where every worker and caller is
    op,        \* what the owner does: "ctor", "shutdown", "dtor" or "none"
    stage      \* and how far it is

vars == <<mutex_, stop, asleep, threads_, pc, op, stage>>
owner == <<op, stage>>

Clients == Workers \cup Callers
Goto(t, place) == pc' = [pc EXCEPT ![t] = place]

Init ==
    /\ mutex_ = Free /\ stop = FALSE /\ asleep = {} /\ threads_ = {}
    /\ pc = [t \in Clients |-> IF t \in Workers THEN "unborn" ELSE "out"]
    /\ op = "ctor" /\ stage = "create"

----------------------------------------------------------------------------
(* condition_.wait(lock, predicate), of worker() and of enqueue().         *)

\* A set of sleepers goes on to lock the mutex again; one thread moves on besides.
Wake(woken, place) ==
    /\ asleep' = asleep \ woken
    /\ pc' = [t \in Clients |-> IF t \in woken THEN "lock" ELSE place[t]]

Acquire(t) ==
    /\ pc[t] = "lock" /\ mutex_ = Free
    /\ mutex_' = t
    /\ Goto(t, "check")
    /\ UNCHANGED <<stop, asleep, threads_, owner>>

\* Mutant: a stopped worker starts its loop again.
MutCheckNoReturn(t) ==
    /\ pc[t] = "check"
    /\ IF stop
       THEN mutex_' = Free /\ Goto(t, IF t \in Workers THEN "lock" ELSE "notify")
       ELSE UNCHANGED mutex_ /\ Goto(t, "wait")
    /\ UNCHANGED <<stop, asleep, threads_, owner>>

\* Mutant: a stopped enqueue tries again.
MutCheckRetries(t) ==
    /\ pc[t] = "check"
    /\ IF stop
       THEN mutex_' = Free /\ Goto(t, IF t \in Workers THEN "done" ELSE "lock")
       ELSE UNCHANGED mutex_ /\ Goto(t, "wait")
    /\ UNCHANGED <<stop, asleep, threads_, owner>>

\* The predicate: once stopped, a worker returns and an enqueue goes on to notify_one.
Check(t) ==
    /\ pc[t] = "check"
    /\ IF stop
       THEN mutex_' = Free /\ Goto(t, IF t \in Workers THEN "done" ELSE "notify")
       ELSE UNCHANGED mutex_ /\ Goto(t, "wait")
    /\ UNCHANGED <<stop, asleep, threads_, owner>>

Sleep(t) ==
    /\ pc[t] = "wait"
    /\ mutex_' = Free
    /\ asleep' = asleep \cup {t}
    /\ Goto(t, "asleep")
    /\ UNCHANGED <<stop, threads_, owner>>

\* The standard lets a wait end without a notification.
SpuriousWakeup(t) ==
    /\ t \in asleep
    /\ Wake({t}, pc)
    /\ UNCHANGED <<mutex_, stop, threads_, owner>>

----------------------------------------------------------------------------
(* enqueue: it throws when it finds the pool stopped, and otherwise waits  *)
(* for the predicate instead of pushing its task.                          *)

Enqueue(t) ==
    /\ pc[t] = "out" /\ op \in {"none", "shutdown"}
    /\ Goto(t, "enter")
    /\ UNCHANGED <<mutex_, stop, asleep, threads_, owner>>

AcquireFirst(t) ==
    /\ pc[t] = "enter" /\ mutex_ = Free
    /\ IF stop
       THEN Goto(t, "out") /\ UNCHANGED mutex_
       ELSE Goto(t, "check") /\ mutex_' = t
    /\ UNCHANGED <<stop, asleep, threads_, owner>>

\* notify_one, and the return of a future whose task nobody will run.
NotifyOne(t) ==
    /\ pc[t] = "notify"
    /\ \E woken \in SUBSET asleep :
          /\ Cardinality(woken) = IF asleep = {} THEN 0 ELSE 1
          /\ Wake(woken, [pc EXCEPT ![t] = "out"])
    /\ UNCHANGED <<mutex_, stop, threads_, owner>>

----------------------------------------------------------------------------
(* The owner.                                                              *)

\* The constructor starts the workers one after the other.
CreateThread(w) ==
    /\ stage = "create" /\ w \notin threads_
    /\ threads_' = threads_ \cup {w}
    /\ Goto(w, "lock")
    /\ IF threads_' = Workers THEN op' = "none" /\ stage' = "ready" ELSE UNCHANGED owner
    /\ UNCHANGED <<mutex_, stop, asleep>>

\* A thread cannot be started: the constructor's catch block.
CreateFails ==
    /\ stage = "create"
    /\ stage' = "stop"
    /\ UNCHANGED <<mutex_, stop, asleep, threads_, pc, op>>

(* shutdown, or the destructor, which needs that no enqueue is running: it *)
(* would use the mutex after the destructor.                               *)
Begin(what) ==
    /\ stage = "ready"
    /\ what = "dtor" => \A t \in Callers : pc[t] = "out"
    /\ op' = what /\ stage' = "stop"
    /\ UNCHANGED <<mutex_, stop, asleep, threads_, pc>>

\* Mutant: shutdown and the destructor do not lock the mutex either.
MutSetStopUnlocked ==
    /\ stage = "stop"
    /\ stop' = TRUE
    /\ stage' = "notify"
    /\ UNCHANGED <<mutex_, asleep, threads_, pc, op>>

\* stop is set under the mutex, except in the catch block of the constructor.
SetStop ==
    /\ stage = "stop"
    /\ op # "ctor" => mutex_ = Free
    /\ stop' = TRUE
    /\ stage' = "notify"
    /\ UNCHANGED <<mutex_, asleep, threads_, pc, op>>

NotifyAll ==
    /\ stage = "notify"
    /\ Wake(asleep, pc)
    /\ stage' = "join"
    /\ UNCHANGED <<mutex_, stop, threads_, op>>

\* Every thread is joined; shutdown then locks the mutex in wait_for_tasks.
Join ==
    /\ stage = "join" /\ \A w \in threads_ : pc[w] = "done"
    /\ IF op = "shutdown"
       THEN mutex_ = Free /\ op' = "none" /\ stage' = "ready"
       ELSE stage' = "gone" /\ UNCHANGED op
    /\ UNCHANGED <<mutex_, stop, asleep, threads_, pc>>

Proceed(t) == Check(t) \/ Sleep(t) \/ NotifyOne(t)
Lock(t) == Acquire(t) \/ AcquireFirst(t)
Finish == SetStop \/ NotifyAll \/ Join

Next ==
    \/ \E t \in Clients : Lock(t) \/ Proceed(t) \/ SpuriousWakeup(t)
    \/ \E t \in Callers : Enqueue(t)
    \/ \E w \in Workers : CreateThread(w)
    \/ CreateFails \/ Begin("shutdown") \/ Begin("dtor")
    \/ Finish

Spec == Init /\ [][Next]_vars

(* A thread that can run does so, and a thread that waits for a mutex that *)
(* is unlocked again and again locks it some day.  Nothing makes the owner *)
(* shut the pool down, a caller call, or a sleeper wake by itself.         *)
FairSpec ==
    /\ Spec
    /\ \A t \in Clients : WF_vars(Proceed(t)) /\ SF_vars(Lock(t))
    /\ SF_vars(Finish)

----------------------------------------------------------------------------
Holding == {"check", "wait"}

(* The mutex is held by the thread that is between a lock and the wait     *)
(* that releases it, by no other, and a thread sleeps without it.          *)
TypeOK ==
    /\ mutex_ \in Clients \cup {Free} /\ stop \in BOOLEAN
    /\ asleep \subseteq Clients /\ threads_ \subseteq Workers
    /\ pc \in [Clients -> {"unborn", "out", "enter", "lock", "check", "wait", "asleep", "notify", "done"}]
    /\ op \in {"ctor", "none", "shutdown", "dtor"}
    /\ stage \in {"create", "ready", "stop", "notify", "join", "gone"}
    /\ \A t \in Clients : pc[t] \in Holding <=> mutex_ = t
    /\ asleep = {t \in Clients : pc[t] = "asleep"}

(* Once shutdown or the destructor has notified everybody, no worker and   *)
(* no enqueue sleeps: none of them read stop before it was set and fell    *)
(* asleep after the notification.                                          *)
NobodyLeftAsleep == stop /\ stage \in {"join", "ready", "gone"} /\ op # "ctor" => asleep = {}

\* The mutex has one holder at a time, and no wake-up is lost at a shutdown.
PoolSound == TypeOK /\ NobodyLeftAsleep

\* shutdown returns, and so does the destructor: every worker can be joined.
ShutdownReturns == [](stage = "stop" /\ op # "ctor" => <>(stage \in {"ready", "gone"}))

\* After shutdown was called, every enqueue returns or throws.
EnqueueReturns == \A t \in Callers : [](stop => <>(pc[t] = "out"))
=============================================================================
