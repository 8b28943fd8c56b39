--------------------------- MODULE CudaThreadPool ---------------------------
(***************************************************************************)
(* CudaThreadPool (cuda_thread_pool.cpp) with the CudaLatch its            *)
(* constructor waits on (cuda_latch.hpp) and the CudaJThreads its          *)
(* destructor joins (cuda_jthread.hpp): the threads that run the GPU stage *)
(* of every inference on one device.                                       *)
(*                                                                         *)
(* One action is one critical section of mtx_ or one atomic step outside   *)
(* of it.  The owner is the thread that constructs and destroys the pool;  *)
(* a caller of run() is identified with the task it submits.               *)
(***************************************************************************)
EXTENDS Naturals, SequencesExt

CONSTANTS
    NumThreads,        \* _numThreads
    Tasks,             \* the tasks that are submitted, each by its own caller
    SpawnMayFail,      \* std::thread may throw std::system_error
    StopWhileBusy,     \* the owner may destroy the pool when tasks remain
    None

Threads == 1..NumThreads

ASSUME ThreadPoolAssumption ==
    /\ NumThreads \in Nat \ {0}
    /\ IsFiniteSet(Tasks)
    /\ SpawnMayFail \in BOOLEAN
    /\ StopWhileBusy \in BOOLEAN
    /\ None \notin Tasks

VARIABLES
    owner,        \* where the owner of the pool is
    spawned,      \* threads_.size() while the pool is constructed
    pc,           \* pc[t]: where thread t is
    context,      \* context[t]: t has built its ThreadContext
    counter,      \* counter_ of the latch
    latch,        \* "armed", "open" (set_value was called) or "dead"
    is_stopped,   \* is_stopped_
    task_queue,   \* task_queue_
    task,         \* task[t]: what thread t runs, or None
    caller,       \* caller[k]: where the caller of run(k) is
    started,      \* tasks in the order in which threads took them (history)
    crashed       \* a thread used the latch after its destruction, fatally

vars == <<owner, spawned, pc, context, counter, latch, is_stopped, task_queue,
          task, caller, started, crashed>>

latchVars == <<counter, latch, context>>
queueVars == <<task_queue, started>>

At(l) == {t \in Threads : pc[t] = l}

Init ==
    /\ owner = "spawn"
    /\ spawned = 0
    /\ pc = [t \in Threads |-> "unborn"]
    /\ context = [t \in Threads |-> FALSE]
    /\ counter = NumThreads
    /\ latch = "armed"
    /\ is_stopped = FALSE
    /\ task_queue = <<>>
    /\ task = [t \in Threads |-> None]
    /\ caller = [k \in Tasks |-> "new"]
    /\ started = <<>>
    /\ crashed = FALSE

-----------------------------------------------------------------------------
(* The constructor.                                                        *)

Spawn ==
    /\ owner = "spawn"
    /\ spawned < NumThreads
    /\ spawned' = spawned + 1
    /\ pc' = [pc EXCEPT ![spawned + 1] = "starting"]
    /\ UNCHANGED <<owner, latchVars, is_stopped, queueVars, task, caller, crashed>>

(* A thread cannot be created.  The latch is a local of the try block: it  *)
(* is gone before the handler runs stop_thread_pool.                       *)
FailSpawn ==
    /\ SpawnMayFail
    /\ owner = "spawn"
    /\ spawned < NumThreads
    /\ latch' = "dead"
    /\ owner' = "stop"
    /\ UNCHANGED <<spawned, pc, context, counter, is_stopped, queueVars, task,
                   caller, crashed>>

(* latch.wait() returns, and the latch ends with the try block.            *)
WaitLatch ==
    /\ owner = "spawn"
    /\ spawned = NumThreads
    /\ latch = "open"
    /\ owner' = "ready"
    /\ latch' = "dead"
    /\ UNCHANGED <<spawned, pc, context, counter, is_stopped, queueVars, task,
                   caller, crashed>>

-----------------------------------------------------------------------------
(* A thread of the pool.                                                   *)

(* Mutant of BuildContext: a thread reports before its context is there.   *)
(* (count_down is the next step in either case.)                           *)
Mut_ReportBeforeContext(t) ==
    /\ pc[t] = "starting"
    /\ pc' = [pc EXCEPT ![t] = "counting"]
    /\ UNCHANGED <<owner, spawned, context, counter, latch, is_stopped,
                   queueVars, task, caller, crashed>>

BuildContext(t) ==
    /\ pc[t] = "starting"
    /\ context' = [context EXCEPT ![t] = TRUE]
    /\ pc' = [pc EXCEPT ![t] = "counting"]
    /\ UNCHANGED <<owner, spawned, counter, latch, is_stopped, queueVars, task,
                   caller, crashed>>

(* Mutant of CountDown: the latch opens one thread too early.              *)
Mut_LatchOffByOne(t) ==
    /\ pc[t] = "counting"
    /\ latch # "dead"
    /\ counter' = counter - 1
    /\ pc' = [pc EXCEPT ![t] = IF counter = 2 THEN "signalling" ELSE "looping"]
    /\ UNCHANGED <<owner, spawned, context, latch, is_stopped, queueVars, task,
                   caller, crashed>>

(* count_down: --counter_ on a latch that is still there.                  *)
CountDown(t) ==
    /\ pc[t] = "counting"
    /\ latch # "dead"
    /\ counter' = counter - 1
    /\ pc' = [pc EXCEPT ![t] = IF counter = 1 THEN "signalling" ELSE "looping"]
    /\ UNCHANGED <<owner, spawned, context, latch, is_stopped, queueVars, task,
                   caller, crashed>>

(* count_down on a latch whose stack frame is gone: it decrements whatever *)
(* is there now, and goes on, or calls set_value on a dead promise.        *)
CountDownDead(t) ==
    /\ pc[t] = "counting"
    /\ latch = "dead"
    /\ \/ pc' = [pc EXCEPT ![t] = "looping"] /\ UNCHANGED crashed
       \/ crashed' = TRUE /\ UNCHANGED pc
    /\ UNCHANGED <<owner, spawned, latchVars, is_stopped, queueVars, task, caller>>

(* set_value by the thread that brought the counter to zero.               *)
SetValue(t) ==
    /\ pc[t] = "signalling"
    /\ latch' = IF latch = "armed" THEN "open" ELSE latch
    /\ pc' = [pc EXCEPT ![t] = "looping"]
    /\ UNCHANGED <<owner, spawned, context, counter, is_stopped, queueVars,
                   task, caller, crashed>>

(* The wait of the loop: nothing to do and not stopped.                    *)
Sleep(t) ==
    /\ pc[t] = "looping"
    /\ task_queue = <<>>
    /\ ~is_stopped
    /\ pc' = [pc EXCEPT ![t] = "waiting"]
    /\ UNCHANGED <<owner, spawned, latchVars, is_stopped, queueVars, task,
                   caller, crashed>>

(* Stopped: the thread leaves, whatever is in the queue.                   *)
Exit(t) ==
    /\ pc[t] = "looping"
    /\ is_stopped
    /\ pc' = [pc EXCEPT ![t] = "exited"]
    /\ UNCHANGED <<owner, spawned, latchVars, is_stopped, queueVars, task,
                   caller, crashed>>

(* Mutant of TakeTask: the back of the deque is taken.                     *)
Mut_TakeNewest(t) ==
    /\ pc[t] = "looping"
    /\ ~is_stopped
    /\ task_queue # <<>>
    /\ task' = [task EXCEPT ![t] = Last(task_queue)]
    /\ started' = Append(started, Last(task_queue))
    /\ task_queue' = Front(task_queue)
    /\ pc' = [pc EXCEPT ![t] = "running"]
    /\ UNCHANGED <<owner, spawned, latchVars, is_stopped, caller, crashed>>

TakeTask(t) ==
    /\ pc[t] = "looping"
    /\ ~is_stopped
    /\ task_queue # <<>>
    /\ task' = [task EXCEPT ![t] = Head(task_queue)]
    /\ started' = Append(started, Head(task_queue))
    /\ task_queue' = Tail(task_queue)
    /\ pc' = [pc EXCEPT ![t] = "running"]
    /\ UNCHANGED <<owner, spawned, latchVars, is_stopped, caller, crashed>>

FinishTask(t) ==
    /\ pc[t] = "running"
    /\ task' = [task EXCEPT ![t] = None]
    /\ pc' = [pc EXCEPT ![t] = "looping"]
    /\ UNCHANGED <<owner, spawned, latchVars, is_stopped, queueVars, caller, crashed>>

(* std::condition_variable::wait may return without a notification.        *)
SpuriousWakeup(t) ==
    /\ pc[t] = "waiting"
    /\ pc' = [pc EXCEPT ![t] = "looping"]
    /\ UNCHANGED <<owner, spawned, latchVars, is_stopped, queueVars, task,
                   caller, crashed>>

-----------------------------------------------------------------------------
(* A caller of run(task); the pool is handed out when it is constructed.   *)

(* Mutant of PushTask: a notification only when the queue was empty.       *)
Mut_PushNotifiesOnlyIfEmpty(k) ==
    /\ caller[k] = "new"
    /\ owner = "ready"
    /\ task_queue' = Append(task_queue, k)
    /\ caller' = [caller EXCEPT ![k] = IF task_queue = <<>> THEN "notifying" ELSE "done"]
    /\ UNCHANGED <<owner, spawned, pc, latchVars, is_stopped, task, started, crashed>>

PushTask(k) ==
    /\ caller[k] = "new"
    /\ owner = "ready"
    /\ task_queue' = Append(task_queue, k)
    /\ caller' = [caller EXCEPT ![k] = "notifying"]
    /\ UNCHANGED <<owner, spawned, pc, latchVars, is_stopped, task, started, crashed>>

(* Mutant of NotifyOne: the notification is forgotten.                     *)
Mut_NotifyNobody(k) ==
    /\ caller[k] = "notifying"
    /\ caller' = [caller EXCEPT ![k] = "done"]
    /\ UNCHANGED <<owner, spawned, pc, latchVars, is_stopped, queueVars, task, crashed>>

NotifyOne(k) ==
    /\ caller[k] = "notifying"
    /\ caller' = [caller EXCEPT ![k] = "done"]
    /\ \/ At("waiting") = {} /\ UNCHANGED pc
       \/ \E t \in At("waiting") : pc' = [pc EXCEPT ![t] = "looping"]
    /\ UNCHANGED <<owner, spawned, latchVars, is_stopped, queueVars, task, crashed>>

-----------------------------------------------------------------------------
(* The destructor.  Nobody is inside run() any more; in the plugin nothing *)
(* is queued or running either, for the requests that submit tasks own the *)
(* pool (StopWhileBusy = FALSE).                                           *)
Destruct ==
    /\ owner = "ready"
    /\ \A k \in Tasks : caller[k] # "notifying"
    /\ StopWhileBusy \/ (task_queue = <<>> /\ At("running") = {})
    /\ owner' = "stop"
    /\ UNCHANGED <<spawned, pc, latchVars, is_stopped, queueVars, task, caller, crashed>>

(* stop_thread_pool: set the flag under the lock, ...                      *)
SetStopped ==
    /\ owner = "stop"
    /\ is_stopped' = TRUE
    /\ owner' = "notify"
    /\ UNCHANGED <<spawned, pc, latchVars, queueVars, task, caller, crashed>>

(* Mutant of NotifyAll: only one of the sleepers is woken.                 *)
Mut_NotifyOneOnStop ==
    /\ owner = "notify"
    /\ \/ At("waiting") = {} /\ UNCHANGED pc
       \/ \E t \in At("waiting") : pc' = [pc EXCEPT ![t] = "looping"]
    /\ owner' = "join"
    /\ UNCHANGED <<spawned, latchVars, is_stopped, queueVars, task, caller, crashed>>

(* ... wake everybody, ...                                                 *)
NotifyAll ==
    /\ owner = "notify"
    /\ pc' = [t \in Threads |-> IF pc[t] = "waiting" THEN "looping" ELSE pc[t]]
    /\ owner' = "join"
    /\ UNCHANGED <<spawned, latchVars, is_stopped, queueVars, task, caller, crashed>>

(* ... and join every thread that was created.                             *)
Join ==
    /\ owner = "join"
    /\ \A t \in 1..spawned : pc[t] = "exited"
    /\ owner' = "gone"
    /\ UNCHANGED <<spawned, pc, latchVars, is_stopped, queueVars, task, caller, crashed>>

-----------------------------------------------------------------------------
Thread(t) ==
    \/ BuildContext(t)
    \/ CountDown(t)
    \/ CountDownDead(t)
    \/ SetValue(t)
    \/ Sleep(t)
    \/ Exit(t)
    \/ TakeTask(t)
    \/ FinishTask(t)

Owner ==
    \/ Spawn
    \/ FailSpawn
    \/ WaitLatch
    \/ SetStopped
    \/ NotifyAll
    \/ Join

Next ==
    /\ ~crashed
    /\ \/ Owner
       \/ Destruct
       \/ \E t \in Threads : Thread(t) \/ SpuriousWakeup(t)
       \/ \E k \in Tasks : PushTask(k) \/ NotifyOne(k)

(* Threads that can run do run and tasks end.  No task need be submitted,  *)
(* and the pool need not be destroyed.                                     *)
Fairness ==
    /\ WF_vars(~crashed /\ Owner)
    /\ \A t \in Threads : WF_vars(~crashed /\ Thread(t))
    /\ \A k \in Tasks : WF_vars(~crashed /\ NotifyOne(k))

Spec == Init /\ [][Next]_vars /\ Fairness

-----------------------------------------------------------------------------
(* Every variable has its type.                                            *)
TypeOK ==
    /\ owner \in {"spawn", "ready", "stop", "notify", "join", "gone"}
    /\ spawned \in 0..NumThreads
    /\ pc \in [Threads -> {"unborn", "starting", "counting", "signalling",
                           "looping", "waiting", "running", "exited"}]
    /\ context \in [Threads -> BOOLEAN]
    /\ counter \in 0..NumThreads
    /\ latch \in {"armed", "open", "dead"}
    /\ is_stopped \in BOOLEAN /\ crashed \in BOOLEAN
    /\ task_queue \in Seq(Tasks)
    /\ task \in [Threads -> Tasks \union {None}]
    /\ \A t \in Threads : task[t] # None <=> pc[t] = "running"
    /\ caller \in [Tasks -> {"new", "notifying", "done"}]
    /\ started \in Seq(Tasks)

(* When the constructor has returned, every thread has its context, so     *)
(* get_thread_context() finds one in every task; and no task runs before.  *)
ReadyMeansContexts ==
    owner = "ready" \/ started # <<>> => \A t \in Threads : context[t]

(* The latch is a local of the constructor: unless a thread could not be   *)
(* created, no thread is still going to touch it when it is gone.          *)
LatchOutlivesUsers ==
    latch = "dead" /\ spawned = NumThreads =>
        At("starting") \union At("counting") \union At("signalling") = {}

(* While threads sleep in a pool that is not stopped, every queued task    *)
(* has a thread that is about to look at the queue or a caller that is     *)
(* about to notify; and after notify_all no thread is left asleep.         *)
NoLostWakeup ==
    At("waiting") # {} =>
        /\ ~is_stopped =>
             Len(task_queue) <= Cardinality(At("looping"))
                                + Cardinality({k \in Tasks : caller[k] = "notifying"})
        /\ owner \notin {"join", "gone"}

(* Every task that is submitted gets run unless the pool is stopped.       *)
EveryTaskRuns ==
    \A k \in Tasks : (k \in ToSet(task_queue)) ~> (k \in ToSet(started) \/ is_stopped)

(* A pool that is destroyed, or whose constructor failed, goes away, unless *)
(* a thread falls over the dead latch first.                               *)
DestructionEnds == (owner = "stop") ~> (owner = "gone" \/ crashed)

(* The pool is a task executor in the sense of OpenVINO.                   *)
Executor == INSTANCE TaskExecutor WITH
    pending <- task_queue,
    begun   <- ToSet(started),
    open    <- ~is_stopped

ImplementsTaskExecutor == Executor!Spec
=============================================================================
