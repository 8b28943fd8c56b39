------------------------ MODULE CudaThreadPool_proofs ------------------------
(***************************************************************************)
(* Proofs about CudaThreadPool, for every number of threads and every      *)
(* finite set of tasks: types, the two facts about the latch, that no      *)
(* wakeup is lost, and the safety part of the refinement of TaskExecutor.  *)
(***************************************************************************)
EXTENDS CudaThreadPool, FiniteSetTheorems, TLAPS

-----------------------------------------------------------------------------
(* What the operations on a queue do to its elements.                      *)

(* push_back and emplace_back add one element at the end.                  *)
LEMMA PushedBack ==
  ASSUME NEW S, NEW s \in Seq(S), NEW x \in S
  PROVE  /\ Append(s, x) \in Seq(S)
         /\ Len(Append(s, x)) = Len(s) + 1 /\ Append(s, x) # <<>>
         /\ ToSet(Append(s, x)) = ToSet(s) \cup {x}
<1>1. Len(s) \in Nat
  OBVIOUS
<1>2. /\ Append(s, x) \in Seq(S) /\ Len(Append(s, x)) = Len(s) + 1
      /\ Append(s, x)[Len(s) + 1] = x
      /\ \A i \in 1..Len(s) : Append(s, x)[i] = s[i]
  OBVIOUS
<1>3. 1..(Len(s) + 1) = (1..Len(s)) \cup {Len(s) + 1}
  BY <1>1
<1>4. DOMAIN s = 1..Len(s) /\ DOMAIN Append(s, x) = 1..(Len(s) + 1)
  BY <1>2
<1>5. Append(s, x) # <<>>
  BY <1>1, <1>2
<1> QED BY <1>1, <1>2, <1>3, <1>4, <1>5 DEF ToSet

(* deque::front and pop_front.                                             *)
LEMMA PopFront ==
  ASSUME NEW S, NEW s \in Seq(S), s # <<>>
  PROVE  /\ Head(s) \in S /\ Tail(s) \in Seq(S)
         /\ Head(s) \in ToSet(s)
         /\ Len(Tail(s)) = Len(s) - 1
         /\ ToSet(Tail(s)) \subseteq ToSet(s)
<1>1. Len(s) \in Nat \ {0} /\ Head(s) = s[1] /\ DOMAIN s = 1..Len(s)
  OBVIOUS
<1>2. /\ Tail(s) \in Seq(S) /\ DOMAIN Tail(s) = 1..Len(s) - 1 /\ Len(Tail(s)) = Len(s) - 1
      /\ \A i \in 1..Len(s) - 1 : Tail(s)[i] = s[i + 1]
  OBVIOUS
<1>3. \A i \in 1..Len(s) - 1 : i + 1 \in 1..Len(s)
  BY <1>1
<1> QED BY <1>1, <1>2, <1>3 DEF ToSet

-----------------------------------------------------------------------------
(* The threads for which the latch still has to count down.                *)
Uncounted == {t \in Threads : pc[t] \in {"unborn", "starting", "counting"}}

(* What relates the latch, its counter and the threads.  The owner is in   *)
(* the constructor as long as the latch is there; the counter says how     *)
(* many threads have not counted down; the thread that has to open the     *)
(* latch is alone and the last one to touch it.                            *)
LatchInv ==
    /\ \A t \in Threads : pc[t] = "unborn" <=> t > spawned
    /\ owner = "spawn" <=> latch # "dead"
    /\ owner = "spawn" => counter = Cardinality(Uncounted)
    /\ latch = "open" => Uncounted = {} /\ At("signalling") = {}
    /\ \A t \in Threads : pc[t] = "signalling" =>
           latch = "armed" /\ Uncounted = {} /\ At("signalling") = {t}
    /\ LatchOutlivesUsers

(* Nothing is queued or started before the pool is handed out, and it is   *)
(* handed out only when every thread was created and has its context.      *)
PoolInv ==
    /\ \A t \in Threads : pc[t] \notin {"unborn", "starting"} => context[t]
    /\ spawned < NumThreads => owner # "ready"
    /\ owner = "spawn" \/ spawned < NumThreads => task_queue = <<>> /\ started = <<>>
    /\ is_stopped <=> owner \in {"notify", "join", "gone"}

(* A task is queued once.                                                  *)
OnceInv ==
    \A k \in Tasks : caller[k] = "new" =>
        k \notin ToSet(task_queue) /\ k \notin ToSet(started)

IInv == TypeOK /\ LatchInv /\ PoolInv

-----------------------------------------------------------------------------
(* The threads at one place in the code are finitely many.                 *)
LEMMA ThreadsFinite ==
  ASSUME ThreadPoolAssumption
  PROVE  /\ IsFiniteSet(Threads) /\ Cardinality(Threads) = NumThreads
         /\ \A S \in SUBSET Threads : IsFiniteSet(S) /\ Cardinality(S) \in 0..NumThreads
<1>1. IsFiniteSet(Threads) /\ Cardinality(Threads) = NumThreads
  BY FS_Interval DEF Threads, ThreadPoolAssumption
<1>2. ASSUME NEW S \in SUBSET Threads
      PROVE  IsFiniteSet(S) /\ Cardinality(S) \in 0..NumThreads
  <2>1. IsFiniteSet(S) /\ Cardinality(S) <= NumThreads
    BY <1>1, FS_Subset
  <2>2. Cardinality(S) \in Nat
    BY <2>1, FS_CardinalityType
  <2> QED BY <2>1, <2>2 DEF ThreadPoolAssumption
<1> QED BY <1>1, <1>2

-----------------------------------------------------------------------------
(* The invariant holds initially: the latch waits for every thread.        *)
LEMMA InitEstablishes == Init => IInv
<1> SUFFICES ASSUME Init PROVE IInv
  OBVIOUS
<1>. USE ThreadPoolAssumption DEF ThreadPoolAssumption
<1>1. Uncounted = Threads /\ At("signalling") = {} /\ At("starting") = {} /\ At("counting") = {}
  BY DEF Init, Uncounted, At
<1>2. Cardinality(Uncounted) = NumThreads
  BY <1>1, ThreadsFinite
<1>3. TypeOK
  <2>1. /\ spawned \in 0..NumThreads /\ counter \in 0..NumThreads
        /\ task_queue \in Seq(Tasks) /\ started \in Seq(Tasks)
    BY DEF Init
  <2>2. /\ is_stopped \in BOOLEAN /\ crashed \in BOOLEAN
        /\ context \in [Threads -> BOOLEAN]
    BY Zenon DEF Init
  <2>3. /\ pc \in [Threads -> {"unborn", "starting", "counting", "signalling",
                               "looping", "waiting", "running", "exited"}]
        /\ task \in [Threads -> Tasks \union {None}]
        /\ \A t \in Threads : task[t] # None <=> pc[t] = "running"
        /\ caller \in [Tasks -> {"new", "notifying", "done"}]
    BY DEF Init
  <2> QED BY <2>1, <2>2, <2>3 DEF Init, TypeOK
<1>4. LatchInv
  BY <1>1, <1>2 DEF Init, LatchInv, LatchOutlivesUsers, Threads
<1>5. PoolInv
  BY DEF Init, PoolInv
<1> QED BY <1>3, <1>4, <1>5 DEF IInv

(* What a step of the constructor or of a starting thread does to the      *)
(* counter: it counts down exactly when a thread leaves the uncounted.     *)
LEMMA CountingDown ==
  ASSUME TypeOK, LatchInv, NEW t \in Threads, CountDown(t)
  PROVE  /\ counter \in 1..NumThreads
         /\ Uncounted' = Uncounted \ {t} /\ t \in Uncounted
         /\ At("signalling") = {}
         /\ counter' = counter - 1 /\ counter' = Cardinality(Uncounted')
         /\ counter' = 0 <=> Uncounted' = {}
         /\ owner = "spawn"
<1>. USE ThreadPoolAssumption DEF ThreadPoolAssumption
<1>1. pc \in [Threads -> {"unborn", "starting", "counting", "signalling",
                          "looping", "waiting", "running", "exited"}]
      /\ counter \in 0..NumThreads
  BY DEF TypeOK
<1>2. t \in Uncounted /\ owner = "spawn" /\ counter = Cardinality(Uncounted)
      /\ At("signalling") = {}
  BY <1>1 DEF CountDown, LatchInv, Uncounted, At
<1>3. Uncounted' = Uncounted \ {t} /\ counter' = counter - 1
  BY <1>1 DEF CountDown, Uncounted
<1>4. IsFiniteSet(Uncounted)
  BY ThreadsFinite DEF Uncounted
<1>5. IsFiniteSet(Uncounted') /\ Cardinality(Uncounted') = counter - 1
  BY <1>2, <1>3, <1>4, FS_RemoveElement
<1>6. Cardinality(Uncounted') \in Nat
  BY <1>5, FS_CardinalityType
<1>7. Cardinality(Uncounted') = 0 <=> Uncounted' = {}
  BY <1>5, FS_EmptySet
<1> QED BY <1>1, <1>2, <1>3, <1>5, <1>6, <1>7

(* Every step keeps the types.                                             *)
LEMMA NextTypes == ASSUME IInv, [Next]_vars PROVE TypeOK'
<1>. USE ThreadPoolAssumption DEF ThreadPoolAssumption, TypeOK, latchVars, queueVars, IInv
<1>1. CASE Spawn
  <2>1. spawned + 1 \in Threads /\ pc[spawned + 1] = "unborn"
    BY <1>1 DEF Spawn, Threads, LatchInv
  <2> QED BY <1>1, <2>1 DEF Spawn
<1>2. CASE FailSpawn
  BY <1>2 DEF FailSpawn
<1>3. CASE WaitLatch
  BY <1>3 DEF WaitLatch
<1>4. CASE SetStopped
  BY <1>4 DEF SetStopped
<1>5. CASE NotifyAll
  BY <1>5 DEF NotifyAll
<1>6. CASE Join
  BY <1>6 DEF Join
<1>7. CASE Destruct
  BY <1>7 DEF Destruct
<1>8. ASSUME NEW t \in Threads, BuildContext(t) PROVE TypeOK'
  BY <1>8 DEF BuildContext
<1>9. ASSUME NEW t \in Threads, CountDown(t) PROVE TypeOK'
  <2>1. counter \in 1..NumThreads
    BY <1>9, CountingDown
  <2> QED BY <1>9, <2>1 DEF CountDown
<1>10. ASSUME NEW t \in Threads, CountDownDead(t) PROVE TypeOK'
  BY <1>10 DEF CountDownDead
<1>11. ASSUME NEW t \in Threads, SetValue(t) PROVE TypeOK'
  BY <1>11 DEF SetValue
<1>12. ASSUME NEW t \in Threads, Sleep(t) \/ Exit(t) \/ SpuriousWakeup(t) PROVE TypeOK'
  BY <1>12 DEF Sleep, Exit, SpuriousWakeup
<1>13. ASSUME NEW t \in Threads, TakeTask(t) PROVE TypeOK'
  <2>1. Head(task_queue) \in Tasks /\ Tail(task_queue) \in Seq(Tasks)
        /\ Append(started, Head(task_queue)) \in Seq(Tasks)
    BY <1>13, PopFront DEF TakeTask
  <2> QED BY <1>13, <2>1 DEF TakeTask
<1>14. ASSUME NEW t \in Threads, FinishTask(t) PROVE TypeOK'
  BY <1>14 DEF FinishTask
<1>15. ASSUME NEW k \in Tasks, PushTask(k) PROVE TypeOK'
  BY <1>15 DEF PushTask
<1>16. ASSUME NEW k \in Tasks, NotifyOne(k) PROVE TypeOK'
  BY <1>16 DEF NotifyOne, At
<1>17. CASE UNCHANGED vars
  BY <1>17 DEF vars
<1> QED BY <1>1, <1>2, <1>3, <1>4, <1>5, <1>6, <1>7, <1>8, <1>9, <1>10, <1>11,
           <1>12, <1>13, <1>14, <1>15, <1>16, <1>17 DEF Next, Owner, Thread

(* Every step keeps the latch and the pool invariant.  A step of a thread  *)
(* that has counted down and the queue do not disturb the latch.           *)
LEMMA NextLatch == ASSUME IInv, [Next]_vars PROVE LatchInv'
<1>. USE ThreadPoolAssumption DEF ThreadPoolAssumption, latchVars, queueVars
<1>0. /\ pc \in [Threads -> {"unborn", "starting", "counting", "signalling",
                            "looping", "waiting", "running", "exited"}]
      /\ spawned \in 0..NumThreads
      /\ LatchInv
  BY DEF TypeOK, IInv
<1>1. ASSUME UNCHANGED <<owner, spawned, counter, latch>>,
             \A t \in Threads : \/ pc'[t] = pc[t]
                                \/ /\ pc[t] \notin {"unborn", "starting", "counting", "signalling"}
                                   /\ pc'[t] \notin {"unborn", "starting", "counting", "signalling"}
      PROVE  LatchInv'
  <2>1. /\ Uncounted' = Uncounted
        /\ At("signalling")' = At("signalling") /\ At("starting")' = At("starting")
        /\ At("counting")' = At("counting")
        /\ \A t \in Threads : pc'[t] = "unborn" <=> pc[t] = "unborn"
        /\ \A t \in Threads : pc'[t] = "signalling" <=> pc[t] = "signalling"
    BY <1>0, <1>1 DEF Uncounted, At
  <2> QED BY <1>0, <1>1, <2>1 DEF LatchInv, LatchOutlivesUsers
<1>2. ASSUME UNCHANGED <<pc, spawned, counter>>, owner' # "spawn", latch' = "dead",
             \/ Uncounted = {} /\ At("signalling") = {}
             \/ spawned < NumThreads /\ At("signalling") = {}
      PROVE  LatchInv'
  <2>1. Uncounted = {} => At("starting") = {} /\ At("counting") = {}
    BY DEF Uncounted, At
  <2>2. /\ Uncounted' = Uncounted /\ At("signalling")' = At("signalling")
        /\ At("starting")' = At("starting") /\ At("counting")' = At("counting")
    BY <1>2 DEF Uncounted, At
  <2>3. \A t \in Threads : pc'[t] # "signalling"
    BY <1>2 DEF At
  <2>4. LatchOutlivesUsers'
    BY <1>2, <2>1, <2>2 DEF LatchOutlivesUsers
  <2> QED BY <1>0, <1>2, <2>3, <2>4 DEF LatchInv
<1>3. CASE Spawn
  <2>1. /\ spawned + 1 \in Threads /\ spawned' = spawned + 1
        /\ pc' = [pc EXCEPT ![spawned + 1] = "starting"]
        /\ pc[spawned + 1] = "unborn" /\ latch # "dead" /\ UNCHANGED <<owner, counter, latch>>
    BY <1>0, <1>3 DEF Spawn, Threads, LatchInv
  <2>2. Uncounted' = Uncounted /\ At("signalling")' = At("signalling") /\ Uncounted # {}
    BY <1>0, <2>1 DEF Uncounted, At
  <2>3. \A t \in Threads : pc'[t] = "unborn" <=> t > spawned'
    BY <1>0, <2>1 DEF LatchInv, Threads
  <2>4. \A t \in Threads : pc'[t] = "signalling" <=> pc[t] = "signalling"
    BY <1>0, <2>1
  <2> QED BY <1>0, <2>1, <2>2, <2>3, <2>4 DEF LatchInv, LatchOutlivesUsers
<1>4. CASE FailSpawn
  <2>1. spawned + 1 \in Threads /\ pc[spawned + 1] = "unborn"
    BY <1>0, <1>4 DEF FailSpawn, Threads, LatchInv
  <2>2. At("signalling") = {}
    BY <1>0, <2>1 DEF LatchInv, Uncounted, At
  <2> QED BY <1>2, <1>4, <2>2 DEF FailSpawn
<1>5. CASE WaitLatch
  BY <1>0, <1>2, <1>5 DEF WaitLatch, LatchInv
<1>6. CASE SetStopped \/ Join \/ Destruct
  <2>1. owner # "spawn" /\ owner' # "spawn" /\ UNCHANGED <<pc, spawned, counter, latch>>
    BY <1>6 DEF SetStopped, Join, Destruct
  <2>2. Uncounted' = Uncounted /\ \A l : At(l)' = At(l)
    BY <2>1 DEF Uncounted, At
  <2> QED BY <1>0, <2>1, <2>2 DEF LatchInv, LatchOutlivesUsers
<1>7. CASE NotifyAll
  <2>1. owner # "spawn" /\ owner' # "spawn" /\ UNCHANGED <<spawned, counter, latch>>
        /\ pc' = [t \in Threads |-> IF pc[t] = "waiting" THEN "looping" ELSE pc[t]]
    BY <1>7 DEF NotifyAll
  <2>2. /\ Uncounted' = Uncounted /\ At("signalling")' = At("signalling")
        /\ At("starting")' = At("starting") /\ At("counting")' = At("counting")
        /\ \A t \in Threads : pc'[t] = "unborn" <=> pc[t] = "unborn"
        /\ \A t \in Threads : pc'[t] = "signalling" <=> pc[t] = "signalling"
    BY <1>0, <2>1 DEF Uncounted, At
  <2> QED BY <1>0, <2>1, <2>2 DEF LatchInv, LatchOutlivesUsers
<1>8. ASSUME NEW t \in Threads, BuildContext(t) PROVE LatchInv'
  <2>1. /\ pc[t] = "starting" /\ pc' = [pc EXCEPT ![t] = "counting"]
        /\ UNCHANGED <<owner, spawned, counter, latch>>
    BY <1>8 DEF BuildContext
  <2>2. /\ Uncounted' = Uncounted /\ At("signalling")' = At("signalling") /\ Uncounted # {}
        /\ t \in At("starting")
        /\ \A u \in Threads : pc'[u] = "unborn" <=> pc[u] = "unborn"
        /\ \A u \in Threads : pc'[u] = "signalling" <=> pc[u] = "signalling"
    BY <1>0, <2>1 DEF Uncounted, At
  <2> QED BY <1>0, <2>1, <2>2 DEF LatchInv, LatchOutlivesUsers
<1>9. ASSUME NEW t \in Threads, CountDown(t) PROVE LatchInv'
  <2>1. /\ Uncounted' = Uncounted \ {t} /\ t \in Uncounted /\ At("signalling") = {}
        /\ counter' = counter - 1 /\ counter' = Cardinality(Uncounted') /\ counter \in 1..NumThreads
        /\ counter' = 0 <=> Uncounted' = {}
        /\ owner = "spawn"
    BY <1>9, CountingDown DEF IInv
  <2>2. latch = "armed" /\ latch' = latch /\ owner' = owner /\ spawned' = spawned
        /\ pc' = [pc EXCEPT ![t] = IF counter = 1 THEN "signalling" ELSE "looping"]
        /\ pc[t] = "counting"
    BY <1>0, <1>9, <2>1 DEF CountDown, LatchInv, IInv, TypeOK
  <2>3. \A u \in Threads : pc'[u] = "unborn" <=> pc[u] = "unborn"
    BY <1>0, <2>2
  <2>4. \A u \in Threads : pc'[u] = "signalling" => u = t /\ counter = 1
    BY <1>0, <2>1, <2>2 DEF At
  <2>5. \A u \in Threads : pc'[u] = "signalling" =>
           latch' = "armed" /\ Uncounted' = {} /\ At("signalling")' = {u}
    BY <2>1, <2>2, <2>4 DEF At
  <2> QED BY <1>0, <2>1, <2>2, <2>3, <2>5 DEF LatchInv, LatchOutlivesUsers
<1>10. ASSUME NEW t \in Threads, CountDownDead(t) PROVE LatchInv'
  <2>1. /\ pc[t] = "counting" /\ latch = "dead" /\ owner # "spawn"
        /\ UNCHANGED <<owner, spawned, counter, latch>>
        /\ pc' = [pc EXCEPT ![t] = "looping"] \/ pc' = pc
    BY <1>0, <1>10 DEF CountDownDead, LatchInv
  <2>2. At("signalling") = {} /\ t \in At("counting")
    BY <1>0, <2>1 DEF LatchInv, At
  <2>3. spawned # NumThreads
    BY <1>0, <2>1, <2>2 DEF LatchInv, LatchOutlivesUsers
  <2>4. \A u \in Threads : (pc'[u] = "unborn" <=> pc[u] = "unborn") /\ pc'[u] # "signalling"
    BY <1>0, <2>1, <2>2 DEF At
  <2> QED BY <1>0, <2>1, <2>3, <2>4 DEF LatchInv, LatchOutlivesUsers
<1>11. ASSUME NEW t \in Threads, SetValue(t) PROVE LatchInv'
  <2>1. /\ pc[t] = "signalling" /\ pc' = [pc EXCEPT ![t] = "looping"]
        /\ latch = "armed" /\ Uncounted = {} /\ At("signalling") = {t}
        /\ latch' = "open" /\ UNCHANGED <<owner, spawned, counter>>
    BY <1>0, <1>11 DEF SetValue, LatchInv
  <2>2. Uncounted' = Uncounted /\ At("signalling")' = {}
        /\ \A u \in Threads : (pc'[u] = "unborn" <=> pc[u] = "unborn") /\ pc'[u] # "signalling"
    BY <1>0, <2>1 DEF Uncounted, At
  <2> QED BY <1>0, <2>1, <2>2 DEF LatchInv, LatchOutlivesUsers
<1>12. ASSUME NEW t \in Threads,
              Sleep(t) \/ Exit(t) \/ TakeTask(t) \/ FinishTask(t) \/ SpuriousWakeup(t)
       PROVE  LatchInv'
  BY <1>0, <1>1, <1>12 DEF Sleep, Exit, TakeTask, FinishTask, SpuriousWakeup
<1>13. ASSUME NEW k \in Tasks, PushTask(k) PROVE LatchInv'
  BY <1>1, <1>13 DEF PushTask
<1>14. ASSUME NEW k \in Tasks, NotifyOne(k) PROVE LatchInv'
  BY <1>0, <1>1, <1>14 DEF NotifyOne, At
<1>15. CASE UNCHANGED vars
  BY <1>1, <1>15 DEF vars
<1> QED BY <1>3, <1>4, <1>5, <1>6, <1>7, <1>8, <1>9, <1>10, <1>11, <1>12, <1>13,
           <1>14, <1>15 DEF Next, Owner, Thread

LEMMA NextPool == ASSUME IInv, [Next]_vars PROVE PoolInv'
<1>. USE ThreadPoolAssumption DEF ThreadPoolAssumption, latchVars, queueVars
<1>0. /\ pc \in [Threads -> {"unborn", "starting", "counting", "signalling",
                            "looping", "waiting", "running", "exited"}]
      /\ context \in [Threads -> BOOLEAN] /\ spawned \in 0..NumThreads
      /\ task_queue \in Seq(Tasks) /\ LatchInv /\ PoolInv
  BY DEF TypeOK, IInv
<1>1. ASSUME UNCHANGED <<owner, spawned, context, is_stopped>>,
             \/ UNCHANGED <<task_queue, started>>
             \/ owner # "spawn" /\ spawned = NumThreads,
             \A t \in Threads : pc[t] \in {"unborn", "starting"} => pc'[t] = pc[t]
      PROVE  PoolInv'
  BY <1>0, <1>1 DEF PoolInv
<1>2. ASSUME UNCHANGED <<pc, spawned, context, is_stopped, task_queue, started>>,
             owner' \in {"ready", "stop", "gone"}, owner' = "ready" => spawned = NumThreads,
             is_stopped <=> owner' = "gone",
             owner = "spawn" \/ spawned = NumThreads \/ owner' # "ready"
      PROVE  PoolInv'
  BY <1>0, <1>2 DEF PoolInv
<1>3. CASE Spawn
  <2>1. spawned + 1 \in Threads /\ pc[spawned + 1] = "unborn"
    BY <1>0, <1>3 DEF Spawn, Threads, LatchInv
  <2> QED BY <1>0, <1>3, <2>1 DEF Spawn, PoolInv
<1>4. CASE FailSpawn \/ WaitLatch \/ Destruct
  BY <1>0, <1>2, <1>4 DEF FailSpawn, WaitLatch, Destruct, PoolInv
<1>5. CASE SetStopped
  BY <1>0, <1>5 DEF SetStopped, PoolInv
<1>6. CASE NotifyAll
  <2>1. \A t \in Threads : pc'[t] \in {"unborn", "starting"} <=> pc[t] \in {"unborn", "starting"}
    BY <1>0, <1>6 DEF NotifyAll
  <2> QED BY <1>0, <1>6, <2>1 DEF NotifyAll, PoolInv
<1>7. CASE Join
  BY <1>0, <1>2, <1>7 DEF Join, PoolInv
<1>8. ASSUME NEW t \in Threads, BuildContext(t) PROVE PoolInv'
  BY <1>0, <1>8 DEF BuildContext, PoolInv
<1>9. ASSUME NEW t \in Threads,
             \/ CountDown(t) \/ CountDownDead(t) \/ SetValue(t) \/ Sleep(t) \/ Exit(t)
             \/ FinishTask(t) \/ SpuriousWakeup(t)
      PROVE  PoolInv'
  BY <1>0, <1>1, <1>9
     DEF CountDown, CountDownDead, SetValue, Sleep, Exit, FinishTask, SpuriousWakeup
<1>10. ASSUME NEW t \in Threads, TakeTask(t) PROVE PoolInv'
  <2>1. owner # "spawn" /\ spawned = NumThreads
    BY <1>0, <1>10 DEF TakeTask, PoolInv
  <2> QED BY <1>0, <1>1, <1>10, <2>1 DEF TakeTask
<1>11. ASSUME NEW k \in Tasks, PushTask(k) PROVE PoolInv'
  <2>1. owner # "spawn" /\ spawned = NumThreads
    BY <1>0, <1>11 DEF PushTask, PoolInv
  <2> QED BY <1>0, <1>1, <1>11, <2>1 DEF PushTask
<1>12. ASSUME NEW k \in Tasks, NotifyOne(k) PROVE PoolInv'
  BY <1>0, <1>1, <1>12 DEF NotifyOne, At
<1>13. CASE UNCHANGED vars
  BY <1>1, <1>13 DEF vars
<1> QED BY <1>3, <1>4, <1>5, <1>6, <1>7, <1>8, <1>9, <1>10, <1>11, <1>12, <1>13
        DEF Next, Owner, Thread

(* The inductive invariant.                                                *)
THEOREM Inductive == Spec => []IInv
<1>1. IInv /\ [Next]_vars => IInv'
  BY NextTypes, NextLatch, NextPool DEF IInv
<1> QED BY InitEstablishes, <1>1, PTL DEF Spec

(* The type invariant; the counter of the latch does not go below zero.    *)
THEOREM TypeCorrect == Spec => []TypeOK
<1>1. IInv => TypeOK
  BY DEF IInv
<1> QED BY <1>1, Inductive, PTL

(* get_thread_context() finds a context in every task.                     *)
THEOREM TasksHaveContexts == Spec => []ReadyMeansContexts
<1>1. IInv => ReadyMeansContexts
  <2> SUFFICES ASSUME IInv, owner = "ready" \/ started # <<>>, NEW t \in Threads
               PROVE  context[t]
    BY DEF ReadyMeansContexts
  <2>1. spawned = NumThreads /\ latch = "dead"
    BY ThreadPoolAssumption DEF IInv, TypeOK, PoolInv, LatchInv, ThreadPoolAssumption
  <2>2. pc[t] # "starting"
    BY <2>1 DEF IInv, LatchInv, LatchOutlivesUsers, At
  <2>3. pc[t] # "unborn"
    BY <2>1, ThreadPoolAssumption DEF IInv, LatchInv, Threads, ThreadPoolAssumption
  <2> QED BY <2>2, <2>3 DEF IInv, PoolInv
<1> QED BY <1>1, Inductive, PTL

(* CudaLatch may be a local of the constructor.                            *)
THEOREM LatchSafe == Spec => []LatchOutlivesUsers
<1>1. IInv => LatchOutlivesUsers
  BY DEF IInv, LatchInv
<1> QED BY <1>1, Inductive, PTL

-----------------------------------------------------------------------------
(* The callers that still have to notify.                                  *)
Notifying == {k \in Tasks : caller[k] = "notifying"}

LEMMA Counted ==
  /\ IsFiniteSet(At("looping")) /\ Cardinality(At("looping")) \in Nat
  /\ IsFiniteSet(Notifying) /\ Cardinality(Notifying) \in Nat
BY ThreadsFinite, ThreadPoolAssumption, FS_Subset, FS_CardinalityType
   DEF At, Notifying, ThreadPoolAssumption

(* A thread sleeps while nothing is queued; every task that is queued      *)
(* brings a caller that will notify, and a notification brings a thread:   *)
(* the lock is not held for notify_one, and no thread is missed.           *)
THEOREM WakeupsNotLost == Spec => []NoLostWakeup
<1>. USE ThreadPoolAssumption DEF ThreadPoolAssumption, latchVars, queueVars
<1>1. Init => NoLostWakeup
  BY DEF Init, NoLostWakeup, At
<1>2. IInv /\ NoLostWakeup /\ [Next]_vars => NoLostWakeup'
  <2> SUFFICES ASSUME IInv, NoLostWakeup, [Next]_vars PROVE NoLostWakeup'
    OBVIOUS
  <2>0. /\ pc \in [Threads -> {"unborn", "starting", "counting", "signalling",
                              "looping", "waiting", "running", "exited"}]
        /\ caller \in [Tasks -> {"new", "notifying", "done"}]
        /\ task_queue \in Seq(Tasks) /\ Len(task_queue) \in Nat
        /\ is_stopped <=> owner \in {"notify", "join", "gone"}
    BY DEF IInv, TypeOK, PoolInv
  <2> DEFINE L == Cardinality(At("looping"))
             N == Cardinality(Notifying)
  <2>c. L \in Nat /\ N \in Nat /\ IsFiniteSet(At("looping")) /\ IsFiniteSet(Notifying)
    BY Counted
  <2>n. NoLostWakeup <=>
           (At("waiting") # {} => (~is_stopped => Len(task_queue) <= L + N)
                                  /\ owner \notin {"join", "gone"})
    BY DEF NoLostWakeup, Notifying
  <2>p. NoLostWakeup' <=>
           (At("waiting")' # {} => (~is_stopped' => Len(task_queue') <= L' + N')
                                   /\ owner' \notin {"join", "gone"})
    BY DEF NoLostWakeup, Notifying
  <2> HIDE DEF L, N
  <2>1. ASSUME UNCHANGED <<pc, caller, task_queue, is_stopped>>, owner' \notin {"join", "gone"}
        PROVE  NoLostWakeup'
    BY <2>n, <2>p, <2>1 DEF At, L, N, Notifying
  <2>2. ASSUME UNCHANGED <<caller, task_queue, is_stopped, owner>>, NEW t \in Threads,
               pc[t] # "looping", NEW l, pc' = [pc EXCEPT ![t] = l], l # "waiting"
        PROVE  NoLostWakeup'
    <3>1. At("waiting")' \subseteq At("waiting") /\ Notifying' = Notifying
          /\ (At("looping")' = At("looping") \/ At("looping")' = At("looping") \cup {t})
          /\ t \notin At("looping")
      BY <2>0, <2>2 DEF At, Notifying
    <3>2. L' \in Nat /\ L' >= L /\ N' = N
      BY <2>c, <3>1, FS_AddElement DEF L, N
    <3> QED BY <2>0, <2>c, <2>n, <2>p, <2>2, <3>1, <3>2
  <2>3. CASE Spawn
    <3>1. spawned + 1 \in Threads /\ pc[spawned + 1] # "looping"
      BY <2>3 DEF Spawn, Threads, IInv, LatchInv, TypeOK
    <3> QED BY <2>2, <2>3, <3>1 DEF Spawn
  <2>4. CASE FailSpawn \/ WaitLatch \/ Destruct
    BY <2>1, <2>4 DEF FailSpawn, WaitLatch, Destruct
  <2>5. CASE SetStopped
    BY <2>n, <2>p, <2>5 DEF SetStopped, At
  <2>6. CASE NotifyAll
    <3>1. At("waiting")' = {}
      BY <2>0, <2>6 DEF NotifyAll, At
    <3> QED BY <2>p, <3>1
  <2>7. CASE Join
    <3>1. At("waiting")' = {}
      BY <2>n, <2>7 DEF Join, At
    <3> QED BY <2>p, <3>1
  <2>8. ASSUME NEW t \in Threads,
               BuildContext(t) \/ CountDown(t) \/ SetValue(t) \/ FinishTask(t) \/ SpuriousWakeup(t)
        PROVE  NoLostWakeup'
    BY <2>2, <2>8 DEF BuildContext, CountDown, SetValue, FinishTask, SpuriousWakeup
  <2>9. ASSUME NEW t \in Threads, CountDownDead(t) PROVE NoLostWakeup'
    <3>1. CASE pc' = pc
      BY <2>n, <2>p, <2>9, <3>1 DEF CountDownDead, At, L, N, Notifying
    <3>2. CASE pc' = [pc EXCEPT ![t] = "looping"]
      BY <2>2, <2>9, <3>2 DEF CountDownDead
    <3> QED BY <2>9, <3>1, <3>2 DEF CountDownDead
  <2>10. ASSUME NEW t \in Threads, Sleep(t) PROVE NoLostWakeup'
    <3>1. At("looping")' = At("looping") \ {t} /\ t \in At("looping") /\ Notifying' = Notifying
      BY <2>0, <2>10 DEF Sleep, At, Notifying
    <3>2. L' = L - 1 /\ N' = N /\ L >= 1
      <4>1. L # 0
        BY <2>c, <3>1, FS_EmptySet DEF L
      <4>2. L' = L - 1 /\ N' = N
        BY <2>c, <3>1, FS_RemoveElement DEF L, N
      <4> QED BY <2>c, <4>1, <4>2
    <3>3. Len(task_queue') = 0 /\ owner' \notin {"join", "gone"}
      BY <2>0, <2>10 DEF Sleep
    <3> QED BY <2>c, <2>p, <3>2, <3>3
  <2>11. ASSUME NEW t \in Threads, Exit(t) PROVE NoLostWakeup'
    <3>1. At("waiting")' = At("waiting")
      BY <2>0, <2>11 DEF Exit, At
    <3> QED BY <2>n, <2>p, <2>11, <3>1 DEF Exit
  <2>12. ASSUME NEW t \in Threads, TakeTask(t) PROVE NoLostWakeup'
    <3>1. /\ At("looping")' = At("looping") \ {t} /\ t \in At("looping")
          /\ At("waiting")' = At("waiting") /\ Notifying' = Notifying
      BY <2>0, <2>12 DEF TakeTask, At, Notifying
    <3>2. L' = L - 1 /\ N' = N
      BY <2>c, <3>1, FS_RemoveElement DEF L, N
    <3>3. Len(task_queue') = Len(task_queue) - 1
      BY <2>0, <2>12, PopFront DEF TakeTask
    <3> QED BY <2>0, <2>c, <2>n, <2>p, <2>12, <3>1, <3>2, <3>3 DEF TakeTask
  <2>13. ASSUME NEW k \in Tasks, PushTask(k) PROVE NoLostWakeup'
    <3>1. /\ Notifying' = Notifying \cup {k} /\ k \notin Notifying
          /\ At("waiting")' = At("waiting") /\ At("looping")' = At("looping")
      BY <2>0, <2>13 DEF PushTask, At, Notifying
    <3>2. L' = L /\ N' = N + 1
      BY <2>c, <3>1, FS_AddElement DEF L, N
    <3>3. Len(task_queue') = Len(task_queue) + 1
      BY <2>0, <2>13 DEF PushTask
    <3> QED BY <2>0, <2>c, <2>n, <2>p, <2>13, <3>1, <3>2, <3>3 DEF PushTask
  <2>14. ASSUME NEW k \in Tasks, NotifyOne(k) PROVE NoLostWakeup'
    <3>1. Notifying' = Notifying \ {k} /\ k \in Notifying
      BY <2>0, <2>14 DEF NotifyOne, Notifying
    <3>2. N' = N - 1
      BY <2>c, <3>1, FS_RemoveElement DEF N
    <3>3. CASE At("waiting") = {} /\ UNCHANGED pc
      <4>1. At("waiting")' = {}
        BY <3>3 DEF At
      <4> QED BY <2>p, <4>1
    <3>4. ASSUME NEW t \in At("waiting"), pc' = [pc EXCEPT ![t] = "looping"]
          PROVE  NoLostWakeup'
      <4>1. At("looping")' = At("looping") \cup {t} /\ t \notin At("looping")
        BY <2>0, <3>4 DEF At
      <4>2. L' = L + 1
        BY <2>c, <4>1, FS_AddElement DEF L
      <4>3. At("waiting") # {}
        BY <3>4
      <4> QED BY <2>0, <2>c, <2>n, <2>p, <2>14, <3>2, <4>2, <4>3 DEF NotifyOne
    <3> QED BY <2>14, <3>3, <3>4 DEF NotifyOne
  <2>15. CASE UNCHANGED vars
    BY <2>n, <2>p, <2>15 DEF vars, At, L, N, Notifying
  <2> QED BY <2>3, <2>4, <2>5, <2>6, <2>7, <2>8, <2>9, <2>10, <2>11, <2>12, <2>13,
             <2>14, <2>15 DEF Next, Owner, Thread
<1> QED BY <1>1, <1>2, Inductive, PTL DEF Spec

-----------------------------------------------------------------------------
(* Every step of the pool is a step of TaskExecutor, or invisible to those *)
(* who submit tasks: the safety part of ImplementsTaskExecutor.            *)
THEOREM ExecutesAsPromised == Spec => Executor!Init /\ [][Executor!Next]_(Executor!vars)
<1>. USE ThreadPoolAssumption DEF ThreadPoolAssumption, latchVars, queueVars
<1>1. Init => Executor!Init /\ OnceInv
  BY DEF Init, Executor!Init, OnceInv, ToSet
<1>2. IInv /\ OnceInv /\ [Next]_vars => OnceInv' /\ [Executor!Next]_(Executor!vars)
  <2> SUFFICES ASSUME IInv, OnceInv, [Next]_vars
               PROVE  OnceInv' /\ [Executor!Next]_(Executor!vars)
    OBVIOUS
  <2>0. /\ task_queue \in Seq(Tasks) /\ started \in Seq(Tasks)
        /\ caller \in [Tasks -> {"new", "notifying", "done"}]
        /\ is_stopped <=> owner \in {"notify", "join", "gone"}
    BY DEF IInv, TypeOK, PoolInv
  <2>1. ASSUME UNCHANGED <<caller, task_queue, started, is_stopped>>
        PROVE  OnceInv' /\ [Executor!Next]_(Executor!vars)
    BY <2>1 DEF OnceInv, Executor!vars
  <2>2. CASE Spawn \/ FailSpawn \/ WaitLatch \/ NotifyAll \/ Join \/ Destruct
    BY <2>1, <2>2 DEF Spawn, FailSpawn, WaitLatch, NotifyAll, Join, Destruct
  <2>3. CASE SetStopped
    <3>1. ~is_stopped /\ is_stopped' /\ UNCHANGED <<caller, task_queue, started>>
      BY <2>0, <2>3 DEF SetStopped
    <3>2. Executor!Shutdown
      BY <3>1, Zenon DEF Executor!Shutdown
    <3> QED BY <3>1, <3>2 DEF OnceInv, Executor!Next
  <2>4. ASSUME NEW t \in Threads,
               \/ BuildContext(t) \/ CountDown(t) \/ CountDownDead(t) \/ SetValue(t)
               \/ Sleep(t) \/ Exit(t) \/ FinishTask(t) \/ SpuriousWakeup(t)
        PROVE  OnceInv' /\ [Executor!Next]_(Executor!vars)
    BY <2>1, <2>4 DEF BuildContext, CountDown, CountDownDead, SetValue, Sleep, Exit,
                      FinishTask, SpuriousWakeup
  <2>5. ASSUME NEW t \in Threads, TakeTask(t)
        PROVE  OnceInv' /\ [Executor!Next]_(Executor!vars)
    <3>1. /\ ~is_stopped /\ task_queue # <<>> /\ task_queue' = Tail(task_queue)
          /\ started' = Append(started, Head(task_queue))
          /\ UNCHANGED <<caller, is_stopped>>
      BY <2>5 DEF TakeTask
    <3>2. /\ Head(task_queue) \in Tasks /\ Head(task_queue) \in ToSet(task_queue)
          /\ ToSet(task_queue') \subseteq ToSet(task_queue)
          /\ ToSet(started') = ToSet(started) \cup {Head(task_queue)}
      BY <2>0, <3>1, PopFront, PushedBack
    <3>3. Executor!Start
      BY <3>1, <3>2, Zenon DEF Executor!Start
    <3>4. OnceInv'
      BY <3>1, <3>2 DEF OnceInv
    <3> QED BY <3>3, <3>4 DEF Executor!Next
  <2>6. ASSUME NEW k \in Tasks, PushTask(k)
        PROVE  OnceInv' /\ [Executor!Next]_(Executor!vars)
    <3>1. /\ caller[k] = "new" /\ task_queue' = Append(task_queue, k)
          /\ caller' = [caller EXCEPT ![k] = "notifying"]
          /\ UNCHANGED <<started, is_stopped>>
      BY <2>6 DEF PushTask
    <3>2. k \notin ToSet(started) /\ k \notin ToSet(task_queue)
      BY <3>1 DEF OnceInv
    <3>3. ToSet(task_queue') = ToSet(task_queue) \cup {k}
      BY <2>0, <3>1, PushedBack
    <3>4. \A i \in 1..Len(task_queue) : task_queue[i] # k
      BY <2>0, <3>2 DEF ToSet
    <3>5. Executor!Run(k)
      BY <3>1, <3>2, <3>4 DEF Executor!Run
    <3>6. OnceInv'
      BY <2>0, <3>1, <3>3 DEF OnceInv
    <3> QED BY <3>5, <3>6 DEF Executor!Next
  <2>7. ASSUME NEW k \in Tasks, NotifyOne(k)
        PROVE  OnceInv' /\ [Executor!Next]_(Executor!vars)
    BY <2>0, <2>7 DEF NotifyOne, OnceInv, Executor!vars
  <2>8. CASE UNCHANGED vars
    BY <2>1, <2>8 DEF vars
  <2> QED BY <2>2, <2>3, <2>4, <2>5, <2>6, <2>7, <2>8 DEF Next, Owner, Thread
<1> QED BY <1>1, <1>2, Inductive, PTL DEF Spec
=============================================================================
