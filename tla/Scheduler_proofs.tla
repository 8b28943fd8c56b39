-------------------------- MODULE Scheduler_proofs --------------------------
(***************************************************************************)
(* Proofs about Scheduler, for all requests and models, every capacity of  *)
(* the queue and of the loaded models, and any number of stops.            *)
(***************************************************************************)
EXTENDS Scheduler, FiniteSetTheorems, TLAPS

-----------------------------------------------------------------------------
(* What the operations on a queue do to its elements.                      *)

(* push_back and emplace_back add one element at the end.                  *)
LEMMA PushedBack ==
  ASSUME NEW S, NEW s \in Seq(S), NEW x \in S
  PROVE  /\ Append(s, x) \in Seq(S)
         /\ Len(Append(s, x)) = Len(s) + 1 /\ Append(s, x) # <<>>
         /\ ToSet(Append(s, x)) = ToSet(s) \cup {x}
         /\ IsInjective(s) /\ x \notin ToSet(s) => IsInjective(Append(s, x))
<1>1. Len(s) \in Nat
  OBVIOUS
<1>2. /\ Append(s, x) \in Seq(S) /\ Len(Append(s, x)) = Len(s) + 1
      /\ Append(s, x)[Len(s) + 1] = x
      /\ \A i \in 1..Len(s) : Append(s, x)[i] = s[i]
  OBVIOUS
<1>3. 1..(Len(s) + 1) = (1..Len(s)) \cup {Len(s) + 1} /\ Len(s) + 1 \notin 1..Len(s)
  BY <1>1
<1>4. DOMAIN s = 1..Len(s) /\ DOMAIN Append(s, x) = 1..(Len(s) + 1)
  BY <1>2
<1>5. Append(s, x) # <<>>
  BY <1>1, <1>2
<1> QED BY <1>1, <1>2, <1>3, <1>4, <1>5 DEF ToSet, IsInjective

(* deque::front and pop_front.                                             *)
LEMMA PopFront ==
  ASSUME NEW S, NEW s \in Seq(S), s # <<>>
  PROVE  /\ Head(s) \in S /\ Tail(s) \in Seq(S)
         /\ Head(s) \in ToSet(s)
         /\ Len(Tail(s)) = Len(s) - 1
         /\ ToSet(Tail(s)) \subseteq ToSet(s)
         /\ IsInjective(s) => IsInjective(Tail(s)) /\ ToSet(Tail(s)) = ToSet(s) \ {Head(s)}
<1>1. Len(s) \in Nat \ {0} /\ Head(s) = s[1] /\ DOMAIN s = 1..Len(s)
  OBVIOUS
<1>2. /\ Tail(s) \in Seq(S) /\ DOMAIN Tail(s) = 1..Len(s) - 1 /\ Len(Tail(s)) = Len(s) - 1
      /\ \A i \in 1..Len(s) - 1 : Tail(s)[i] = s[i + 1]
  OBVIOUS
<1>3. Head(s) \in S /\ Head(s) \in ToSet(s)
  BY <1>1 DEF ToSet
<1>4. ToSet(Tail(s)) \subseteq ToSet(s)
  <2>1. \A i \in 1..Len(s) - 1 : i + 1 \in 1..Len(s)
    BY <1>1
  <2> QED BY <1>1, <1>2, <2>1 DEF ToSet
<1>5. ASSUME IsInjective(s)
      PROVE  IsInjective(Tail(s)) /\ ToSet(Tail(s)) = ToSet(s) \ {Head(s)}
  <2>1. \A i, j \in 1..Len(s) : s[i] = s[j] => i = j
    BY <1>1, <1>5 DEF IsInjective
  <2>2. \A i \in 1..Len(s) - 1 : i + 1 \in 1..Len(s) /\ i + 1 # 1
    BY <1>1
  <2>3. ASSUME NEW i \in 1..Len(s) - 1, NEW j \in 1..Len(s) - 1, Tail(s)[i] = Tail(s)[j]
        PROVE  i = j
    <3>1. i + 1 = j + 1
      BY <1>2, <2>1, <2>2, <2>3
    <3> QED BY <3>1
  <2>4. IsInjective(Tail(s))
    BY <1>2, <2>3 DEF IsInjective
  <2>5. ASSUME NEW x \in ToSet(Tail(s)) PROVE x \in ToSet(s) /\ x # Head(s)
    <3>1. PICK i \in 1..Len(s) - 1 : x = s[i + 1]
      BY <1>2 DEF ToSet
    <3>2. x \in ToSet(s)
      BY <1>1, <2>2, <3>1 DEF ToSet
    <3>3. 1 \in 1..Len(s)
      BY <1>1
    <3> QED BY <1>1, <2>1, <2>2, <3>1, <3>2, <3>3
  <2>6. ASSUME NEW x \in ToSet(s), x # Head(s) PROVE x \in ToSet(Tail(s))
    <3>1. PICK i \in 1..Len(s) : x = s[i]
      BY <1>1 DEF ToSet
    <3>2. i # 1
      BY <1>1, <2>6, <3>1
    <3>3. i - 1 \in 1..Len(s) - 1 /\ (i - 1) + 1 = i
      BY <1>1, <3>2
    <3>4. x = Tail(s)[i - 1]
      BY <1>2, <3>1, <3>3
    <3> QED BY <1>2, <3>3, <3>4 DEF ToSet
  <2> QED BY <2>4, <2>5, <2>6
<1> QED BY <1>2, <1>3, <1>4, <1>5

-----------------------------------------------------------------------------
(* The parts of TypeOK.                                                    *)
RequestTypes ==
    /\ model \in [Requests -> Models]
    /\ st \in [Requests -> {"new", "queued", "scheduling", "resched", "loading", "using",
                            "finishing", "done", "error", "dropped"}]
    /\ cancelled \in [Requests -> BOOLEAN] /\ holds \in [Requests -> Runners \union {None}]
    /\ pendingReqCh \in Seq(Requests) /\ finishedReqCh \in Seq(Requests)
RunnerTypes ==
    /\ max_runners \in Limits
    /\ expiredCh \in Seq(Runners) /\ unloadedCh \in Nat
    /\ loaded \in [Models -> Runners \union {None}]
    /\ server \in [Runners -> {"none", "loading", "running", "failed", "closed"}]
    /\ sessionDuration \in [Runners -> Durations]
    /\ expireTimer \in [Runners -> {"nil", "armed", "fired"}]
    /\ stopping \in Runners \union {None} /\ stops \in 0..MaxStops
    /\ crashed \in BOOLEAN /\ tainted \in BOOLEAN
CountTypes ==
    /\ refCount \in [Runners -> 0..RefMod - 1]
    /\ callbacks \in [Runners -> Nat] /\ retries \in [Runners -> Nat]
LoopTypes ==
    /\ pp \in {"idle", "lookup", "check", "use", "filter", "measure", "measure_busy",
               "load", "find", "pick", "expire", "wait"}
    /\ preq \in Requests \union {None} /\ prun \in Runners \union {None}
    /\ pp = "idle" <=> preq = None
    /\ plist \in Seq(Runners)
    /\ cp \in {"idle", "finish", "unload", "converge"}
    /\ creq \in Requests \union {None} /\ crun \in Runners \union {None}
    /\ (cp = "finish" <=> creq # None) /\ (cp \in {"finish", "unload"} <=> crun # None)
Types == RequestTypes /\ RunnerTypes /\ CountTypes /\ LoopTypes

(* A runner that was loaded, whatever became of it.                        *)
Born(r) == server[r] # "none"

(* Every runner that an event, a timer or a goroutine knows was loaded.    *)
EventsBorn == \A r \in ToSet(expiredCh) : Born(r)
TimersBorn ==
    /\ \A r \in Runners : retries[r] > 0 => Born(r)
    /\ \A r \in Runners : callbacks[r] > 0 => Born(r)
    /\ \A r \in Runners : expireTimer[r] = "armed" => Born(r)
NamesBorn ==
    /\ \A m \in Models : loaded[m] # None => Born(loaded[m])
    /\ \A q \in Requests : holds[q] # None => Born(holds[q])
    /\ \A r \in ToSet(plist) : Born(r)
    /\ prun # None => Born(prun)
    /\ crun # None => Born(crun)
    /\ stopping # None => Born(stopping)

(* What processPending knows at each place of its loop.                    *)
PendingInv ==
    /\ pp \in {"check", "use", "pick", "expire"} => prun # None
    /\ pp \in {"check", "use"} => model[prun] = model[preq]
    /\ pp \in {"load", "filter", "measure", "measure_busy"} => loaded[model[preq]] = None

(* Where a request is agrees with the queues and the loops, ...            *)
PlacesInv ==
    /\ IsInjective(pendingReqCh) /\ \A q \in ToSet(pendingReqCh) : st[q] = "queued"
    /\ preq # None => st[preq] = "scheduling"
    /\ IsInjective(finishedReqCh) /\ \A q \in ToSet(finishedReqCh) : st[q] = "finishing"
    /\ creq # None => st[creq] = "finishing" /\ creq \notin ToSet(finishedReqCh)

(* ... and with the server it loads.                                       *)
ServerInv ==
    /\ \A q \in Requests :
          st[q] \in {"new", "queued", "scheduling", "resched"} => server[q] = "none"
    /\ \A q \in Requests : st[q] = "loading" <=> server[q] = "loading"
    /\ \A q \in Requests : st[q] = "loading" => holds[q] = q
    /\ cp = "unload" => server[crun] # "loading"

(* The map is keyed by the model of its runners.                           *)
MapInv ==
    /\ ServersAreLoaded
    /\ \A m \in Models : loaded[m] # None => model[loaded[m]] = m
    /\ \A q \in Requests : holds[q] # None => model[holds[q]] = model[q]

(* While nobody was given a closed runner, users keep their runner open:   *)
(* it is counted for them, and unloaded only when nobody is counted.       *)
Using == {"loading", "using", "finishing"}
UsersCounted == \A r \in Runners : Open(r) => refCount[r] = Cardinality(Users(r))
HeldOpen == \A q \in Requests : st[q] \in Using => holds[q] # None /\ Open(holds[q])
Releasing ==
    /\ cp = "finish" => crun = holds[creq]
    /\ cp = "unload" /\ Open(crun) => refCount[crun] = 0
Counted == UsersCounted /\ HeldOpen /\ Releasing
CountInv == ~tainted => Counted

-----------------------------------------------------------------------------
(* refCount does not wrap between zero and the number of requests.         *)
LEMMA CountUp == ASSUME NEW n \in Nat, NEW k \in Nat, n + 1 < k PROVE (n + 1) % k = n + 1
  OBVIOUS
LEMMA CountDown ==
  ASSUME NEW n \in Nat \ {0}, NEW k \in Nat, n < k PROVE (n + k - 1) % k = n - 1
  OBVIOUS
LEMMA Wraps ==
  ASSUME NEW k \in Nat \ {0}, NEW n \in 0..k - 1
  PROVE  (n + 1) % k \in 0..k - 1 /\ (n + k - 1) % k \in 0..k - 1
  OBVIOUS

(* There are more values of refCount than requests.                        *)
LEMMA Modulus ==
  ASSUME SchedulerAssumption
  PROVE  RefMod \in Nat /\ (Requests # {} => RefMod > 1)
<1>1. Cardinality(Requests) \in Nat /\ (Cardinality(Requests) = 0 <=> Requests = {})
  BY FS_CardinalityType, FS_EmptySet DEF SchedulerAssumption
<1> QED BY <1>1 DEF SchedulerAssumption

LEMMA Split == TypeOK <=> Types
  BY DEF TypeOK, Types, RequestTypes, RunnerTypes, CountTypes, LoopTypes

(* The requests keep their types.                                          *)
LEMMA RequestTypesStep ==
  ASSUME SchedulerAssumption, Types, PendingInv, [Next]_vars
  PROVE  RequestTypes'
<1>. USE DEF Types, RequestTypes, LoopTypes, PendingInv, Runners, SchedulerAssumption
<1>1. CASE UNCHANGED vars \/ IgnoreUnloaded \/ LookUp \/ NeedsReload \/ FilterGPUs \/
          UpdateFreeSpace \/ FindRunner \/ PickRunner \/ ExpireToMakeRoom \/ WaitUnloaded \/
          TakeExpired \/ Unload \/ UnloadTwice \/ SendUnloaded \/ StopRunner \/
          (\E m \in Models : StopModel(m)) \/ (\E r \in Runners : TimerFires(r)) \/
          (\E r \in Runners : TimerCallback(r)) \/ (\E r \in Runners : RetryExpired(r))
  <2>1. UNCHANGED <<model, st, cancelled, holds, pendingReqCh, finishedReqCh>>
    BY <1>1 DEF vars, fixed, requestVars, IgnoreUnloaded, LookUp, NeedsReload, FilterGPUs,
           UpdateFreeSpace, FindRunner, PickRunner, ExpireToMakeRoom, WaitUnloaded,
           TakeExpired, Unload, UnloadTwice, SendUnloaded, StopRunner, StopModel,
           TimerFires, TimerCallback, RetryExpired
  <2> QED BY <2>1 DEF RequestTypes
<1>2. CASE TakePending
  <2>1. Head(pendingReqCh) \in Requests /\ Tail(pendingReqCh) \in Seq(Requests)
    BY <1>2 DEF TakePending
  <2>2. \E s \in {"dropped", "scheduling"} : st' = [st EXCEPT ![Head(pendingReqCh)] = s]
    BY <1>2 DEF TakePending
  <2>3. st' \in [Requests -> {"new", "queued", "scheduling", "resched", "loading", "using",
                             "finishing", "done", "error", "dropped"}]
    BY <2>1, <2>2
  <2> QED BY <1>2, <2>1, <2>3 DEF TakePending, fixed
<1>3. CASE UseLoadedRunner
  BY <1>3 DEF UseLoadedRunner, fixed
<1>4. CASE PickBestFit
  BY <1>4 DEF PickBestFit, fixed
<1>5. CASE Load
  BY <1>5 DEF Load, fixed
<1>6. CASE FailLoad
  BY <1>6 DEF FailLoad, fixed
<1>7. CASE TakeFinished
  BY <1>7 DEF TakeFinished, fixed
<1>8. CASE ReleaseRunner
  BY <1>8 DEF ReleaseRunner, fixed
<1>9. ASSUME NEW q \in Requests, GetRunner(q) PROVE RequestTypes'
  <2>1. \E s \in {"queued", "error"} : st' = [st EXCEPT ![q] = s]
    BY <1>9 DEF GetRunner
  <2>2. pendingReqCh' \in Seq(Requests)
    <3>1. pendingReqCh' \in {pendingReqCh, Append(pendingReqCh, q)}
      BY <1>9 DEF GetRunner
    <3>2. Append(pendingReqCh, q) \in Seq(Requests)
      BY PushedBack
    <3> QED BY <3>1, <3>2
  <2>3. st' \in [Requests -> {"new", "queued", "scheduling", "resched", "loading", "using",
                             "finishing", "done", "error", "dropped"}]
    BY <2>1
  <2> QED BY <1>9, <2>2, <2>3 DEF GetRunner, fixed
<1>10. ASSUME NEW q \in Requests, Cancel(q) PROVE RequestTypes'
  BY <1>10 DEF Cancel, fixed
<1>11. ASSUME NEW q \in Requests, FinishRequest(q) PROVE RequestTypes'
  BY <1>11 DEF FinishRequest, fixed
<1>12. ASSUME NEW q \in Requests, Reschedule(q) PROVE RequestTypes'
  BY <1>12 DEF Reschedule, fixed
<1>13. ASSUME NEW r \in Runners, LoadOk(r) PROVE RequestTypes'
  BY <1>13 DEF LoadOk, fixed
<1>14. ASSUME NEW r \in Runners, LoadFail(r) PROVE RequestTypes'
  BY <1>14 DEF LoadFail, fixed
<1> QED
  BY <1>1, <1>2, <1>3, <1>4, <1>5, <1>6, <1>7, <1>8, <1>9, <1>10, <1>11, <1>12, <1>13, <1>14
     DEF Next, ProcessPending, ProcessCompleted, Others

(* So do the runners, ...                                                  *)
LEMMA RunnerTypesStep ==
  ASSUME SchedulerAssumption, Types, PendingInv, [Next]_vars
  PROVE  RunnerTypes'
<1>. USE DEF Types, RequestTypes, RunnerTypes, LoopTypes, Durations, PendingInv, Runners, SchedulerAssumption
<1>1. CASE UNCHANGED vars \/ TakePending \/ LookUp \/ NeedsReload \/ FilterGPUs \/
          UpdateFreeSpace \/ PickBestFit \/ FailLoad \/ FindRunner \/ PickRunner \/
          TakeFinished \/ (\E q \in Requests : GetRunner(q)) \/
          (\E q \in Requests : Cancel(q)) \/ (\E q \in Requests : FinishRequest(q)) \/
          (\E q \in Requests : Reschedule(q))
  <2>1. UNCHANGED <<max_runners, expiredCh, unloadedCh, loaded, server, sessionDuration, expireTimer, stopping,
                    stops, crashed, tainted>>
    BY <1>1 DEF vars, fixed, runnerVars, stopVars, TakePending, LookUp, NeedsReload,
           FilterGPUs, UpdateFreeSpace, PickBestFit, FailLoad, FindRunner, PickRunner,
           TakeFinished, GetRunner, Cancel, FinishRequest, Reschedule
  <2> QED BY <2>1 DEF RunnerTypes
<1>2. CASE IgnoreUnloaded
  BY <1>2 DEF IgnoreUnloaded, fixed, runnerVars, stopVars, Expired
<1>3. CASE UseLoadedRunner
  BY <1>3 DEF UseLoadedRunner, fixed, stopVars, Expired
<1>4. CASE Load
  BY <1>4 DEF Load, fixed, stopVars, Expired
<1>5. CASE ExpireToMakeRoom
  BY <1>5 DEF ExpireToMakeRoom, fixed, stopVars, Expired
<1>6. CASE WaitUnloaded
  BY <1>6 DEF WaitUnloaded, fixed, runnerVars, stopVars, Expired
<1>7. CASE ReleaseRunner
  BY <1>7 DEF ReleaseRunner, fixed, stopVars, Expired
<1>8. CASE TakeExpired
  BY <1>8 DEF TakeExpired, fixed, runnerVars, stopVars, Expired
<1>9. CASE Unload
  BY <1>9 DEF Unload, fixed, stopVars, Expired
<1>10. CASE UnloadTwice
  BY <1>10 DEF UnloadTwice, fixed, runnerVars, stopVars, Expired
<1>11. CASE SendUnloaded
  BY <1>11 DEF SendUnloaded, fixed, runnerVars, stopVars, Expired
<1>12. CASE StopRunner
  BY <1>12 DEF StopRunner, fixed, Expired
<1>13. ASSUME NEW m \in Models, StopModel(m) PROVE RunnerTypes'
  BY <1>13 DEF StopModel, fixed, runnerVars, Expired
<1>14. ASSUME NEW r \in Runners, LoadOk(r) PROVE RunnerTypes'
  BY <1>14 DEF LoadOk, fixed, stopVars, Expired
<1>15. ASSUME NEW r \in Runners, LoadFail(r) PROVE RunnerTypes'
  BY <1>15 DEF LoadFail, fixed, stopVars, Expired
<1>16. ASSUME NEW r \in Runners, TimerFires(r) PROVE RunnerTypes'
  BY <1>16 DEF TimerFires, fixed, stopVars, Expired
<1>17. ASSUME NEW r \in Runners, TimerCallback(r) PROVE RunnerTypes'
  BY <1>17 DEF TimerCallback, fixed, stopVars, Expired
<1>18. ASSUME NEW r \in Runners, RetryExpired(r) PROVE RunnerTypes'
  BY <1>18 DEF RetryExpired, fixed, runnerVars, stopVars, Expired
<1> QED
  BY <1>1, <1>2, <1>3, <1>4, <1>5, <1>6, <1>7, <1>8, <1>9, <1>10, <1>11, <1>12, <1>13,
     <1>14, <1>15, <1>16, <1>17, <1>18
     DEF Next, ProcessPending, ProcessCompleted, Others

(* ... their counts, ...                                                   *)
LEMMA CountTypesStep ==
  ASSUME SchedulerAssumption, Types, PendingInv, [Next]_vars
  PROVE  CountTypes'
<1>1. CASE UNCHANGED vars \/ TakePending \/ IgnoreUnloaded \/ LookUp \/ NeedsReload \/
          FilterGPUs \/ UpdateFreeSpace \/ PickBestFit \/ FailLoad \/ FindRunner \/
          PickRunner \/ ExpireToMakeRoom \/ WaitUnloaded \/ TakeFinished \/ Unload \/
          UnloadTwice \/ SendUnloaded \/ StopRunner \/ (\E q \in Requests : GetRunner(q)) \/
          (\E q \in Requests : Cancel(q)) \/ (\E q \in Requests : FinishRequest(q)) \/
          (\E q \in Requests : Reschedule(q)) \/ (\E m \in Models : StopModel(m)) \/
          (\E r \in Runners : LoadOk(r))
  <2>1. UNCHANGED <<refCount, callbacks, retries>>
    BY <1>1 DEF vars, runnerVars, TakePending, IgnoreUnloaded, LookUp, NeedsReload,
           FilterGPUs, UpdateFreeSpace, PickBestFit, FailLoad, FindRunner, PickRunner,
           ExpireToMakeRoom, WaitUnloaded, TakeFinished, Unload, UnloadTwice, SendUnloaded,
           StopRunner, GetRunner, Cancel, FinishRequest, Reschedule, StopModel, LoadOk
  <2> QED BY <2>1 DEF Types, CountTypes
<1>2. CASE UseLoadedRunner
  <2>1. prun \in Runners /\ refCount[prun] \in 0..RefMod - 1 /\ RefMod \in Nat \ {0}
    BY <1>2, Modulus DEF UseLoadedRunner, Types, CountTypes, LoopTypes, PendingInv, Runners
  <2>2. (refCount[prun] + 1) % RefMod \in 0..RefMod - 1
    BY ONLY <2>1, Wraps
  <2>3. /\ refCount' = [refCount EXCEPT ![prun] = (refCount[prun] + 1) % RefMod]
        /\ UNCHANGED <<callbacks, retries>>
    BY <1>2 DEF UseLoadedRunner
  <2> QED BY <2>1, <2>2, <2>3 DEF Types, CountTypes
<1>3. CASE Load
  <2>1. preq \in Runners /\ refCount[preq] \in 0..RefMod - 1 /\ RefMod \in Nat \ {0}
    BY <1>3, Modulus DEF Load, Types, CountTypes, LoopTypes, PendingInv, Runners
  <2>2. 1 \in 0..RefMod - 1
    BY <2>1, Modulus DEF Runners
  <2>3. /\ refCount' = [refCount EXCEPT ![preq] = 1]
        /\ UNCHANGED <<callbacks, retries>>
    BY <1>3 DEF Load
  <2> QED BY <2>1, <2>2, <2>3 DEF Types, CountTypes
<1>4. CASE ReleaseRunner
  <2>1. crun \in Runners /\ refCount[crun] \in 0..RefMod - 1 /\ RefMod \in Nat \ {0}
    BY <1>4, Modulus DEF ReleaseRunner, Types, CountTypes, LoopTypes, PendingInv, Runners
  <2>2. (refCount[crun] + RefMod - 1) % RefMod \in 0..RefMod - 1
    BY ONLY <2>1, Wraps
  <2>3. /\ refCount' = [refCount EXCEPT ![crun] = (refCount[crun] + RefMod - 1) % RefMod]
        /\ UNCHANGED <<callbacks, retries>>
    BY <1>4 DEF ReleaseRunner, Decremented
  <2> QED BY <2>1, <2>2, <2>3 DEF Types, CountTypes
<1>5. CASE TakeExpired
  <2>1. Head(expiredCh) \in Runners
    BY <1>5 DEF TakeExpired, Types, RunnerTypes
  <2>2. retries[Head(expiredCh)] + 1 \in Nat
    BY <2>1 DEF Types, CountTypes
  <2>3. /\ \/ retries' = [retries EXCEPT ![Head(expiredCh)] = retries[Head(expiredCh)] + 1]
           \/ retries' = retries
        /\ UNCHANGED <<refCount, callbacks>>
    BY <1>5 DEF TakeExpired, runnerVars
  <2> QED BY <2>1, <2>2, <2>3 DEF Types, CountTypes
<1>6. ASSUME NEW r \in Runners, LoadFail(r) PROVE CountTypes'
  <2>1. r \in Runners /\ refCount[r] \in 0..RefMod - 1 /\ RefMod \in Nat \ {0}
    BY <1>6, Modulus DEF LoadFail, Types, CountTypes, LoopTypes, PendingInv, Runners
  <2>2. (refCount[r] + RefMod - 1) % RefMod \in 0..RefMod - 1
    BY ONLY <2>1, Wraps
  <2>3. /\ refCount' = [refCount EXCEPT ![r] = (refCount[r] + RefMod - 1) % RefMod]
        /\ UNCHANGED <<callbacks, retries>>
    BY <1>6 DEF LoadFail, Decremented
  <2> QED BY <2>1, <2>2, <2>3 DEF Types, CountTypes
<1>7. ASSUME NEW r \in Runners, TimerFires(r) PROVE CountTypes'
  <2>1. /\ callbacks' = [callbacks EXCEPT ![r] = callbacks[r] + 1]
        /\ UNCHANGED <<refCount, retries>>
    BY <1>7 DEF TimerFires
  <2>2. callbacks[r] + 1 \in Nat
    BY <2>1 DEF Types, CountTypes
  <2> QED BY <2>1, <2>2 DEF Types, CountTypes
<1>8. ASSUME NEW r \in Runners, TimerCallback(r) PROVE CountTypes'
  <2>1. /\ callbacks[r] > 0 /\ callbacks' = [callbacks EXCEPT ![r] = callbacks[r] - 1]
        /\ UNCHANGED <<refCount, retries>>
    BY <1>8 DEF TimerCallback
  <2>2. callbacks[r] - 1 \in Nat
    BY <2>1 DEF Types, CountTypes
  <2> QED BY <2>1, <2>2 DEF Types, CountTypes
<1>9. ASSUME NEW r \in Runners, RetryExpired(r) PROVE CountTypes'
  <2>1. /\ retries[r] > 0 /\ retries' = [retries EXCEPT ![r] = retries[r] - 1]
        /\ UNCHANGED <<refCount, callbacks>>
    BY <1>9 DEF RetryExpired, runnerVars
  <2>2. retries[r] - 1 \in Nat
    BY <2>1 DEF Types, CountTypes
  <2> QED BY <2>1, <2>2 DEF Types, CountTypes
<1> QED
  BY <1>1, <1>2, <1>3, <1>4, <1>5, <1>6, <1>7, <1>8, <1>9
     DEF Next, ProcessPending, ProcessCompleted, Others

(* The order in which the loops look at the loaded runners.                *)
LEMMA Enumerates ==
  ASSUME RunnerTypes, SchedulerAssumption, NEW s \in SetToSeqs(LoadedRunners)
  PROVE  s \in Seq(Runners) /\ ToSet(s) \subseteq LoadedRunners
<1>1. LoadedRunners \subseteq Runners
  BY DEF LoadedRunners, RunnerTypes
<1>2. Cardinality(LoadedRunners) \in Nat
  BY <1>1, FS_Subset, FS_CardinalityType DEF Runners, SchedulerAssumption
<1>3. s \in [1..Cardinality(LoadedRunners) -> LoadedRunners]
  BY DEF SetToSeqs
<1>4. s \in Seq(Runners) /\ DOMAIN s = 1..Cardinality(LoadedRunners)
  BY <1>1, <1>2, <1>3
<1> QED BY <1>3, <1>4 DEF ToSet

(* ... and the variables of the two loops.                                 *)
LEMMA LoopTypesStep ==
  ASSUME SchedulerAssumption, Types, PendingInv, [Next]_vars
  PROVE  LoopTypes'
<1>. USE DEF Types, LoopTypes, RequestTypes, RunnerTypes, PendingInv, Runners, SchedulerAssumption
<1>1. CASE UNCHANGED vars \/ IgnoreUnloaded \/ UnloadTwice \/ StopRunner \/
          (\E q \in Requests : GetRunner(q)) \/ (\E q \in Requests : Cancel(q)) \/
          (\E q \in Requests : FinishRequest(q)) \/ (\E q \in Requests : Reschedule(q)) \/
          (\E m \in Models : StopModel(m)) \/ (\E r \in Runners : LoadOk(r)) \/
          (\E r \in Runners : LoadFail(r)) \/ (\E r \in Runners : TimerFires(r)) \/
          (\E r \in Runners : TimerCallback(r)) \/ (\E r \in Runners : RetryExpired(r))
  <2>1. UNCHANGED <<pp, preq, prun, plist, cp, creq, crun>>
    BY <1>1 DEF vars, pVars, cVars, IgnoreUnloaded, UnloadTwice, StopRunner, GetRunner,
           Cancel, FinishRequest, Reschedule, StopModel, LoadOk, LoadFail, TimerFires,
           TimerCallback, RetryExpired
  <2> QED BY <2>1 DEF LoopTypes
<1>2. CASE TakePending
  BY <1>2 DEF TakePending, cVars
<1>3. CASE LookUp
  <2>1. loaded[model[preq]] \in Runners \union {None}
    BY <1>3 DEF LookUp
  <2>2. pp' \in {"check", "find", "load", "filter"}
    BY <1>3 DEF LookUp, AfterLookup
  <2> QED BY <1>3, <2>1, <2>2 DEF LookUp, cVars
<1>4. CASE NeedsReload
  BY <1>4 DEF NeedsReload, cVars
<1>5. CASE UseLoadedRunner
  BY <1>5 DEF UseLoadedRunner, cVars
<1>6. CASE FilterGPUs
  <2>1. plist' \in Seq(Runners) /\ pp' \in {"measure", "measure_busy"}
    BY <1>6, Enumerates DEF FilterGPUs
  <2> QED BY <1>6, <2>1 DEF FilterGPUs, cVars
<1>7. CASE UpdateFreeSpace
  BY <1>7 DEF UpdateFreeSpace, cVars
<1>8. CASE PickBestFit
  BY <1>8 DEF PickBestFit, cVars
<1>9. CASE Load
  BY <1>9 DEF Load, cVars
<1>10. CASE FailLoad
  BY <1>10 DEF FailLoad, cVars
<1>11. CASE FindRunner
  <2>1. CASE pp' = "lookup"
    BY <1>11, <2>1 DEF FindRunner, cVars
  <2>2. CASE pp' # "lookup"
    <3>1. plist' \in SetToSeqs(LoadedRunners) /\ plist' # <<>> /\ prun' = Head(plist') /\ pp' = "pick"
      BY <1>11, <2>2 DEF FindRunner
    <3>2. plist' \in Seq(Runners)
      BY <3>1, Enumerates
    <3>3. prun' \in Runners
      BY <3>1, <3>2
    <3> QED BY <1>11, <3>1, <3>2, <3>3 DEF FindRunner, cVars
  <2> QED BY <2>1, <2>2
<1>12. CASE PickRunner
  <2>1. Head(plist) \in Runners /\ Tail(plist) \in Seq(Runners) /\ <<>> \in Seq(Runners)
    BY <1>12 DEF PickRunner
  <2>2. /\ prun' \in {Head(plist), prun} /\ plist' \in {<<>>, Tail(plist)}
        /\ pp' \in {"expire", "pick"} /\ pp = "pick" /\ preq' = preq /\ UNCHANGED cVars
    BY <1>12 DEF PickRunner
  <2> QED BY <2>1, <2>2 DEF cVars
<1>13. CASE ExpireToMakeRoom
  BY <1>13 DEF ExpireToMakeRoom, cVars
<1>14. CASE WaitUnloaded
  BY <1>14 DEF WaitUnloaded, cVars
<1>15. CASE TakeFinished
  BY <1>15 DEF TakeFinished, pVars, cVars
<1>16. CASE ReleaseRunner
  BY <1>16 DEF ReleaseRunner, pVars
<1>17. CASE TakeExpired
  BY <1>17 DEF TakeExpired, pVars
<1>18. CASE Unload
  BY <1>18 DEF Unload, pVars
<1>19. CASE SendUnloaded
  BY <1>19 DEF SendUnloaded, pVars
<1> QED
  BY <1>1, <1>2, <1>3, <1>4, <1>5, <1>6, <1>7, <1>8, <1>9, <1>10, <1>11, <1>12, <1>13,
     <1>14, <1>15, <1>16, <1>17, <1>18, <1>19
     DEF Next, ProcessPending, ProcessCompleted, Others

LEMMA Elements == ASSUME NEW S, NEW s \in Seq(S) PROVE ToSet(s) \subseteq S
  BY DEF ToSet

(* A runner that was loaded once is known for ever.                        *)
LEMMA StaysBorn ==
  ASSUME SchedulerAssumption, Types, [Next]_vars
  PROVE  \A r \in Runners : Born(r) => Born(r)'
<1>. USE DEF Types, RunnerTypes, LoopTypes, Runners, Born
<1>1. CASE UNCHANGED vars \/ TakePending \/ IgnoreUnloaded \/ LookUp \/ NeedsReload \/
          UseLoadedRunner \/ FilterGPUs \/ UpdateFreeSpace \/ PickBestFit \/ FailLoad \/
          FindRunner \/ PickRunner \/ ExpireToMakeRoom \/ WaitUnloaded \/ TakeFinished \/
          ReleaseRunner \/ TakeExpired \/ UnloadTwice \/ SendUnloaded \/ StopRunner \/
          (\E q \in Requests : GetRunner(q)) \/ (\E q \in Requests : Cancel(q)) \/
          (\E q \in Requests : FinishRequest(q)) \/ (\E q \in Requests : Reschedule(q)) \/
          (\E m \in Models : StopModel(m)) \/ (\E r \in Runners : TimerFires(r)) \/
          (\E r \in Runners : TimerCallback(r)) \/ (\E r \in Runners : RetryExpired(r))
  <2>1. UNCHANGED server
    BY <1>1 DEF vars, runnerVars, TakePending, IgnoreUnloaded, LookUp, NeedsReload,
           UseLoadedRunner, FilterGPUs, UpdateFreeSpace, PickBestFit, FailLoad, FindRunner,
           PickRunner, ExpireToMakeRoom, WaitUnloaded, TakeFinished, ReleaseRunner,
           TakeExpired, UnloadTwice, SendUnloaded, StopRunner, GetRunner, Cancel,
           FinishRequest, Reschedule, StopModel, TimerFires, TimerCallback, RetryExpired
  <2> QED BY <2>1 DEF Born
<1>2. CASE Load
  BY <1>2 DEF Load
<1>3. CASE Unload
  BY <1>3 DEF Unload
<1>4. ASSUME NEW r \in Runners, LoadOk(r) PROVE \A x \in Runners : Born(x) => Born(x)'
  BY <1>4 DEF LoadOk
<1>5. ASSUME NEW r \in Runners, LoadFail(r) PROVE \A x \in Runners : Born(x) => Born(x)'
  BY <1>5 DEF LoadFail
<1> QED
  BY <1>1, <1>2, <1>3, <1>4, <1>5
     DEF Next, ProcessPending, ProcessCompleted, Others

(* Expired events are about runners that were loaded, ...                  *)
LEMMA EventsBornStep ==
  ASSUME SchedulerAssumption, Types, Types', PendingInv, EventsBorn, TimersBorn, NamesBorn,
         [Next]_vars
  PROVE  EventsBorn'
<1>. \A r \in Runners : Born(r) => Born(r)'
  BY StaysBorn
<1>. ToSet(expiredCh) \subseteq Runners
  BY Elements DEF Types, RunnerTypes, LoopTypes
<1>. USE DEF EventsBorn, Born, Types, RunnerTypes, LoopTypes, Runners
<1>1. CASE UNCHANGED vars \/ TakePending \/ IgnoreUnloaded \/ LookUp \/ NeedsReload \/
          UseLoadedRunner \/ FilterGPUs \/ UpdateFreeSpace \/ PickBestFit \/ Load \/
          FailLoad \/ FindRunner \/ PickRunner \/ WaitUnloaded \/ TakeFinished \/ Unload \/
          UnloadTwice \/ SendUnloaded \/ (\E q \in Requests : GetRunner(q)) \/
          (\E q \in Requests : Cancel(q)) \/ (\E q \in Requests : FinishRequest(q)) \/
          (\E q \in Requests : Reschedule(q)) \/ (\E m \in Models : StopModel(m)) \/
          (\E r \in Runners : LoadOk(r)) \/ (\E r \in Runners : TimerFires(r))
  <2>1. UNCHANGED expiredCh
    BY <1>1 DEF vars, TakePending, IgnoreUnloaded, LookUp, NeedsReload, UseLoadedRunner,
           FilterGPUs, UpdateFreeSpace, PickBestFit, Load, FailLoad, FindRunner, PickRunner,
           WaitUnloaded, TakeFinished, Unload, UnloadTwice, SendUnloaded, GetRunner, Cancel,
           FinishRequest, Reschedule, StopModel, LoadOk, TimerFires
  <2> QED BY <2>1 DEF EventsBorn
<1>2. CASE ExpireToMakeRoom
  BY <1>2, PushedBack DEF ExpireToMakeRoom, Expired, TimersBorn, NamesBorn, PendingInv
<1>3. CASE ReleaseRunner
  BY <1>3, PushedBack DEF ReleaseRunner, Expired, TimersBorn, NamesBorn, PendingInv
<1>4. CASE TakeExpired
  <2>1. expiredCh # <<>> /\ expiredCh' = Tail(expiredCh)
    BY <1>4 DEF TakeExpired
  <2> QED BY <2>1, PopFront
<1>5. CASE StopRunner
  BY <1>5, PushedBack DEF StopRunner, Expired, TimersBorn, NamesBorn, PendingInv
<1>6. ASSUME NEW r \in Runners, LoadFail(r) PROVE EventsBorn'
  BY <1>6, PushedBack DEF LoadFail, Expired, TimersBorn, NamesBorn, PendingInv
<1>7. ASSUME NEW r \in Runners, TimerCallback(r) PROVE EventsBorn'
  BY <1>7, PushedBack DEF TimerCallback, Expired, TimersBorn, NamesBorn, PendingInv
<1>8. ASSUME NEW r \in Runners, RetryExpired(r) PROVE EventsBorn'
  BY <1>8, PushedBack DEF RetryExpired, Expired, TimersBorn, NamesBorn, PendingInv
<1> QED
  BY <1>1, <1>2, <1>3, <1>4, <1>5, <1>6, <1>7, <1>8
     DEF Next, ProcessPending, ProcessCompleted, Others

(* ... and so are timers, ...                                              *)
LEMMA TimersBornStep ==
  ASSUME SchedulerAssumption, Types, Types', PendingInv, EventsBorn, TimersBorn, NamesBorn,
         [Next]_vars
  PROVE  TimersBorn'
<1>. \A r \in Runners : Born(r) => Born(r)'
  BY StaysBorn
<1>. ToSet(expiredCh) \subseteq Runners
  BY Elements DEF Types, RunnerTypes
<1>. USE DEF TimersBorn, Born, Types, CountTypes, RunnerTypes, LoopTypes, Runners
<1>1. CASE UNCHANGED vars \/ TakePending \/ IgnoreUnloaded \/ LookUp \/ NeedsReload \/
          FilterGPUs \/ UpdateFreeSpace \/ PickBestFit \/ Load \/ FailLoad \/ FindRunner \/
          PickRunner \/ WaitUnloaded \/ TakeFinished \/ UnloadTwice \/ SendUnloaded \/
          (\E q \in Requests : GetRunner(q)) \/ (\E q \in Requests : Cancel(q)) \/
          (\E q \in Requests : FinishRequest(q)) \/ (\E q \in Requests : Reschedule(q)) \/
          (\E m \in Models : StopModel(m)) \/ (\E r \in Runners : LoadOk(r)) \/
          (\E r \in Runners : LoadFail(r))
  <2>1. UNCHANGED <<expireTimer, callbacks, retries>>
    BY <1>1 DEF vars, runnerVars, TakePending, IgnoreUnloaded, LookUp, NeedsReload,
           FilterGPUs, UpdateFreeSpace, PickBestFit, Load, FailLoad, FindRunner, PickRunner,
           WaitUnloaded, TakeFinished, UnloadTwice, SendUnloaded, GetRunner, Cancel,
           FinishRequest, Reschedule, StopModel, LoadOk, LoadFail
  <2> QED BY <2>1 DEF TimersBorn
<1>2. CASE UseLoadedRunner
  BY <1>2 DEF UseLoadedRunner, NamesBorn, PendingInv
<1>3. CASE ExpireToMakeRoom
  BY <1>3 DEF ExpireToMakeRoom, NamesBorn, PendingInv
<1>4. CASE ReleaseRunner
  BY <1>4 DEF ReleaseRunner, NamesBorn, PendingInv
<1>5. CASE TakeExpired
  <2>1. Head(expiredCh) \in Runners /\ Born(Head(expiredCh))
    <3>1. expiredCh # <<>>
      BY <1>5 DEF TakeExpired
    <3> QED BY <3>1, PopFront DEF EventsBorn
  <2>2. \A x \in Runners : /\ retries'[x] > 0 => retries[x] > 0 \/ x = Head(expiredCh)
                           /\ callbacks'[x] = callbacks[x] /\ expireTimer'[x] = expireTimer[x]
    BY <1>5, <2>1 DEF TakeExpired, runnerVars
  <2> QED BY <2>1, <2>2
<1>6. CASE Unload
  <2>1. \A x \in Runners : expireTimer'[x] = "armed" => expireTimer[x] = "armed"
    BY <1>6 DEF Unload
  <2>2. UNCHANGED <<retries, callbacks>>
    BY <1>6 DEF Unload
  <2> QED BY <2>1, <2>2
<1>7. CASE StopRunner
  BY <1>7 DEF StopRunner, NamesBorn, PendingInv
<1>8. ASSUME NEW r \in Runners, TimerFires(r) PROVE TimersBorn'
  <2>1. Born(r) /\ UNCHANGED retries
    BY <1>8 DEF TimerFires
  <2>2. \A x \in Runners : /\ callbacks'[x] > 0 => callbacks[x] > 0 \/ x = r
                           /\ expireTimer'[x] = "armed" => expireTimer[x] = "armed"
    BY <1>8 DEF TimerFires
  <2> QED BY <2>1, <2>2
<1>9. ASSUME NEW r \in Runners, TimerCallback(r) PROVE TimersBorn'
  <2>1. UNCHANGED retries
    BY <1>9 DEF TimerCallback
  <2>2. \A x \in Runners : /\ callbacks'[x] > 0 => callbacks[x] > 0
                           /\ expireTimer'[x] = "armed" => expireTimer[x] = "armed"
    BY <1>9 DEF TimerCallback
  <2> QED BY <2>1, <2>2
<1>10. ASSUME NEW r \in Runners, RetryExpired(r) PROVE TimersBorn'
  BY <1>10 DEF RetryExpired, runnerVars, NamesBorn, PendingInv
<1> QED
  BY <1>1, <1>2, <1>3, <1>4, <1>5, <1>6, <1>7, <1>8, <1>9, <1>10
     DEF Next, ProcessPending, ProcessCompleted, Others

(* ... and the names that requests and goroutines keep.                    *)
LEMMA NamesBornStep ==
  ASSUME SchedulerAssumption, Types, Types', PendingInv, EventsBorn, TimersBorn, NamesBorn,
         [Next]_vars
  PROVE  NamesBorn'
<1>. \A r \in Runners : Born(r) => Born(r)'
  BY StaysBorn
<1>. ToSet(plist) \subseteq Runners
  BY Elements DEF Types, RunnerTypes, RequestTypes, LoopTypes
<1>. USE DEF NamesBorn, Born, Types, RunnerTypes, RequestTypes, LoopTypes, Runners
<1>1. CASE UNCHANGED vars \/ TakePending \/ IgnoreUnloaded \/ NeedsReload \/ PickBestFit \/
          FailLoad \/ WaitUnloaded \/ UnloadTwice \/ SendUnloaded \/
          (\E q \in Requests : GetRunner(q)) \/ (\E q \in Requests : Cancel(q)) \/
          (\E q \in Requests : FinishRequest(q)) \/ (\E q \in Requests : Reschedule(q)) \/
          (\E r \in Runners : LoadOk(r)) \/ (\E r \in Runners : LoadFail(r)) \/
          (\E r \in Runners : TimerFires(r)) \/ (\E r \in Runners : TimerCallback(r)) \/
          (\E r \in Runners : RetryExpired(r))
  <2>1. UNCHANGED <<holds, loaded, prun, plist, crun, stopping>>
    BY <1>1 DEF vars, requestVars, pVars, cVars, stopVars, TakePending, IgnoreUnloaded,
           NeedsReload, PickBestFit, FailLoad, WaitUnloaded, UnloadTwice, SendUnloaded,
           GetRunner, Cancel, FinishRequest, Reschedule, LoadOk, LoadFail, TimerFires,
           TimerCallback, RetryExpired
  <2> QED BY <2>1 DEF NamesBorn
<1>2. CASE LookUp
  BY <1>2 DEF LookUp, requestVars, cVars, stopVars, PendingInv
<1>3. CASE UseLoadedRunner
  BY <1>3 DEF UseLoadedRunner, cVars, stopVars, PendingInv
<1>4. CASE FilterGPUs
  <2>1. plist' \in SetToSeqs(LoadedRunners) /\ UNCHANGED <<loaded, holds, prun, crun, stopping>>
    BY <1>4 DEF FilterGPUs, requestVars, cVars, stopVars
  <2>2. \A r \in ToSet(plist') : r \in LoadedRunners
    BY <2>1, Enumerates
  <2>3. \A r \in ToSet(plist') : r \in Runners /\ Born(r)
    BY <2>2 DEF LoadedRunners
  <2> QED BY <2>1, <2>3
<1>5. CASE UpdateFreeSpace
  <2>1. ToSet(plist') \subseteq ToSet(plist) /\ UNCHANGED <<loaded, holds, prun, crun, stopping>>
    BY <1>5, PopFront DEF UpdateFreeSpace, requestVars, cVars, stopVars
  <2> QED BY <2>1
<1>6. CASE Load
  BY <1>6 DEF Load, cVars, stopVars, PendingInv
<1>7. CASE FindRunner
  <2>1. UNCHANGED <<loaded, holds, crun, stopping>>
    BY <1>7 DEF FindRunner, requestVars, cVars, stopVars
  <2>2. CASE UNCHANGED <<prun, plist>>
    BY <2>1, <2>2
  <2>3. CASE ~UNCHANGED <<prun, plist>>
    <3>1. plist' \in SetToSeqs(LoadedRunners) /\ plist' # <<>> /\ prun' = Head(plist')
      BY <1>7, <2>3 DEF FindRunner
    <3>2. plist' \in Seq(Runners) /\ \A r \in ToSet(plist') : r \in LoadedRunners
      BY <3>1, Enumerates
    <3>3. \A r \in ToSet(plist') : r \in Runners /\ Born(r)
      BY <3>2 DEF LoadedRunners
    <3>4. prun' \in ToSet(plist')
      BY <3>1, <3>2, PopFront
    <3> QED BY <2>1, <3>3, <3>4
  <2> QED BY <2>2, <2>3
<1>8. CASE PickRunner
  <2>1. /\ UNCHANGED <<loaded, holds, crun, stopping>> /\ plist # <<>>
        /\ prun' \in {prun, Head(plist)} /\ plist' \in {<<>>, Tail(plist)}
    BY <1>8 DEF PickRunner, requestVars, cVars, stopVars
  <2>2. Head(plist) \in ToSet(plist) /\ ToSet(Tail(plist)) \subseteq ToSet(plist)
    BY <2>1, PopFront
  <2>3. ToSet(<<>>) = {}
    BY DEF ToSet
  <2> QED BY <2>1, <2>2, <2>3
<1>9. CASE ExpireToMakeRoom
  BY <1>9 DEF ExpireToMakeRoom, requestVars, cVars, stopVars, PendingInv
<1>10. CASE TakeFinished
  BY <1>10 DEF TakeFinished, pVars, cVars, stopVars, PendingInv
<1>11. CASE ReleaseRunner
  BY <1>11 DEF ReleaseRunner, pVars, stopVars, PendingInv
<1>12. CASE TakeExpired
  <2>1. /\ UNCHANGED <<loaded, holds, plist, prun, stopping>> /\ expiredCh # <<>>
        /\ crun' \in {crun, Head(expiredCh)}
    BY <1>12 DEF TakeExpired, requestVars, pVars, stopVars
  <2>2. Head(expiredCh) \in ToSet(expiredCh) /\ Head(expiredCh) \in Runners
    BY <2>1, PopFront
  <2> QED BY <2>1, <2>2 DEF EventsBorn
<1>13. CASE Unload
  BY <1>13 DEF Unload, requestVars, pVars, stopVars, PendingInv
<1>14. CASE StopRunner
  BY <1>14 DEF StopRunner, requestVars, pVars, cVars, PendingInv
<1>15. ASSUME NEW m \in Models, StopModel(m) PROVE NamesBorn'
  BY <1>15 DEF StopModel, requestVars, pVars, cVars, PendingInv
<1> QED
  BY <1>1, <1>2, <1>3, <1>4, <1>5, <1>6, <1>7, <1>8, <1>9, <1>10, <1>11, <1>12, <1>13,
     <1>14, <1>15
     DEF Next, ProcessPending, ProcessCompleted, Others

(* processPending knows what it did before.                                *)
LEMMA PendingStep ==
  ASSUME SchedulerAssumption, Types, Types', PendingInv, NamesBorn, PlacesInv, ServerInv,
         MapInv, [Next]_vars
  PROVE  PendingInv'
<1>. USE DEF PendingInv, Types, RequestTypes, RunnerTypes, LoopTypes, Runners
<1>1. CASE UNCHANGED vars \/ IgnoreUnloaded \/ UpdateFreeSpace \/ TakeFinished \/
          ReleaseRunner \/ TakeExpired \/ UnloadTwice \/ SendUnloaded \/ StopRunner \/
          (\E q \in Requests : GetRunner(q)) \/ (\E q \in Requests : Cancel(q)) \/
          (\E q \in Requests : FinishRequest(q)) \/ (\E q \in Requests : Reschedule(q)) \/
          (\E m \in Models : StopModel(m)) \/ (\E r \in Runners : LoadOk(r)) \/
          (\E r \in Runners : LoadFail(r)) \/ (\E r \in Runners : TimerFires(r)) \/
          (\E r \in Runners : TimerCallback(r)) \/ (\E r \in Runners : RetryExpired(r))
  <2>1. UNCHANGED <<model, loaded, pp, preq, prun>>
    BY <1>1 DEF vars, fixed, pVars, IgnoreUnloaded, UpdateFreeSpace, TakeFinished,
           ReleaseRunner, TakeExpired, UnloadTwice, SendUnloaded, StopRunner, GetRunner,
           Cancel, FinishRequest, Reschedule, StopModel, LoadOk, LoadFail, TimerFires,
           TimerCallback, RetryExpired
  <2> QED BY <2>1 DEF PendingInv
<1>2. CASE TakePending
  BY <1>2 DEF TakePending, fixed, MapInv, NamesBorn, AfterLookup
<1>3. CASE LookUp
  BY <1>3 DEF LookUp, fixed, MapInv, NamesBorn, AfterLookup
<1>4. CASE NeedsReload
  BY <1>4 DEF NeedsReload, fixed, MapInv, NamesBorn, AfterLookup
<1>5. CASE UseLoadedRunner
  BY <1>5 DEF UseLoadedRunner, fixed, MapInv, NamesBorn, AfterLookup
<1>6. CASE FilterGPUs
  BY <1>6 DEF FilterGPUs, fixed, MapInv, NamesBorn, AfterLookup
<1>7. CASE PickBestFit
  BY <1>7 DEF PickBestFit, fixed, MapInv, NamesBorn, AfterLookup
<1>8. CASE Load
  BY <1>8 DEF Load, fixed, MapInv, NamesBorn, AfterLookup
<1>9. CASE FailLoad
  BY <1>9 DEF FailLoad, fixed, MapInv, NamesBorn, AfterLookup
<1>10. CASE FindRunner
  BY <1>10 DEF FindRunner, fixed, MapInv, NamesBorn, AfterLookup
<1>11. CASE PickRunner
  BY <1>11 DEF PickRunner, fixed, MapInv, NamesBorn, AfterLookup
<1>12. CASE ExpireToMakeRoom
  BY <1>12 DEF ExpireToMakeRoom, fixed, MapInv, NamesBorn, AfterLookup
<1>13. CASE WaitUnloaded
  BY <1>13 DEF WaitUnloaded, fixed, MapInv, NamesBorn, AfterLookup
<1>14. CASE Unload
  BY <1>14 DEF Unload, fixed, pVars, MapInv, NamesBorn, AfterLookup
<1> QED
  BY <1>1, <1>2, <1>3, <1>4, <1>5, <1>6, <1>7, <1>8, <1>9, <1>10, <1>11, <1>12, <1>13, <1>14
     DEF Next, ProcessPending, ProcessCompleted, Others

(* Where a request is agrees with the queues and the loops, ...            *)
LEMMA PlacesStep ==
  ASSUME SchedulerAssumption, Types, Types', PendingInv, EventsBorn, NamesBorn, PlacesInv,
         ServerInv, MapInv, [Next]_vars
  PROVE  PlacesInv'
<1>. ToSet(pendingReqCh) \subseteq Requests /\ ToSet(finishedReqCh) \subseteq Requests
  BY Elements DEF Types, RequestTypes
<1>. USE DEF PlacesInv, Types, RequestTypes, LoopTypes, Runners
<1>1. CASE UNCHANGED vars \/ IgnoreUnloaded \/ LookUp \/ NeedsReload \/ FilterGPUs \/
          UpdateFreeSpace \/ FindRunner \/ PickRunner \/ ExpireToMakeRoom \/ WaitUnloaded \/
          TakeExpired \/ Unload \/ UnloadTwice \/ SendUnloaded \/ StopRunner \/
          (\E q \in Requests : Cancel(q)) \/ (\E m \in Models : StopModel(m)) \/
          (\E r \in Runners : TimerFires(r)) \/ (\E r \in Runners : TimerCallback(r)) \/
          (\E r \in Runners : RetryExpired(r))
  <2>1. UNCHANGED <<st, pendingReqCh, finishedReqCh, preq, creq>>
    BY <1>1 DEF vars, requestVars, pVars, cVars, IgnoreUnloaded, LookUp, NeedsReload,
           FilterGPUs, UpdateFreeSpace, FindRunner, PickRunner, ExpireToMakeRoom,
           WaitUnloaded, TakeExpired, Unload, UnloadTwice, SendUnloaded, StopRunner, Cancel,
           StopModel, TimerFires, TimerCallback, RetryExpired
  <2> QED BY <2>1 DEF PlacesInv
<1>2. CASE TakePending
  BY <1>2, PushedBack, PopFront DEF TakePending, cVars, ServerInv
<1>3. CASE UseLoadedRunner
  BY <1>3, PushedBack, PopFront DEF UseLoadedRunner, cVars, ServerInv
<1>4. CASE PickBestFit
  BY <1>4, PushedBack, PopFront DEF PickBestFit, cVars, ServerInv
<1>5. CASE Load
  BY <1>5, PushedBack, PopFront DEF Load, cVars, ServerInv
<1>6. CASE FailLoad
  BY <1>6, PushedBack, PopFront DEF FailLoad, cVars, ServerInv
<1>7. CASE TakeFinished
  BY <1>7, PushedBack, PopFront DEF TakeFinished, pVars, cVars, ServerInv
<1>8. CASE ReleaseRunner
  BY <1>8, PushedBack, PopFront DEF ReleaseRunner, pVars, ServerInv
<1>9. ASSUME NEW q \in Requests, GetRunner(q) PROVE PlacesInv'
  <2>1. UNCHANGED <<preq, finishedReqCh, creq>> /\ st[q] = "new"
    BY <1>9 DEF GetRunner, pVars, cVars
  <2>2. CASE st' = [st EXCEPT ![q] = "queued"] /\ pendingReqCh' = Append(pendingReqCh, q)
    <3>1. ToSet(pendingReqCh') = ToSet(pendingReqCh) \union {q} /\ IsInjective(pendingReqCh')
      BY <2>1, <2>2, PushedBack
    <3> QED BY <2>1, <2>2, <3>1
  <2>3. CASE st' = [st EXCEPT ![q] = "error"] /\ pendingReqCh' = pendingReqCh
    BY <2>1, <2>3
  <2> QED BY <1>9, <2>2, <2>3 DEF GetRunner
<1>10. ASSUME NEW q \in Requests, FinishRequest(q) PROVE PlacesInv'
  BY <1>10, PushedBack, PopFront DEF FinishRequest, pVars, cVars, ServerInv
<1>11. ASSUME NEW q \in Requests, Reschedule(q) PROVE PlacesInv'
  BY <1>11, PushedBack, PopFront DEF Reschedule, pVars, cVars, ServerInv
<1>12. ASSUME NEW r \in Runners, LoadOk(r) PROVE PlacesInv'
  BY <1>12, PushedBack, PopFront DEF LoadOk, pVars, cVars, ServerInv
<1>13. ASSUME NEW r \in Runners, LoadFail(r) PROVE PlacesInv'
  BY <1>13, PushedBack, PopFront DEF LoadFail, pVars, cVars, ServerInv
<1> QED
  BY <1>1, <1>2, <1>3, <1>4, <1>5, <1>6, <1>7, <1>8, <1>9, <1>10, <1>11, <1>12, <1>13
     DEF Next, ProcessPending, ProcessCompleted, Others

(* ... and with the server it loads.                                       *)
LEMMA ServerStep ==
  ASSUME SchedulerAssumption, Types, Types', PendingInv, EventsBorn, NamesBorn, PlacesInv,
         ServerInv, MapInv, [Next]_vars
  PROVE  ServerInv'
<1>. USE DEF ServerInv, Types, RequestTypes, RunnerTypes, LoopTypes, Runners
<1>1. CASE UNCHANGED vars \/ IgnoreUnloaded \/ LookUp \/ NeedsReload \/ FilterGPUs \/
          UpdateFreeSpace \/ FindRunner \/ PickRunner \/ ExpireToMakeRoom \/ WaitUnloaded \/
          UnloadTwice \/ StopRunner \/ (\E q \in Requests : Cancel(q)) \/
          (\E m \in Models : StopModel(m)) \/ (\E r \in Runners : TimerFires(r)) \/
          (\E r \in Runners : TimerCallback(r)) \/ (\E r \in Runners : RetryExpired(r))
  <2>1. UNCHANGED <<st, holds, server, cp, crun>>
    BY <1>1 DEF vars, requestVars, runnerVars, cVars, IgnoreUnloaded, LookUp, NeedsReload,
           FilterGPUs, UpdateFreeSpace, FindRunner, PickRunner, ExpireToMakeRoom,
           WaitUnloaded, UnloadTwice, StopRunner, Cancel, StopModel, TimerFires,
           TimerCallback, RetryExpired
  <2> QED BY <2>1 DEF ServerInv
<1>2. CASE TakePending
  <2>1. PICK q \in ToSet(pendingReqCh), s \in {"dropped", "scheduling"} : st' = [st EXCEPT ![q] = s]
    <3>1. pendingReqCh # <<>>
      BY <1>2 DEF TakePending
    <3> QED BY <1>2, <3>1, PopFront DEF TakePending
  <2>2. q \in Requests /\ st[q] = "queued"
    BY Elements DEF PlacesInv
  <2> QED BY <1>2, <2>1, <2>2 DEF TakePending, runnerVars, cVars
<1>3. CASE UseLoadedRunner
  BY <1>3 DEF UseLoadedRunner, cVars, PlacesInv, RefMuFree, EventsBorn, NamesBorn, Born
<1>4. CASE PickBestFit
  BY <1>4 DEF PickBestFit, runnerVars, cVars, PlacesInv, RefMuFree, EventsBorn, NamesBorn, Born
<1>5. CASE Load
  BY <1>5 DEF Load, cVars, PlacesInv, RefMuFree, EventsBorn, NamesBorn, Born
<1>6. CASE FailLoad
  BY <1>6 DEF FailLoad, runnerVars, cVars, PlacesInv, RefMuFree, EventsBorn, NamesBorn, Born
<1>7. CASE TakeFinished
  <2>1. PICK q \in ToSet(finishedReqCh) : st' = st \/ st' = [st EXCEPT ![q] = "done"]
    <3>1. finishedReqCh # <<>>
      BY <1>7 DEF TakeFinished
    <3> QED BY <1>7, <3>1, PopFront DEF TakeFinished
  <2>2. q \in Requests /\ st[q] = "finishing"
    BY Elements DEF PlacesInv
  <2>3. cp' # "unload" /\ UNCHANGED <<server, holds>>
    BY <1>7 DEF TakeFinished, runnerVars, cVars
  <2> QED BY <2>1, <2>2, <2>3
<1>8. CASE ReleaseRunner
  BY <1>8 DEF ReleaseRunner, PlacesInv, RefMuFree, EventsBorn, NamesBorn, Born
<1>9. CASE TakeExpired
  BY <1>9 DEF TakeExpired, requestVars, runnerVars, PlacesInv, RefMuFree, EventsBorn, NamesBorn, Born
<1>10. CASE Unload
  BY <1>10 DEF Unload, requestVars, PlacesInv, RefMuFree, EventsBorn, NamesBorn, Born
<1>11. CASE SendUnloaded
  BY <1>11 DEF SendUnloaded, requestVars, runnerVars, PlacesInv, RefMuFree, EventsBorn, NamesBorn, Born
<1>12. ASSUME NEW q \in Requests, GetRunner(q) PROVE ServerInv'
  BY <1>12 DEF GetRunner, runnerVars, cVars, PlacesInv, RefMuFree, EventsBorn, NamesBorn, Born
<1>13. ASSUME NEW q \in Requests, FinishRequest(q) PROVE ServerInv'
  BY <1>13 DEF FinishRequest, runnerVars, cVars, PlacesInv, RefMuFree, EventsBorn, NamesBorn, Born
<1>14. ASSUME NEW q \in Requests, Reschedule(q) PROVE ServerInv'
  BY <1>14 DEF Reschedule, runnerVars, cVars, PlacesInv, RefMuFree, EventsBorn, NamesBorn, Born
<1>15. ASSUME NEW r \in Runners, LoadOk(r) PROVE ServerInv'
  BY <1>15 DEF LoadOk, cVars, PlacesInv, RefMuFree, EventsBorn, NamesBorn, Born
<1>16. ASSUME NEW r \in Runners, LoadFail(r) PROVE ServerInv'
  BY <1>16 DEF LoadFail, cVars, PlacesInv, RefMuFree, EventsBorn, NamesBorn, Born
<1> QED
  BY <1>1, <1>2, <1>3, <1>4, <1>5, <1>6, <1>7, <1>8, <1>9, <1>10, <1>11, <1>12, <1>13,
     <1>14, <1>15, <1>16
     DEF Next, ProcessPending, ProcessCompleted, Others

(* The map holds the servers that are there, under their models.           *)
LEMMA MapStep ==
  ASSUME SchedulerAssumption, Types, Types', PendingInv, EventsBorn, NamesBorn, PlacesInv,
         ServerInv, MapInv, [Next]_vars
  PROVE  MapInv'
<1>. USE DEF MapInv, ServersAreLoaded, Open, Types, RequestTypes, RunnerTypes, LoopTypes, Runners
<1>1. CASE UNCHANGED vars \/ TakePending \/ IgnoreUnloaded \/ LookUp \/ NeedsReload \/
          FilterGPUs \/ UpdateFreeSpace \/ PickBestFit \/ FailLoad \/ FindRunner \/
          PickRunner \/ ExpireToMakeRoom \/ WaitUnloaded \/ TakeFinished \/ ReleaseRunner \/
          TakeExpired \/ UnloadTwice \/ SendUnloaded \/ StopRunner \/
          (\E q \in Requests : GetRunner(q)) \/ (\E q \in Requests : Cancel(q)) \/
          (\E q \in Requests : FinishRequest(q)) \/ (\E q \in Requests : Reschedule(q)) \/
          (\E m \in Models : StopModel(m)) \/ (\E r \in Runners : TimerFires(r)) \/
          (\E r \in Runners : TimerCallback(r)) \/ (\E r \in Runners : RetryExpired(r))
  <2>1. UNCHANGED <<model, holds, loaded, server>>
    BY <1>1 DEF vars, fixed, requestVars, runnerVars, TakePending, IgnoreUnloaded, LookUp,
           NeedsReload, FilterGPUs, UpdateFreeSpace, PickBestFit, FailLoad, FindRunner,
           PickRunner, ExpireToMakeRoom, WaitUnloaded, TakeFinished, ReleaseRunner,
           TakeExpired, UnloadTwice, SendUnloaded, StopRunner, GetRunner, Cancel,
           FinishRequest, Reschedule, StopModel, TimerFires, TimerCallback, RetryExpired
  <2> QED BY <2>1 DEF MapInv
<1>2. CASE UseLoadedRunner
  BY <1>2 DEF UseLoadedRunner, fixed, PlacesInv, ServerInv, PendingInv, NamesBorn, Born
<1>3. CASE Load
  BY <1>3 DEF Load, fixed, PlacesInv, ServerInv, PendingInv, NamesBorn, Born
<1>4. CASE Unload
  BY <1>4 DEF Unload, fixed, requestVars, PlacesInv, ServerInv, PendingInv, NamesBorn, Born
<1>5. ASSUME NEW r \in Runners, LoadOk(r) PROVE MapInv'
  BY <1>5 DEF LoadOk, fixed, PlacesInv, ServerInv, PendingInv, NamesBorn, Born
<1>6. ASSUME NEW r \in Runners, LoadFail(r) PROVE MapInv'
  BY <1>6 DEF LoadFail, fixed, PlacesInv, ServerInv, PendingInv, NamesBorn, Born
<1> QED
  BY <1>1, <1>2, <1>3, <1>4, <1>5, <1>6
     DEF Next, ProcessPending, ProcessCompleted, Others

(* The users of a runner are finitely many, fewer than refCount can count. *)
LEMMA UsersBounded ==
  ASSUME SchedulerAssumption, NEW r \in Runners
  PROVE  /\ IsFiniteSet(Users(r)) /\ Cardinality(Users(r)) \in Nat
         /\ Cardinality(Users(r)) < RefMod /\ RefMod \in Nat
<1>1. IsFiniteSet(Requests) /\ Users(r) \in SUBSET Requests
  BY DEF SchedulerAssumption, Users
<1>2. IsFiniteSet(Users(r)) /\ Cardinality(Users(r)) <= Cardinality(Requests)
  BY <1>1, FS_Subset
<1>3. Cardinality(Users(r)) \in Nat /\ Cardinality(Requests) \in Nat
  BY <1>1, <1>2, FS_CardinalityType
<1> QED BY <1>2, <1>3 DEF SchedulerAssumption

(* A request that becomes a user is counted without wrapping.              *)
LEMMA Joins ==
  ASSUME SchedulerAssumption, NEW r \in Runners, NEW q \in Requests, q \notin Users(r)
  PROVE  /\ Cardinality(Users(r) \union {q}) = Cardinality(Users(r)) + 1
         /\ (Cardinality(Users(r)) + 1) % RefMod = Cardinality(Users(r)) + 1
<1>1. IsFiniteSet(Requests) /\ Users(r) \union {q} \in SUBSET Requests
  BY DEF SchedulerAssumption, Users
<1>2. Cardinality(Users(r) \union {q}) = Cardinality(Users(r)) + 1
  BY UsersBounded, FS_AddElement
<1>3. Cardinality(Users(r) \union {q}) <= Cardinality(Requests)
  BY <1>1, FS_Subset
<1>4. Cardinality(Requests) \in Nat
  BY <1>1, FS_CardinalityType
<1>5. Cardinality(Users(r)) + 1 < RefMod /\ Cardinality(Users(r)) \in Nat /\ RefMod \in Nat
  BY <1>2, <1>3, <1>4, UsersBounded DEF SchedulerAssumption
<1> QED BY <1>2, <1>5, CountUp

LEMMA Leaves ==
  ASSUME SchedulerAssumption, NEW r \in Runners, NEW q \in Users(r)
  PROVE  Cardinality(Users(r) \ {q}) = Decremented(Cardinality(Users(r)))
<1>1. /\ IsFiniteSet(Users(r)) /\ Cardinality(Users(r)) \in Nat
      /\ Cardinality(Users(r)) < RefMod /\ RefMod \in Nat
  BY UsersBounded
<1>2. Cardinality(Users(r)) # 0
  BY <1>1, FS_EmptySet
<1>3. Cardinality(Users(r) \ {q}) = Cardinality(Users(r)) - 1
  BY <1>1, FS_RemoveElement
<1> QED BY <1>1, <1>2, <1>3, CountDown DEF Decremented

(* Steps that change neither who uses which runner nor what is open.       *)
LEMMA Kept ==
  ASSUME UsersCounted, HeldOpen, UNCHANGED <<refCount, holds>>,
         NamesBorn, Types,
         \A r \in Runners : Open(r)' <=> Open(r),
         \A q \in Requests : st'[q] \in Using <=> st[q] \in Using
  PROVE  UsersCounted' /\ HeldOpen'
<1>1. ASSUME NEW r \in Runners PROVE Users(r)' = Users(r)
  BY DEF Users, Using
<1>2. UsersCounted'
  BY <1>1 DEF UsersCounted
<1>3. HeldOpen'
  <2>1. ASSUME NEW q \in Requests, st'[q] \in Using
        PROVE  holds[q] \in Runners /\ Open(holds[q])
    BY <2>1 DEF HeldOpen, Types, RequestTypes
  <2>2. ASSUME NEW q \in Requests, st'[q] \in Using
        PROVE  holds[q] \in Runners /\ server'[holds[q]] \in {"loading", "running", "failed"}
    BY <2>1, <2>2 DEF Open
  <2> QED BY <2>1, <2>2 DEF HeldOpen, Open, Types, RequestTypes
<1> QED BY <1>2, <1>3

(* What was given out closed is not forgotten.                             *)
LEMMA StaysTainted ==
  ASSUME [Next]_vars
  PROVE  tainted => tainted'
<1>1. CASE UNCHANGED vars \/ TakePending \/ IgnoreUnloaded \/ LookUp \/ NeedsReload \/
          FilterGPUs \/ UpdateFreeSpace \/ PickBestFit \/ Load \/ FailLoad \/ FindRunner \/
          PickRunner \/ ExpireToMakeRoom \/ WaitUnloaded \/ TakeFinished \/ ReleaseRunner \/
          TakeExpired \/ Unload \/ UnloadTwice \/ SendUnloaded \/ StopRunner \/
          (\E q \in Requests : GetRunner(q)) \/ (\E q \in Requests : Cancel(q)) \/
          (\E q \in Requests : FinishRequest(q)) \/ (\E q \in Requests : Reschedule(q)) \/
          (\E m \in Models : StopModel(m)) \/ (\E r \in Runners : LoadOk(r)) \/
          (\E r \in Runners : LoadFail(r)) \/ (\E r \in Runners : TimerFires(r)) \/
          (\E r \in Runners : TimerCallback(r)) \/ (\E r \in Runners : RetryExpired(r))
  <2>1. UNCHANGED tainted
    BY <1>1 DEF vars, TakePending, IgnoreUnloaded, LookUp, NeedsReload, FilterGPUs,
           UpdateFreeSpace, PickBestFit, Load, FailLoad, FindRunner, PickRunner,
           ExpireToMakeRoom, WaitUnloaded, TakeFinished, ReleaseRunner, TakeExpired, Unload,
           UnloadTwice, SendUnloaded, StopRunner, GetRunner, Cancel, FinishRequest,
           Reschedule, StopModel, LoadOk, LoadFail, TimerFires, TimerCallback, RetryExpired
  <2> QED BY <2>1
<1>2. CASE UseLoadedRunner
  BY <1>2 DEF UseLoadedRunner
<1> QED
  BY <1>1, <1>2
     DEF Next, ProcessPending, ProcessCompleted, Others

(* While nobody was given a closed runner, each is counted for its users.  *)
LEMMA CountStep ==
  ASSUME SchedulerAssumption, Types, Types', PendingInv, EventsBorn, NamesBorn, PlacesInv,
         ServerInv, MapInv, CountInv, [Next]_vars
  PROVE  CountInv'
<1>. SUFFICES ASSUME ~tainted' PROVE Counted'
  BY DEF CountInv
<1>0. Counted /\ ~tainted /\ ~tainted'
  BY StaysTainted DEF CountInv
<1>1. CASE UNCHANGED vars \/ IgnoreUnloaded \/ LookUp \/ NeedsReload \/ FilterGPUs \/
          UpdateFreeSpace \/ FindRunner \/ PickRunner \/ ExpireToMakeRoom \/ WaitUnloaded \/
          UnloadTwice \/ StopRunner \/ (\E q \in Requests : Cancel(q)) \/
          (\E m \in Models : StopModel(m)) \/ (\E r \in Runners : TimerFires(r)) \/
          (\E r \in Runners : TimerCallback(r)) \/ (\E r \in Runners : RetryExpired(r))
  <2>1. UNCHANGED <<st, holds, server, refCount, cp, creq, crun>>
    BY <1>1 DEF vars, requestVars, runnerVars, cVars, IgnoreUnloaded, LookUp, NeedsReload,
           FilterGPUs, UpdateFreeSpace, FindRunner, PickRunner, ExpireToMakeRoom,
           WaitUnloaded, UnloadTwice, StopRunner, Cancel, StopModel, TimerFires,
           TimerCallback, RetryExpired
  <2>2. UsersCounted' /\ HeldOpen'
    BY <2>1, Kept, <1>0 DEF Counted, Open
  <2> QED BY <2>1, <2>2, <1>0 DEF Counted, Releasing, Open
<1>2. CASE TakePending
  <2>1. /\ \E s \in {"dropped", "scheduling"} : st' = [st EXCEPT ![Head(pendingReqCh)] = s]
        /\ UNCHANGED <<refCount, holds, server, cp, crun, creq>>
    BY <1>2 DEF TakePending, runnerVars, cVars
  <2>2. Head(pendingReqCh) \in Requests /\ st[Head(pendingReqCh)] \in {"queued"}
    BY <1>2, PopFront DEF TakePending, Types, RequestTypes, LoopTypes, PlacesInv, ServerInv
  <2>3. UsersCounted' /\ HeldOpen'
    BY <2>1, <2>2, Kept, <1>0 DEF Counted, Open, Using, Types, RequestTypes
  <2> QED BY <2>1, <2>3, <1>0 DEF Counted, Releasing, Open
<1>3. CASE UseLoadedRunner
  <2>1. PICK q \in Requests, p \in Runners : q = preq /\ p = prun /\ st[q] = "scheduling"
    BY <1>3 DEF UseLoadedRunner, Types, LoopTypes, PendingInv, PlacesInv
  <2>2. /\ refCount' = [refCount EXCEPT ![p] = (refCount[p] + 1) % RefMod]
        /\ st' = [st EXCEPT ![q] = "using"] /\ holds' = [holds EXCEPT ![q] = p]
        /\ UNCHANGED <<server, cp, crun, creq>> /\ server[p] # "closed"
        /\ ~(cp = "unload" /\ crun = p)
    BY <1>3, <2>1, <1>0 DEF UseLoadedRunner, cVars, RefMuFree
  <2>3. Open(p)
    BY <2>1, <2>2 DEF Open, NamesBorn, Born, Types, RunnerTypes, LoopTypes, SchedulerAssumption, Runners
  <2>4. q \notin Users(p) /\ Users(p)' = Users(p) \union {q}
    BY <2>1, <2>2 DEF Users, Types, RequestTypes
  <2>5. ASSUME NEW r \in Runners, r # p PROVE Users(r)' = Users(r) /\ refCount'[r] = refCount[r]
    BY <2>1, <2>2, <2>5 DEF Users, Types, RequestTypes, CountTypes
  <2>6. refCount[p] = Cardinality(Users(p)) /\ refCount'[p] = Cardinality(Users(p)) + 1
    <3>1. refCount[p] = Cardinality(Users(p))
      BY <2>1, <2>3, <1>0 DEF Counted, UsersCounted
    <3>2. refCount'[p] = (refCount[p] + 1) % RefMod
      BY <2>1, <2>2 DEF Types, CountTypes
    <3> QED BY <3>1, <3>2, <2>1, <2>4, Joins
  <2>7. UsersCounted'
    <3>1. ASSUME NEW r \in Runners, Open(r)' PROVE refCount'[r] = Cardinality(Users(r)')
      <4>1. CASE r = p
        BY <4>1, <2>1, <2>4, <2>6, Joins
      <4>2. CASE r # p
        BY <4>2, <3>1, <2>2, <2>5, <1>0 DEF Counted, UsersCounted, Open
      <4> QED BY <4>1, <4>2
    <3> QED BY <3>1 DEF UsersCounted
  <2>8. HeldOpen'
    <3>1. ASSUME NEW x \in Requests, st'[x] \in Using
          PROVE  holds'[x] # None /\ server[holds'[x]] \in {"loading", "running", "failed"}
      <4>1. CASE x = q
        BY <4>1, <2>1, <2>2, <2>3 DEF Open, Types, RequestTypes, SchedulerAssumption, Runners
      <4>2. CASE x # q
        BY <4>2, <3>1, <2>1, <2>2, <1>0 DEF Counted, HeldOpen, Open, Types, RequestTypes
      <4> QED BY <4>1, <4>2
    <3> QED BY <3>1, <2>2 DEF HeldOpen, Open
  <2>9. Releasing'
    <3>1. cp = "finish" => creq \in Requests /\ creq # q
      BY <2>1 DEF PlacesInv, Types, LoopTypes
    <3>2. cp = "finish" => holds'[creq] = holds[creq]
      BY <3>1, <2>1, <2>2 DEF Types, RequestTypes
    <3>3. cp = "unload" => refCount'[crun] = refCount[crun]
      BY <2>1, <2>2, <2>5 DEF Types, LoopTypes
    <3> QED BY <3>2, <3>3, <2>2, <1>0 DEF Counted, Releasing, Open
  <2> QED BY <2>7, <2>8, <2>9 DEF Counted
<1>4. CASE PickBestFit
  <2>1. /\ st' = st \/ st' = [st EXCEPT ![preq] = "resched"]
        /\ UNCHANGED <<refCount, holds, server, cp, crun, creq>>
    BY <1>4 DEF PickBestFit, runnerVars, cVars
  <2>2. preq \in Requests /\ st[preq] = "scheduling"
    BY <1>4 DEF PickBestFit, Types, LoopTypes, PlacesInv
  <2>3. UsersCounted' /\ HeldOpen'
    BY <2>1, <2>2, Kept, <1>0 DEF Counted, Open, Using, Types, RequestTypes
  <2> QED BY <2>1, <2>3, <1>0 DEF Counted, Releasing, Open
<1>5. CASE Load
  <2>1. PICK q \in Requests :
          q = preq /\ q \in Runners /\ st[q] = "scheduling" /\ server[q] = "none"
    BY <1>5 DEF Load, Types, LoopTypes, PlacesInv, ServerInv, Runners
  <2>2. /\ refCount' = [refCount EXCEPT ![q] = 1] /\ server' = [server EXCEPT ![q] = "loading"]
        /\ st' = [st EXCEPT ![q] = "loading"] /\ holds' = [holds EXCEPT ![q] = q]
        /\ UNCHANGED <<cp, crun, creq>>
    BY <1>5, <2>1 DEF Load, cVars
  <2>3. ASSUME NEW x \in Requests PROVE holds[x] # q
    BY <2>1 DEF NamesBorn, Born, SchedulerAssumption
  <2>4. Users(q)' = {q}
    BY <2>1, <2>2, <2>3 DEF Users, Types, RequestTypes
  <2>5. ASSUME NEW r \in Runners, r # q
        PROVE  Users(r)' = Users(r) /\ refCount'[r] = refCount[r] /\ server'[r] = server[r]
    <3>1. refCount'[r] = refCount[r] /\ server'[r] = server[r]
      BY <2>1, <2>2, <2>5 DEF Types, RunnerTypes, CountTypes
    <3>2. Users(r)' = Users(r)
      BY <2>1, <2>2, <2>5 DEF Users, Types, RequestTypes
    <3> QED BY <3>1, <3>2
  <2>6. UsersCounted'
    <3>1. ASSUME NEW r \in Runners, Open(r)' PROVE refCount'[r] = Cardinality(Users(r)')
      <4>1. CASE r = q
        <5>1. refCount'[q] = 1
          BY <2>1, <2>2 DEF Types, CountTypes
        <5> QED BY <4>1, <5>1, <2>4, FS_Singleton
      <4>2. CASE r # q
        BY <4>2, <3>1, <2>5, <1>0 DEF Counted, UsersCounted, Open
      <4> QED BY <4>1, <4>2
    <3> QED BY <3>1 DEF UsersCounted
  <2>7. HeldOpen'
    <3>1. ASSUME NEW x \in Requests, st'[x] \in Using
          PROVE  holds'[x] # None /\ server'[holds'[x]] \in {"loading", "running", "failed"}
      <4>1. CASE x = q
        BY <4>1, <2>1, <2>2 DEF Types, RequestTypes, RunnerTypes, SchedulerAssumption
      <4>2. CASE x # q
        <5>1. holds'[x] = holds[x] /\ st[x] \in Using
          BY <4>2, <3>1, <2>1, <2>2 DEF Types, RequestTypes
        <5>2. holds[x] # None /\ holds[x] \in Runners /\ Open(holds[x])
          BY <5>1, <1>0 DEF Counted, HeldOpen, Types, RequestTypes
        <5> QED BY <5>1, <5>2, <2>3, <2>5 DEF Open
      <4> QED BY <4>1, <4>2
    <3> QED BY <3>1 DEF HeldOpen, Open
  <2>8. Releasing'
    <3>1. cp = "finish" => creq \in Requests /\ creq # q
      BY <2>1 DEF PlacesInv, Types, LoopTypes
    <3>2. cp = "finish" => holds'[creq] = holds[creq]
      BY <3>1, <2>1, <2>2 DEF Types, RequestTypes
    <3>3. cp = "unload" => crun # q /\ crun \in Runners
      BY <2>1 DEF NamesBorn, Born, Types, LoopTypes
    <3>4. cp = "unload" => refCount'[crun] = refCount[crun] /\ server'[crun] = server[crun]
      BY <3>3, <2>5
    <3> QED BY <3>2, <3>4, <2>2, <1>0 DEF Counted, Releasing, Open
  <2> QED BY <2>6, <2>7, <2>8 DEF Counted
<1>6. CASE FailLoad
  <2>1. /\ \E s \in {"error"} : st' = [st EXCEPT ![preq] = s]
        /\ UNCHANGED <<refCount, holds, server, cp, crun, creq>>
    BY <1>6 DEF FailLoad, runnerVars, cVars
  <2>2. preq \in Requests /\ st[preq] \in {"scheduling"}
    BY <1>6 DEF FailLoad, Types, RequestTypes, LoopTypes, PlacesInv, ServerInv
  <2>3. UsersCounted' /\ HeldOpen'
    BY <2>1, <2>2, Kept, <1>0 DEF Counted, Open, Using, Types, RequestTypes
  <2> QED BY <2>1, <2>3, <1>0 DEF Counted, Releasing, Open
<1>7. CASE TakeFinished
  <2>1. PICK q \in Requests :
          /\ st[q] = "finishing"
          /\ \/ loaded[model[q]] = None
             \/ /\ cp' = "finish" /\ creq' = q /\ crun' = loaded[model[q]] /\ st' = st
    <3>1. finishedReqCh # <<>>
      BY <1>7 DEF TakeFinished
    <3>2. Head(finishedReqCh) \in Requests /\ st[Head(finishedReqCh)] = "finishing"
      BY <3>1, PopFront DEF Types, RequestTypes, PlacesInv
    <3> QED BY <1>7, <3>2 DEF TakeFinished
  <2>2. holds[q] \in Runners /\ Open(holds[q])
    BY <2>1, <1>0 DEF Counted, HeldOpen, Using, Types, RequestTypes
  <2>3. loaded[model[q]] = holds[q] /\ holds[q] # None
    BY <2>1, <2>2, <1>0 DEF MapInv, ServersAreLoaded, Counted, HeldOpen, Using
  <2>4. UNCHANGED <<refCount, holds, server>>
    BY <1>7 DEF TakeFinished, runnerVars
  <2>5. UsersCounted' /\ HeldOpen'
    BY <2>1, <2>3, <2>4, Kept, <1>0 DEF Counted, Open
  <2> QED BY <2>1, <2>3, <2>4, <2>5 DEF Counted, Releasing
<1>8. CASE ReleaseRunner
  <2>1. PICK q \in Requests, r \in Runners :
          q = creq /\ r = crun /\ st[q] = "finishing" /\ holds[q] = r /\ Open(r)
    BY <1>8, <1>0 DEF ReleaseRunner, PlacesInv, Counted, Releasing, HeldOpen, Using, Types, LoopTypes
  <2>2. /\ refCount' = [refCount EXCEPT ![r] = Decremented(refCount[r])]
        /\ st' = [st EXCEPT ![q] = "done"] /\ UNCHANGED <<holds, server>> /\ cp' = "idle"
    BY <1>8, <2>1 DEF ReleaseRunner
  <2>3. q \in Users(r) /\ Users(r)' = Users(r) \ {q}
    BY <2>1, <2>2 DEF Users, Types, RequestTypes
  <2>4. ASSUME NEW x \in Runners, x # r PROVE Users(x)' = Users(x) /\ refCount'[x] = refCount[x]
    BY <2>1, <2>2, <2>4 DEF Users, Types, RequestTypes, CountTypes
  <2>5. \A x \in Runners : Open(x)' <=> Open(x)
    BY <2>1, <2>2 DEF Open, Types, RunnerTypes
  <2>6. UsersCounted'
    <3>1. ASSUME NEW x \in Runners, Open(x)' PROVE refCount'[x] = Cardinality(Users(x)')
      <4>1. CASE x = r
        <5>1. refCount[r] = Cardinality(Users(r))
          BY <2>1, <1>0 DEF Counted, UsersCounted
        <5>2. refCount'[r] = Decremented(refCount[r])
          BY <2>1, <2>2 DEF Types, CountTypes
        <5> QED BY <4>1, <5>1, <5>2, <2>1, <2>3, Leaves
      <4>2. CASE x # r
        BY <4>2, <3>1, <2>4, <2>5, <1>0 DEF Counted, UsersCounted
      <4> QED BY <4>1, <4>2
    <3> QED BY <3>1 DEF UsersCounted
  <2>7. HeldOpen'
    <3>1. ASSUME NEW x \in Requests, st'[x] \in Using
          PROVE  holds'[x] # None /\ holds'[x] \in Runners /\ Open(holds'[x])
      BY <3>1, <2>1, <2>2, <1>0 DEF Counted, HeldOpen, Using, Types, RequestTypes
    <3>2. \A x \in Runners : Open(x) => server'[x] \in {"loading", "running", "failed"}
      BY <2>1, <2>2 DEF Open, Types, RunnerTypes
    <3> QED BY <3>1, <3>2 DEF HeldOpen, Open
  <2>8. Releasing'
    BY <2>2 DEF Releasing
  <2> QED BY <2>6, <2>7, <2>8 DEF Counted
<1>9. CASE TakeExpired
  <2>1. UNCHANGED <<refCount, holds, server, st>>
    BY <1>9 DEF TakeExpired, requestVars, runnerVars
  <2>2. UsersCounted' /\ HeldOpen'
    BY <2>1, Kept, <1>0 DEF Counted, Open
  <2>3. Releasing'
    BY <1>9, <2>1, <1>0 DEF TakeExpired, requestVars, runnerVars, Counted, Releasing, Open
  <2> QED BY <2>2, <2>3 DEF Counted
<1>10. CASE Unload
  <2>1. /\ crun \in Runners /\ server[crun] # "closed" /\ cp' = "converge"
        /\ server' = [server EXCEPT ![crun] = "closed"] /\ UNCHANGED <<refCount, st, holds>>
    BY <1>10 DEF Unload, requestVars, Types, LoopTypes
  <2>2. Open(crun) /\ refCount[crun] = 0
    <3>1. Open(crun)
      BY <1>10, <2>1 DEF Open, NamesBorn, Born, Types, RunnerTypes, LoopTypes, SchedulerAssumption, Runners
    <3> QED BY <1>10, <3>1, <1>0 DEF Unload, Counted, Releasing
  <2>3. Users(crun) = {}
    <3>1. Cardinality(Users(crun)) = 0
      BY <2>1, <2>2, <1>0 DEF Counted, UsersCounted
    <3> QED BY <3>1, <2>1, UsersBounded, FS_EmptySet
  <2>4. UsersCounted'
    <3>1. \A x \in Runners : Users(x)' = Users(x)
      BY <2>1 DEF Users
    <3>2. \A x \in Runners : Open(x)' => Open(x)
      BY <2>1 DEF Open, Types, RunnerTypes
    <3> QED BY <2>1, <3>1, <3>2, <1>0 DEF Counted, UsersCounted
  <2>5. HeldOpen'
    <3>1. ASSUME NEW x \in Requests, st[x] \in Using
          PROVE  holds[x] # None /\ server'[holds[x]] \in {"loading", "running", "failed"}
      <4>1. holds[x] # None /\ holds[x] \in Runners /\ Open(holds[x])
        BY <3>1, <1>0 DEF Counted, HeldOpen, Types, RequestTypes
      <4>2. holds[x] # crun
        BY <3>1, <2>3 DEF Users, Using
      <4> QED BY <4>1, <4>2, <2>1 DEF Open, Types, RunnerTypes
    <3> QED BY <3>1, <2>1 DEF HeldOpen, Open
  <2>6. Releasing'
    BY <2>1 DEF Releasing
  <2> QED BY <2>4, <2>5, <2>6 DEF Counted
<1>11. CASE SendUnloaded
  <2>1. UNCHANGED <<refCount, holds, server, st>>
    BY <1>11 DEF SendUnloaded, requestVars, runnerVars
  <2>2. UsersCounted' /\ HeldOpen'
    BY <2>1, Kept, <1>0 DEF Counted, Open
  <2>3. Releasing'
    BY <1>11, <2>1, <1>0 DEF SendUnloaded, requestVars, runnerVars, Counted, Releasing, Open
  <2> QED BY <2>2, <2>3 DEF Counted
<1>12. ASSUME NEW q \in Requests, GetRunner(q) PROVE Counted'
  <2>1. /\ \E s \in {"queued", "error"} : st' = [st EXCEPT ![q] = s]
        /\ UNCHANGED <<refCount, holds, server, cp, crun, creq>>
    BY <1>12 DEF GetRunner, runnerVars, cVars
  <2>2. q \in Requests /\ st[q] \in {"new"}
    BY <1>12 DEF GetRunner, Types, RequestTypes, LoopTypes, PlacesInv, ServerInv
  <2>3. UsersCounted' /\ HeldOpen'
    BY <2>1, <2>2, Kept, <1>0 DEF Counted, Open, Using, Types, RequestTypes
  <2> QED BY <2>1, <2>3, <1>0 DEF Counted, Releasing, Open
<1>13. ASSUME NEW q \in Requests, FinishRequest(q) PROVE Counted'
  <2>1. /\ \E s \in {"finishing"} : st' = [st EXCEPT ![q] = s]
        /\ UNCHANGED <<refCount, holds, server, cp, crun, creq>>
    BY <1>13 DEF FinishRequest, runnerVars, cVars
  <2>2. q \in Requests /\ st[q] \in {"using"}
    BY <1>13 DEF FinishRequest, Types, RequestTypes, LoopTypes, PlacesInv, ServerInv
  <2>3. UsersCounted' /\ HeldOpen'
    BY <2>1, <2>2, Kept, <1>0 DEF Counted, Open, Using, Types, RequestTypes
  <2> QED BY <2>1, <2>3, <1>0 DEF Counted, Releasing, Open
<1>14. ASSUME NEW q \in Requests, Reschedule(q) PROVE Counted'
  <2>1. /\ \E s \in {"queued"} : st' = [st EXCEPT ![q] = s]
        /\ UNCHANGED <<refCount, holds, server, cp, crun, creq>>
    BY <1>14 DEF Reschedule, runnerVars, cVars
  <2>2. q \in Requests /\ st[q] \in {"resched"}
    BY <1>14 DEF Reschedule, Types, RequestTypes, LoopTypes, PlacesInv, ServerInv
  <2>3. UsersCounted' /\ HeldOpen'
    BY <2>1, <2>2, Kept, <1>0 DEF Counted, Open, Using, Types, RequestTypes
  <2> QED BY <2>1, <2>3, <1>0 DEF Counted, Releasing, Open
<1>15. ASSUME NEW r \in Runners, LoadOk(r) PROVE Counted'
  <2>1. /\ server[r] = "loading" /\ server' = [server EXCEPT ![r] = "running"]
        /\ st' = [st EXCEPT ![r] = "using"] /\ UNCHANGED <<refCount, holds, cp, crun, creq>>
    BY <1>15 DEF LoadOk, cVars
  <2>2. st[r] = "loading" /\ r \in Requests
    BY <2>1 DEF ServerInv, Runners
  <2>3. \A x \in Runners : Open(x)' <=> Open(x)
    BY <2>1 DEF Open, Types, RunnerTypes
  <2>4. UsersCounted' /\ HeldOpen'
    BY <2>1, <2>2, <2>3, Kept, <1>0 DEF Counted, Using, Types, RequestTypes
  <2>5. cp = "unload" => crun # r
    BY <2>1 DEF ServerInv
  <2>6. cp = "unload" => crun \in Runners
    BY DEF Types, LoopTypes
  <2>7. Releasing'
    BY <2>1, <2>3, <2>6, <1>0 DEF Counted, Releasing
  <2> QED BY <2>4, <2>7 DEF Counted
<1>16. ASSUME NEW r \in Runners, LoadFail(r) PROVE Counted'
  <2>1. /\ r \in Requests /\ st[r] = "loading" /\ holds[r] = r /\ Open(r)
    BY <1>16 DEF LoadFail, ServerInv, Open, Runners
  <2>2. /\ refCount' = [refCount EXCEPT ![r] = Decremented(refCount[r])]
        /\ server' = [server EXCEPT ![r] = "failed"]
        /\ st' = [st EXCEPT ![r] = "error"] /\ UNCHANGED <<holds, cp, crun, creq>>
    BY <1>16 DEF LoadFail, cVars
  <2>3. r \in Users(r) /\ Users(r)' = Users(r) \ {r}
    BY <2>1, <2>2 DEF Users, Types, RequestTypes
  <2>4. ASSUME NEW x \in Runners, x # r PROVE Users(x)' = Users(x) /\ refCount'[x] = refCount[x]
    BY <2>1, <2>2, <2>4 DEF Users, Types, RequestTypes, CountTypes
  <2>5. \A x \in Runners : Open(x)' <=> Open(x)
    BY <2>1, <2>2 DEF Open, Types, RunnerTypes
  <2>6. UsersCounted'
    <3>1. ASSUME NEW x \in Runners, Open(x)' PROVE refCount'[x] = Cardinality(Users(x)')
      <4>1. CASE x = r
        <5>1. refCount[r] = Cardinality(Users(r))
          BY <2>1, <1>0 DEF Counted, UsersCounted
        <5>2. refCount'[r] = Decremented(refCount[r])
          BY <2>1, <2>2 DEF Types, CountTypes
        <5> QED BY <4>1, <5>1, <5>2, <2>1, <2>3, Leaves
      <4>2. CASE x # r
        BY <4>2, <3>1, <2>4, <2>5, <1>0 DEF Counted, UsersCounted
      <4> QED BY <4>1, <4>2
    <3> QED BY <3>1 DEF UsersCounted
  <2>7. HeldOpen'
    <3>1. ASSUME NEW x \in Requests, st'[x] \in Using
          PROVE  holds'[x] # None /\ holds'[x] \in Runners /\ Open(holds'[x])
      BY <3>1, <2>1, <2>2, <1>0 DEF Counted, HeldOpen, Using, Types, RequestTypes
    <3>2. \A x \in Runners : Open(x) => server'[x] \in {"loading", "running", "failed"}
      BY <2>1, <2>2 DEF Open, Types, RunnerTypes
    <3> QED BY <3>1, <3>2 DEF HeldOpen, Open
  <2>8. Releasing'
    <3>1. cp = "unload" => crun # r /\ crun \in Runners
      BY <1>16 DEF LoadFail, ServerInv, Types, LoopTypes
    <3>2. cp = "unload" => refCount'[crun] = refCount[crun] /\ (Open(crun)' <=> Open(crun))
      BY <3>1, <2>2, <2>4 DEF Open, Types, RunnerTypes
    <3> QED BY <3>2, <2>2, <1>0 DEF Counted, Releasing
  <2> QED BY <2>6, <2>7, <2>8 DEF Counted
<1> QED
  BY <1>1, <1>2, <1>3, <1>4, <1>5, <1>6, <1>7, <1>8, <1>9, <1>10, <1>11, <1>12, <1>13,
     <1>14, <1>15, <1>16
     DEF Next, ProcessPending, ProcessCompleted, Others

-----------------------------------------------------------------------------
(* The inductive invariant.                                                *)
IInv ==
    /\ Types /\ PendingInv /\ EventsBorn /\ TimersBorn /\ NamesBorn
    /\ PlacesInv /\ ServerInv /\ MapInv /\ CountInv

LEMMA Initially == ASSUME SchedulerAssumption, Init PROVE IInv
<1>. USE DEF Init
<1>1. Types
  <2>1. Requests # {} => 0 \in 0..RefMod - 1
    BY Modulus
  <2>2. RequestTypes
    BY DEF RequestTypes
  <2>3. RunnerTypes
    <3>1. max_runners \in Limits /\ stops \in 0..MaxStops /\ unloadedCh \in Nat
      BY DEF SchedulerAssumption
    <3>2. sessionDuration \in [Runners -> Durations]
      BY DEF Durations
    <3>3. expiredCh \in Seq(Runners) /\ loaded \in [Models -> Runners \union {None}]
      OBVIOUS
    <3> QED BY <3>1, <3>2, <3>3 DEF RunnerTypes
  <2>4. LoopTypes
    BY DEF LoopTypes
  <2>5. CountTypes
    BY <2>1 DEF CountTypes, Runners
  <2> QED BY <2>2, <2>3, <2>4, <2>5 DEF Types
<1>2. ToSet(pendingReqCh) = {} /\ ToSet(finishedReqCh) = {} /\ ToSet(expiredCh) = {} /\ ToSet(plist) = {}
  BY DEF ToSet
<1>3. PendingInv /\ EventsBorn /\ NamesBorn
  BY <1>2 DEF PendingInv, EventsBorn, NamesBorn
<1>4. TimersBorn
  BY DEF TimersBorn
<1>5. PlacesInv
  <2>1. IsInjective(pendingReqCh) /\ IsInjective(finishedReqCh)
    BY DEF IsInjective
  <2> QED BY <1>2, <2>1 DEF PlacesInv
<1>6. ServerInv
  BY DEF ServerInv, Runners
<1>7. MapInv
  <2>1. \A r \in Runners : ~Open(r) /\ r # None /\ model[r] \in Models
    BY DEF Open, Runners, SchedulerAssumption
  <2> QED BY <2>1 DEF MapInv, ServersAreLoaded
<1>8. CountInv
  BY DEF CountInv, Counted, UsersCounted, HeldOpen, Releasing, Open, Using, Runners
<1> QED BY <1>1, <1>3, <1>4, <1>5, <1>6, <1>7, <1>8 DEF IInv

THEOREM Inductive == Spec => []IInv
<1>1. Init => IInv
  BY Initially, SchedulerAssumption
<1>2. IInv /\ [Next]_vars => IInv'
  <2> SUFFICES ASSUME IInv, [Next]_vars PROVE IInv'
    OBVIOUS
  <2>. USE SchedulerAssumption DEF IInv
  <2>1. Types'
    BY RequestTypesStep, RunnerTypesStep, CountTypesStep, LoopTypesStep DEF Types
  <2>2. PendingInv'
    BY <2>1, PendingStep
  <2>3. EventsBorn'
    BY <2>1, EventsBornStep
  <2>4. TimersBorn'
    BY <2>1, TimersBornStep
  <2>5. NamesBorn'
    BY <2>1, NamesBornStep
  <2>6. PlacesInv'
    BY <2>1, PlacesStep
  <2>7. ServerInv'
    BY <2>1, ServerStep
  <2>8. MapInv'
    BY <2>1, MapStep
  <2>9. CountInv'
    BY <2>1, CountStep
  <2> QED BY <2>1, <2>2, <2>3, <2>4, <2>5, <2>6, <2>7, <2>8, <2>9
<1> QED BY <1>1, <1>2, PTL DEF Spec

(* The type invariant, for all requests, models and capacities.            *)
THEOREM TypeCorrect == Spec => []TypeOK
<1>1. IInv => TypeOK
  BY Split DEF IInv
<1> QED BY <1>1, Inductive, PTL

(* The map of loaded runners holds exactly the servers that are there: the *)
(* loader of a model finds no entry for it (PendingInv), and what is       *)
(* unloaded was loaded (NamesBorn).                                        *)
THEOREM ServersLoaded == Spec => []ServersAreLoaded
<1>1. IInv => ServersAreLoaded
  BY DEF IInv, MapInv
<1> QED BY <1>1, Inductive, PTL

(* refCount of an open runner is the number of requests that load it, use  *)
(* it, or have finished and not been seen, unless a closed runner was      *)
(* given out.                                                              *)
THEOREM UsersAreCounted == Spec => []RefCountsUsers
<1>1. IInv => RefCountsUsers
  BY DEF IInv, CountInv, Counted, UsersCounted, RefCountsUsers
<1> QED BY <1>1, Inductive, PTL

(* Under the same condition nothing closes a runner that a request uses.   *)
THEOREM UsedStaysOpen == Spec => []InUseStaysOpen
<1>1. IInv => InUseStaysOpen
  BY DEF IInv, CountInv, Counted, HeldOpen, Using, InUseStaysOpen
<1> QED BY <1>1, Inductive, PTL
=============================================================================
