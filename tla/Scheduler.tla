----------------------------- MODULE Scheduler -----------------------------
(***************************************************************************)
(* The scheduler of ollama_openvino (server/sched.go): which model servers *)
(* run, and which request uses which of them.                              *)
(*                                                                         *)
(* Two goroutines share the map of loaded runners: processPending takes    *)
(* requests, one at a time, and finds, loads or makes room for a runner;   *)
(* processCompleted counts finished requests and unloads expired runners.  *)
(* Around them run a loader for every runner that starts, the callbacks of *)
(* the expiration timers, the goroutines that repeat an expired event, and *)
(* the handlers that ask for runners, cancel, and stop models.             *)
(*                                                                         *)
(* A request loads at most one runner, so the runner is named after it.    *)
(* The locks are derived from the places that hold them across two steps   *)
(* (RefMuFree, LoadedMuFree); every other critical section is one action.  *)
(***************************************************************************)
EXTENDS Integers, Sequences, FiniteSets, SequencesExt

CONSTANTS
    Requests, Models,
    Gguf,             \* the models whose fit is computed (the rest: OpenVINO)
    Limits,           \* values of OLLAMA_MAX_LOADED_MODELS to look at
    MaxQueue,         \* OLLAMA_MAX_QUEUE, the capacity of pendingReqCh
    MaxStops,         \* bound: calls of expireRunner
    RefMod,           \* refCount is unsigned: it wraps at RefMod
    None

ASSUME SchedulerAssumption ==
    /\ Gguf \subseteq Models
    /\ Limits \subseteq Nat \ {0} /\ MaxQueue \in Nat \ {0} /\ MaxStops \in Nat
    /\ IsFiniteSet(Requests) /\ RefMod \in Nat /\ RefMod > Cardinality(Requests)
    /\ None \notin Requests \union Models

Runners == Requests

VARIABLES
    max_runners,      \* OLLAMA_MAX_LOADED_MODELS
    model,            \* the model of each request
    st,               \* where each request is
    cancelled,        \* the context of the request ended while it waited
    holds,            \* the runner a request was given, or loads
    pendingReqCh, finishedReqCh, expiredCh,
    unloadedCh,       \* number of events in it
    loaded,           \* the runner of each model
    server,           \* none, loading, running, failed (to load) or closed
    refCount,
    sessionDuration,  \* zero or some
    expireTimer,      \* nil, armed or fired
    callbacks,        \* callbacks of the timer that began and wait for refMu
    retries,          \* goroutines that will repeat an expired event
    pp, preq, prun, plist,    \* processPending: place, pending, runner, list
    cp, creq, crun,           \* processCompleted: place, finished, runner
    stopping,         \* the runner expireRunner waits for, holding loadedMu
    stops,
    crashed,          \* the process ended in a nil dereference
    tainted           \* a request was given a runner that is closed (history)

requestVars == <<st, cancelled, holds>>
runnerVars == <<server, refCount, sessionDuration, expireTimer, callbacks>>
pVars == <<pp, preq, prun, plist>>
cVars == <<cp, creq, crun>>
stopVars == <<stopping, stops>>
vars == <<max_runners, model, requestVars, pendingReqCh, finishedReqCh, expiredCh,
          unloadedCh, loaded, runnerVars, retries, pVars, cVars, stopVars,
          crashed, tainted>>
fixed == <<max_runners, model>>

(* The loader holds refMu while the server starts, and processCompleted    *)
(* while it waits for loadedMu to unload the runner.                       *)
RefMuFree(r) == server[r] # "loading" /\ ~(cp = "unload" /\ crun = r)

(* expireRunner and updateFreeSpace hold loadedMu while they wait for the  *)
(* refMu of a runner.                                                      *)
LoadedMuFree == stopping = None /\ pp \notin {"measure", "measure_busy"}

LoadedRunners == {loaded[m] : m \in Models} \ {None}
Durations == {"zero", "some"}
Decremented(n) == (n + RefMod - 1) % RefMod

Init ==
    /\ max_runners \in Limits
    /\ model \in [Requests -> Models]
    /\ st = [q \in Requests |-> "new"]
    /\ cancelled = [q \in Requests |-> FALSE]
    /\ holds = [q \in Requests |-> None]
    /\ pendingReqCh = <<>> /\ finishedReqCh = <<>> /\ expiredCh = <<>> /\ unloadedCh = 0
    /\ loaded = [m \in Models |-> None]
    /\ server = [r \in Runners |-> "none"]
    /\ refCount = [r \in Runners |-> 0]
    /\ sessionDuration = [r \in Runners |-> "some"]
    /\ expireTimer = [r \in Runners |-> "nil"]
    /\ callbacks = [r \in Runners |-> 0]
    /\ retries = [r \in Runners |-> 0]
    /\ pp = "idle" /\ preq = None /\ prun = None /\ plist = <<>>
    /\ cp = "idle" /\ creq = None /\ crun = None
    /\ stopping = None /\ stops = 0
    /\ crashed = FALSE /\ tainted = FALSE

-----------------------------------------------------------------------------
(* The handlers.                                                           *)

(* GetRunner and GetOvRunner queue the request, or refuse it.              *)
GetRunner(q) ==
    /\ st[q] = "new"
    /\ \/ /\ Len(pendingReqCh) < MaxQueue
          /\ st' = [st EXCEPT ![q] = "queued"]
          /\ pendingReqCh' = Append(pendingReqCh, q)
       \/ /\ Len(pendingReqCh) >= MaxQueue
          /\ st' = [st EXCEPT ![q] = "error"]
          /\ UNCHANGED pendingReqCh
    /\ UNCHANGED <<fixed, cancelled, holds, finishedReqCh, expiredCh, unloadedCh, loaded,
                   runnerVars, retries, pVars, cVars, stopVars, crashed, tainted>>

(* The client goes away while its request waits.                           *)
Cancel(q) ==
    /\ st[q] \in {"queued", "scheduling", "resched", "loading"}
    /\ ~cancelled[q]
    /\ cancelled' = [cancelled EXCEPT ![q] = TRUE]
    /\ UNCHANGED <<fixed, st, holds, pendingReqCh, finishedReqCh, expiredCh, unloadedCh,
                   loaded, runnerVars, retries, pVars, cVars, stopVars, crashed, tainted>>

(* The handler is through with the runner: the context ends, and the       *)
(* goroutine that waits for that sends the request to finishedReqCh.       *)
FinishRequest(q) ==
    /\ st[q] = "using"
    /\ st' = [st EXCEPT ![q] = "finishing"]
    /\ finishedReqCh' = Append(finishedReqCh, q)
    /\ UNCHANGED <<fixed, cancelled, holds, pendingReqCh, expiredCh, unloadedCh, loaded,
                   runnerVars, retries, pVars, cVars, stopVars, crashed, tainted>>

(* expireRunner takes loadedMu, and then refMu of the runner it found.     *)
StopModel(m) ==
    /\ stops < MaxStops /\ LoadedMuFree
    /\ loaded[m] # None
    /\ stopping' = loaded[m] /\ stops' = stops + 1
    /\ UNCHANGED <<fixed, requestVars, pendingReqCh, finishedReqCh, expiredCh, unloadedCh,
                   loaded, runnerVars, retries, pVars, cVars, crashed, tainted>>

(* An expired event is sent only if nobody uses the runner.                *)
Expired(r) == expiredCh' = IF refCount[r] = 0 THEN Append(expiredCh, r) ELSE expiredCh

StopRunner ==
    /\ stopping # None /\ RefMuFree(stopping)
    /\ expireTimer' = [expireTimer EXCEPT ![stopping] = "nil"]
    /\ sessionDuration' = [sessionDuration EXCEPT ![stopping] = "zero"]
    /\ Expired(stopping)
    /\ stopping' = None
    /\ UNCHANGED <<fixed, requestVars, pendingReqCh, finishedReqCh, unloadedCh, loaded,
                   server, refCount, callbacks, retries, pVars, cVars, stops, crashed,
                   tainted>>

-----------------------------------------------------------------------------
(* processPending.                                                         *)

TakePending ==
    /\ pp = "idle" /\ pendingReqCh # <<>>
    /\ LET q == Head(pendingReqCh)
       IN \/ /\ cancelled[q]
             /\ st' = [st EXCEPT ![q] = "dropped"]
             /\ UNCHANGED <<pp, preq>>
          \/ /\ ~cancelled[q]
             /\ st' = [st EXCEPT ![q] = "scheduling"]
             /\ pp' = "lookup" /\ preq' = q
    /\ pendingReqCh' = Tail(pendingReqCh)
    /\ UNCHANGED <<fixed, cancelled, holds, finishedReqCh, expiredCh, unloadedCh, loaded,
                   runnerVars, retries, prun, plist, cVars, stopVars, crashed, tainted>>

(* An unload that no pending request waits for.                            *)
IgnoreUnloaded ==
    /\ pp = "idle" /\ unloadedCh > 0
    /\ unloadedCh' = unloadedCh - 1
    /\ UNCHANGED <<fixed, requestVars, pendingReqCh, finishedReqCh, expiredCh, loaded,
                   runnerVars, retries, pVars, cVars, stopVars, crashed, tainted>>

(* Where the loop goes after it looked at the map: with more than one      *)
(* model, on a CPU the fit is known at once, on GPUs it is measured.       *)
AfterLookup(m) ==
    LET n == Cardinality(LoadedRunners)
    IN CASE loaded[m] # None -> {"check"}
         [] loaded[m] = None /\ n >= max_runners -> {"find"}
         [] loaded[m] = None /\ n < max_runners /\ m \in Gguf /\ n > 0
              -> {"load", "find", "filter"}
         [] OTHER -> {"load"}

LookUp ==
    /\ pp = "lookup" /\ LoadedMuFree
    /\ pp' \in AfterLookup(model[preq])
    /\ prun' = loaded[model[preq]]
    /\ UNCHANGED <<fixed, requestVars, pendingReqCh, finishedReqCh, expiredCh, unloadedCh,
                   loaded, runnerVars, retries, preq, plist, cVars, stopVars, crashed,
                   tainted>>

(* needsReload: other options, a server that does not answer, or a runner  *)
(* that was unloaded since it was looked up.                               *)
NeedsReload ==
    /\ pp = "check" /\ RefMuFree(prun)
    /\ pp' \in (IF server[prun] = "closed" THEN {"expire"} ELSE {"expire", "use"})
    /\ UNCHANGED <<fixed, requestVars, pendingReqCh, finishedReqCh, expiredCh, unloadedCh,
                   loaded, runnerVars, retries, preq, prun, plist, cVars, stopVars,
                   crashed, tainted>>

(* Mutant: a user of a loaded runner is not counted.                       *)
Mut_UseUncounted ==
    /\ pp = "use" /\ RefMuFree(prun)
    /\ expireTimer' = [expireTimer EXCEPT ![prun] = "nil"]
    /\ \E d \in Durations : sessionDuration' = [sessionDuration EXCEPT ![prun] = d]
    /\ st' = [st EXCEPT ![preq] = "using"] /\ holds' = [holds EXCEPT ![preq] = prun]
    /\ tainted' = (tainted \/ server[prun] = "closed")
    /\ pp' = "idle" /\ preq' = None /\ prun' = None
    /\ UNCHANGED <<fixed, cancelled, pendingReqCh, finishedReqCh, expiredCh, unloadedCh,
                   loaded, server, refCount, callbacks, retries, plist, cVars, stopVars, crashed>>

(* The handler waits for successCh, so it has the runner at once.          *)
UseLoadedRunner ==
    /\ pp = "use" /\ RefMuFree(prun)
    /\ refCount' = [refCount EXCEPT ![prun] = (@ + 1) % RefMod]
    /\ expireTimer' = [expireTimer EXCEPT ![prun] = "nil"]
    /\ \E d \in Durations : sessionDuration' = [sessionDuration EXCEPT ![prun] = d]
    /\ st' = [st EXCEPT ![preq] = "using"]
    /\ holds' = [holds EXCEPT ![preq] = prun]
    /\ tainted' = (tainted \/ server[prun] = "closed")
    /\ pp' = "idle" /\ preq' = None /\ prun' = None
    /\ UNCHANGED <<fixed, cancelled, pendingReqCh, finishedReqCh, expiredCh, unloadedCh,
                   loaded, server, callbacks, retries, plist, cVars, stopVars, crashed>>

(* filterGPUsWithoutLoadingModels, and updateFreeSpace up to its loop.     *)
FilterGPUs ==
    /\ pp = "filter" /\ LoadedMuFree
    /\ plist' \in SetToSeqs(LoadedRunners)
    /\ \/ pp' = "measure"
       \/ pp' = "measure_busy" /\ \E r \in LoadedRunners : server[r] \in {"loading", "failed"}
    /\ UNCHANGED <<fixed, requestVars, pendingReqCh, finishedReqCh, expiredCh, unloadedCh,
                   loaded, runnerVars, retries, preq, prun, cVars, stopVars, crashed,
                   tainted>>

UpdateFreeSpace ==
    /\ pp \in {"measure", "measure_busy"} /\ plist # <<>>
    /\ RefMuFree(Head(plist))
    /\ plist' = Tail(plist)
    /\ UNCHANGED <<fixed, requestVars, pendingReqCh, finishedReqCh, expiredCh, unloadedCh,
                   loaded, runnerVars, retries, pp, preq, prun, cVars, stopVars, crashed,
                   tainted>>

(* The new model fits or room must be made, unless other models were       *)
(* loading: then the request goes to the back of the queue.                *)
PickBestFit ==
    /\ pp \in {"measure", "measure_busy"} /\ plist = <<>>
    /\ \/ /\ pp' = "load"
          /\ UNCHANGED <<st, preq>>
       \/ /\ pp = "measure" /\ pp' = "find"
          /\ UNCHANGED <<st, preq>>
       \/ /\ pp = "measure_busy" /\ pp' = "idle"
          /\ st' = [st EXCEPT ![preq] = "resched"]
          /\ preq' = None
    /\ UNCHANGED <<fixed, cancelled, holds, pendingReqCh, finishedReqCh, expiredCh,
                   unloadedCh, loaded, runnerVars, retries, prun, plist, cVars, stopVars,
                   crashed, tainted>>

Reschedule(q) ==
    /\ st[q] = "resched" /\ Len(pendingReqCh) < MaxQueue
    /\ st' = [st EXCEPT ![q] = "queued"]
    /\ pendingReqCh' = Append(pendingReqCh, q)
    /\ UNCHANGED <<fixed, cancelled, holds, finishedReqCh, expiredCh, unloadedCh, loaded,
                   runnerVars, retries, pVars, cVars, stopVars, crashed, tainted>>

(* load: the runner is in the map before its server runs, counted for the  *)
(* request that loads it.                                                  *)
Load ==
    /\ pp = "load" /\ LoadedMuFree
    /\ server' = [server EXCEPT ![preq] = "loading"]
    /\ refCount' = [refCount EXCEPT ![preq] = 1]
    /\ \E d \in Durations : sessionDuration' = [sessionDuration EXCEPT ![preq] = d]
    /\ loaded' = [loaded EXCEPT ![model[preq]] = preq]
    /\ st' = [st EXCEPT ![preq] = "loading"]
    /\ holds' = [holds EXCEPT ![preq] = preq]
    /\ pp' = "idle" /\ preq' = None
    /\ UNCHANGED <<fixed, cancelled, pendingReqCh, finishedReqCh, expiredCh, unloadedCh,
                   expireTimer, callbacks, retries, prun, plist, cVars, stopVars, crashed,
                   tainted>>

(* The model cannot be read, or its server not be created.                 *)
FailLoad ==
    /\ pp = "load"
    /\ st' = [st EXCEPT ![preq] = "error"]
    /\ pp' = "idle" /\ preq' = None
    /\ UNCHANGED <<fixed, cancelled, holds, pendingReqCh, finishedReqCh, expiredCh,
                   unloadedCh, loaded, runnerVars, retries, prun, plist, cVars, stopVars,
                   crashed, tainted>>

(* findRunnerToUnload: the runners by their duration, ...                  *)
ByDuration(s) ==
    \A i, j \in DOMAIN s :
        sessionDuration[s[i]] = "some" /\ sessionDuration[s[j]] = "zero" => j < i

FindRunner ==
    /\ pp = "find" /\ LoadedMuFree
    /\ \/ /\ LoadedRunners = {}
          /\ pp' = "lookup"
          /\ UNCHANGED <<prun, plist>>
       \/ /\ plist' \in {s \in SetToSeqs(LoadedRunners) : s # <<>> /\ ByDuration(s)}
          /\ prun' = Head(plist') /\ pp' = "pick"
    /\ UNCHANGED <<fixed, requestVars, pendingReqCh, finishedReqCh, expiredCh, unloadedCh,
                   loaded, runnerVars, retries, preq, cVars, stopVars, crashed, tainted>>

(* ... the first of them that is idle, or else the first.                  *)
PickRunner ==
    /\ pp = "pick" /\ plist # <<>> /\ RefMuFree(Head(plist))
    /\ IF refCount[Head(plist)] = 0
       THEN prun' = Head(plist) /\ plist' = <<>> /\ pp' = "expire"
       ELSE /\ plist' = Tail(plist)
            /\ pp' = IF Tail(plist) = <<>> THEN "expire" ELSE "pick"
            /\ UNCHANGED prun
    /\ UNCHANGED <<fixed, requestVars, pendingReqCh, finishedReqCh, expiredCh, unloadedCh,
                   loaded, runnerVars, retries, preq, cVars, stopVars, crashed, tainted>>

(* Mutant: the runner is only told to expire, it keeps its duration.       *)
Mut_ExpireKeepsDuration ==
    /\ pp = "expire" /\ RefMuFree(prun)
    /\ expireTimer' = [expireTimer EXCEPT ![prun] = "nil"]
    /\ Expired(prun)
    /\ pp' = "wait" /\ prun' = None
    /\ UNCHANGED <<fixed, requestVars, pendingReqCh, finishedReqCh, unloadedCh, loaded,
                   server, refCount, sessionDuration, callbacks, retries, preq, plist,
                   cVars, stopVars, crashed, tainted>>

(* The runner is to expire as soon as it is idle.                          *)
ExpireToMakeRoom ==
    /\ pp = "expire" /\ RefMuFree(prun)
    /\ expireTimer' = [expireTimer EXCEPT ![prun] = "nil"]
    /\ sessionDuration' = [sessionDuration EXCEPT ![prun] = "zero"]
    /\ Expired(prun)
    /\ pp' = "wait" /\ prun' = None
    /\ UNCHANGED <<fixed, requestVars, pendingReqCh, finishedReqCh, unloadedCh, loaded,
                   server, refCount, callbacks, retries, preq, plist, cVars, stopVars,
                   crashed, tainted>>

(* Any unload ends the wait.                                               *)
WaitUnloaded ==
    /\ pp = "wait" /\ unloadedCh > 0
    /\ unloadedCh' = unloadedCh - 1
    /\ pp' = "lookup"
    /\ UNCHANGED <<fixed, requestVars, pendingReqCh, finishedReqCh, expiredCh, loaded,
                   runnerVars, retries, preq, prun, plist, cVars, stopVars, crashed,
                   tainted>>

-----------------------------------------------------------------------------
(* The loader of a runner: WaitUntilRunning returns.                       *)

LoadOk(r) ==
    /\ server[r] = "loading"
    /\ server' = [server EXCEPT ![r] = "running"]
    /\ st' = [st EXCEPT ![r] = "using"]
    /\ UNCHANGED <<fixed, cancelled, holds, pendingReqCh, finishedReqCh, expiredCh,
                   unloadedCh, loaded, refCount, sessionDuration, expireTimer, callbacks,
                   retries, pVars, cVars, stopVars, crashed, tainted>>

LoadFail(r) ==
    /\ server[r] = "loading"
    /\ server' = [server EXCEPT ![r] = "failed"]
    /\ refCount' = [refCount EXCEPT ![r] = Decremented(@)]
    /\ st' = [st EXCEPT ![r] = "error"]
    /\ expiredCh' = Append(expiredCh, r)
    /\ UNCHANGED <<fixed, cancelled, holds, pendingReqCh, finishedReqCh, unloadedCh,
                   loaded, sessionDuration, expireTimer, callbacks, retries, pVars, cVars,
                   stopVars, crashed, tainted>>

(* The timer of an idle runner runs out; Stop does not hold up a callback  *)
(* that has begun.                                                         *)
TimerFires(r) ==
    /\ expireTimer[r] = "armed"
    /\ expireTimer' = [expireTimer EXCEPT ![r] = "fired"]
    /\ callbacks' = [callbacks EXCEPT ![r] = @ + 1]
    /\ UNCHANGED <<fixed, requestVars, pendingReqCh, finishedReqCh, expiredCh, unloadedCh,
                   loaded, server, refCount, sessionDuration, retries, pVars, cVars,
                   stopVars, crashed, tainted>>

TimerCallback(r) ==
    /\ callbacks[r] > 0 /\ RefMuFree(r)
    /\ callbacks' = [callbacks EXCEPT ![r] = @ - 1]
    /\ expireTimer' = [expireTimer EXCEPT ![r] = "nil"]
    /\ expiredCh' = Append(expiredCh, r)
    /\ UNCHANGED <<fixed, requestVars, pendingReqCh, finishedReqCh, unloadedCh, loaded,
                   server, refCount, sessionDuration, retries, pVars, cVars, stopVars,
                   crashed, tainted>>

-----------------------------------------------------------------------------
(* processCompleted.                                                       *)

(* Mutant: a finished request whose runner is gone is not left alone.      *)
Mut_FinishedUnchecked ==
    /\ cp = "idle" /\ finishedReqCh # <<>> /\ LoadedMuFree
    /\ cp' = "finish" /\ creq' = Head(finishedReqCh) /\ crun' = loaded[model[creq']]
    /\ finishedReqCh' = Tail(finishedReqCh)
    /\ UNCHANGED <<fixed, requestVars, pendingReqCh, expiredCh, unloadedCh, loaded,
                   runnerVars, retries, pVars, stopVars, crashed, tainted>>

(* A finished request; its runner is looked up by the name of the model.   *)
TakeFinished ==
    /\ cp = "idle" /\ finishedReqCh # <<>> /\ LoadedMuFree
    /\ LET q == Head(finishedReqCh)
           r == loaded[model[q]]
       IN \/ /\ r = None
             /\ st' = [st EXCEPT ![q] = "done"]
             /\ UNCHANGED cVars
          \/ /\ r # None
             /\ cp' = "finish" /\ creq' = q /\ crun' = r
             /\ UNCHANGED st
    /\ finishedReqCh' = Tail(finishedReqCh)
    /\ UNCHANGED <<fixed, cancelled, holds, pendingReqCh, expiredCh, unloadedCh, loaded,
                   runnerVars, retries, pVars, stopVars, crashed, tainted>>

(* The last user of a runner unloads it or starts its timer.               *)
ReleaseRunner ==
    /\ cp = "finish" /\ RefMuFree(crun)
    /\ LET n == Decremented(refCount[crun])
           idle == n = 0
       IN /\ refCount' = [refCount EXCEPT ![crun] = n]
          /\ expireTimer' = [expireTimer EXCEPT ![crun] =
                IF ~idle THEN @
                ELSE IF sessionDuration[crun] = "zero" THEN "nil" ELSE "armed"]
          /\ expiredCh' = IF idle /\ sessionDuration[crun] = "zero"
                          THEN Append(expiredCh, crun) ELSE expiredCh
    /\ st' = [st EXCEPT ![creq] = "done"]
    /\ cp' = "idle" /\ creq' = None /\ crun' = None
    /\ UNCHANGED <<fixed, cancelled, holds, pendingReqCh, finishedReqCh, unloadedCh,
                   loaded, server, sessionDuration, callbacks, retries, pVars, stopVars,
                   crashed, tainted>>

(* Mutant: an expired runner is unloaded although it is in use.            *)
Mut_UnloadInUse ==
    /\ cp = "idle" /\ expiredCh # <<>> /\ RefMuFree(Head(expiredCh))
    /\ cp' = "unload" /\ crun' = Head(expiredCh)
    /\ expiredCh' = Tail(expiredCh)
    /\ UNCHANGED <<fixed, requestVars, pendingReqCh, finishedReqCh, unloadedCh, loaded,
                   runnerVars, retries, pVars, creq, stopVars, crashed, tainted>>

(* An expired event: a runner in use is left alone and looked at later.    *)
TakeExpired ==
    /\ cp = "idle" /\ expiredCh # <<>> /\ RefMuFree(Head(expiredCh))
    /\ LET r == Head(expiredCh)
       IN \/ /\ refCount[r] > 0
             /\ retries' = [retries EXCEPT ![r] = @ + 1]
             /\ UNCHANGED <<cp, crun>>
          \/ /\ refCount[r] = 0
             /\ cp' = "unload" /\ crun' = r
             /\ UNCHANGED retries
    /\ expiredCh' = Tail(expiredCh)
    /\ UNCHANGED <<fixed, requestVars, pendingReqCh, finishedReqCh, unloadedCh, loaded,
                   runnerVars, pVars, creq, stopVars, crashed, tainted>>

RetryExpired(r) ==
    /\ retries[r] > 0
    /\ retries' = [retries EXCEPT ![r] = @ - 1]
    /\ expiredCh' = Append(expiredCh, r)
    /\ UNCHANGED <<fixed, requestVars, pendingReqCh, finishedReqCh, unloadedCh, loaded,
                   runnerVars, pVars, cVars, stopVars, crashed, tainted>>

(* Mutant: the runner that is unloaded stays in the map.                   *)
Mut_UnloadKeepsLoaded ==
    /\ cp = "unload" /\ LoadedMuFree /\ server[crun] # "closed"
    /\ server' = [server EXCEPT ![crun] = "closed"]
    /\ expireTimer' = [expireTimer EXCEPT ![crun] = "nil"]
    /\ cp' = "converge" /\ crun' = None
    /\ UNCHANGED <<fixed, requestVars, pendingReqCh, finishedReqCh, expiredCh, unloadedCh,
                   loaded, refCount, sessionDuration, callbacks, retries, pVars, creq,
                   stopVars, crashed, tainted>>

(* Under both locks: the server is closed and the model leaves the map.    *)
Unload ==
    /\ cp = "unload" /\ LoadedMuFree /\ server[crun] # "closed"
    /\ server' = [server EXCEPT ![crun] = "closed"]
    /\ expireTimer' = [expireTimer EXCEPT ![crun] = "nil"]
    /\ loaded' = [loaded EXCEPT ![model[crun]] = None]
    /\ cp' = "converge" /\ crun' = None
    /\ UNCHANGED <<fixed, requestVars, pendingReqCh, finishedReqCh, expiredCh, unloadedCh,
                   refCount, sessionDuration, callbacks, retries, pVars, creq, stopVars,
                   crashed, tainted>>

(* A runner that was unloaded before has no model any more: the name of    *)
(* the model is read through a nil pointer.                                *)
UnloadTwice ==
    /\ cp = "unload" /\ LoadedMuFree /\ server[crun] = "closed"
    /\ crashed' = TRUE
    /\ UNCHANGED <<fixed, requestVars, pendingReqCh, finishedReqCh, expiredCh, unloadedCh,
                   loaded, runnerVars, retries, pVars, cVars, stopVars, tainted>>

(* The memory has come back, or five seconds have passed.                  *)
SendUnloaded ==
    /\ cp = "converge"
    /\ unloadedCh' = unloadedCh + 1
    /\ cp' = "idle"
    /\ UNCHANGED <<fixed, requestVars, pendingReqCh, finishedReqCh, expiredCh, loaded,
                   runnerVars, retries, pVars, creq, crun, stopVars, crashed, tainted>>

-----------------------------------------------------------------------------
ProcessPending ==
    \/ TakePending \/ IgnoreUnloaded \/ LookUp \/ NeedsReload \/ UseLoadedRunner
    \/ FilterGPUs \/ UpdateFreeSpace \/ PickBestFit \/ Load \/ FailLoad
    \/ FindRunner \/ PickRunner \/ ExpireToMakeRoom \/ WaitUnloaded

ProcessCompleted ==
    \/ TakeFinished \/ ReleaseRunner \/ TakeExpired \/ Unload \/ UnloadTwice
    \/ SendUnloaded

Others ==
    \/ \E q \in Requests : GetRunner(q) \/ Cancel(q) \/ FinishRequest(q) \/ Reschedule(q)
    \/ \E m \in Models : StopModel(m)
    \/ StopRunner
    \/ \E r \in Runners : \/ LoadOk(r) \/ LoadFail(r) \/ TimerFires(r) \/ TimerCallback(r)
                          \/ RetryExpired(r)

Next == ~crashed /\ (ProcessPending \/ ProcessCompleted \/ Others)

Running(A) == ~crashed /\ A

Fairness ==
    /\ WF_vars(Running(ProcessPending))
    /\ WF_vars(Running(ProcessCompleted)) /\ WF_vars(Running(TakeFinished))
    /\ WF_vars(Running(StopRunner))
    /\ \A q \in Requests : WF_vars(Running(FinishRequest(q) \/ Reschedule(q)))
    /\ \A r \in Runners : /\ WF_vars(Running(LoadOk(r) \/ LoadFail(r)))
                          /\ WF_vars(Running(TimerCallback(r)))
                          /\ WF_vars(Running(RetryExpired(r)))

Spec == Init /\ [][Next]_vars /\ Fairness
-----------------------------------------------------------------------------
TypeOK ==
    /\ max_runners \in Limits /\ model \in [Requests -> Models]
    /\ st \in [Requests -> {"new", "queued", "scheduling", "resched", "loading", "using",
                            "finishing", "done", "error", "dropped"}]
    /\ cancelled \in [Requests -> BOOLEAN] /\ holds \in [Requests -> Runners \union {None}]
    /\ pendingReqCh \in Seq(Requests) /\ finishedReqCh \in Seq(Requests)
    /\ expiredCh \in Seq(Runners) /\ unloadedCh \in Nat
    /\ loaded \in [Models -> Runners \union {None}]
    /\ server \in [Runners -> {"none", "loading", "running", "failed", "closed"}]
    /\ refCount \in [Runners -> 0..RefMod - 1] /\ sessionDuration \in [Runners -> Durations]
    /\ expireTimer \in [Runners -> {"nil", "armed", "fired"}]
    /\ callbacks \in [Runners -> Nat] /\ retries \in [Runners -> Nat]
    /\ pp \in {"idle", "lookup", "check", "use", "filter", "measure", "measure_busy",
               "load", "find", "pick", "expire", "wait"}
    /\ preq \in Requests \union {None} /\ prun \in Runners \union {None}
    /\ pp = "idle" <=> preq = None
    /\ plist \in Seq(Runners)
    /\ cp \in {"idle", "finish", "unload", "converge"}
    /\ creq \in Requests \union {None} /\ crun \in Runners \union {None}
    /\ (cp = "finish" <=> creq # None) /\ (cp \in {"finish", "unload"} <=> crun # None)
    /\ stopping \in Runners \union {None} /\ stops \in 0..MaxStops
    /\ crashed \in BOOLEAN /\ tainted \in BOOLEAN

Open(r) == server[r] \in {"loading", "running", "failed"}

(* No server is left running without a way to reach it, and none is        *)
(* reachable that does not run: the map holds exactly the servers that are *)
(* there, although two goroutines write it and three read it.              *)
ServersAreLoaded == \A r \in Runners : Open(r) <=> loaded[model[r]] = r

(* A runner counts those that load it, use it, or have finished and not    *)
(* been seen by processCompleted.  The requests that finish are matched to *)
(* runners by the name of the model; that is right as long as nobody was   *)
(* given a runner that is closed (the look-up in processPending is not     *)
(* protected by the count it is about to take).                            *)
Users(r) == {q \in Requests : holds[q] = r /\ st[q] \in {"loading", "using", "finishing"}}
RefCountsUsers ==
    ~tainted => \A r \in Runners : Open(r) => refCount[r] = Cardinality(Users(r))

(* "refCount: prevent unloading if > 0": under the same condition no timer,*)
(* stop, failed load or lack of room takes a runner away from a request.   *)
InUseStaysOpen == ~tainted => \A q \in Requests : st[q] = "using" => Open(holds[q])

(* processCompleted holds refMu of a runner and wants loadedMu, while      *)
(* expireRunner or updateFreeSpace holds loadedMu and wants that refMu.    *)
LockCycle ==
    /\ cp = "unload"
    /\ \/ stopping = crun
       \/ pp \in {"measure", "measure_busy"} /\ plist # <<>> /\ Head(plist) = crun

(* Every request that is queued and not cancelled gets a runner or an      *)
(* error: no event is missed by processPending, whose wait is ended by any *)
(* unload, and no runner in its way stays for ever.  What may keep a       *)
(* request waiting is a crash, a cycle of the locks, or a count that a     *)
(* closed runner made wrong.                                               *)
Answered(q) == st[q] \in {"using", "finishing", "done", "error"}
RequestsAnswered ==
    \A q \in Requests :
        st[q] = "queued" ~> Answered(q) \/ cancelled[q] \/ crashed \/ LockCycle \/ tainted
=============================================================================
