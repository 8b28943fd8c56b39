--------------------------- MODULE InferPipeline ---------------------------
(***************************************************************************)
(* The path of an inference through the NVIDIA plugin: CudaInferRequest    *)
(* and CudaAsyncInferRequest, the threads of the CudaThreadPool that run   *)
(* start_pipeline and wait_pipeline, their CUDA streams, and the memory    *)
(* blocks they borrow from the MemoryPool of the compiled model.           *)
(*                                                                         *)
(* The pool and the thread pool appear as they look between two critical   *)
(* sections; MemoryPool and CudaThreadPool have the steps inside.  The     *)
(* GPU runs on its own: what a thread enqueued is still going on until     *)
(* GpuFinish.  IAsyncInferRequest, the executors of OpenVINO and the users *)
(* of a request are external.                                              *)
(***************************************************************************)
EXTENDS Naturals, SequencesExt

CONSTANTS
    Requests,   \* infer requests of one compiled model
    Threads,    \* threads of the CudaThreadPool
    NumBlocks,  \* blocks of the memory pool
    Faults,     \* the calls that may throw
    CancelAt,   \* the stages of a request at which a user may cancel it
    None

Blocks == 1..NumBlocks

Stages == {"idle", "preprocess", "queued", "start", "run", "running", "sync",
           "release", "destroy", "postprocess", "complete"}

(* The stages during which a thread of the pool works for the request.     *)
OnThread == {"start", "run", "running", "sync", "release", "destroy"}

FaultKinds == {"preprocess", "start", "run", "sync", "postprocess"}

ASSUME PipelineAssumption ==
    /\ NumBlocks \in Nat \ {0}
    /\ None \notin Blocks \union Requests
    /\ Faults \subseteq FaultKinds
    /\ CancelAt \subseteq Stages

VARIABLES
    accepting,      \* whether users are starting requests at the moment
    state,          \* state[r]: m_state of IAsyncInferRequest
    stage,          \* stage[r]: how far the pipeline of r has come
    failed,         \* failed[r]: a stage of the current inference threw
    memory_proxy,   \* memory_proxy[r]: the block in memory_proxy_, or None
    task_queue,     \* requests whose GPU stage waits for a thread
    worker,         \* worker[t]: the request thread t works for, or None
    used,           \* used[t]: the block start_pipeline on t refers to, or None
    stream,         \* stream[t]: work in flight on the stream of t
    memory_blocks,  \* the free blocks of the pool, the next one last
    destroyed,      \* blocks that were freed although the pool owns them
    cancelling,     \* cancelling[r]: the block a cancel() is about to give back
    crashed,        \* the process dereferenced a null block
    disturbed       \* (history) a block changed hands out of turn: see below

vars == <<accepting, state, stage, failed, memory_proxy, task_queue, worker,
          used, stream, memory_blocks, destroyed, cancelling, crashed, disturbed>>

reqVars  == <<accepting, state, failed>>
gpuVars  == <<stream, destroyed, crashed>>
poolVars == <<memory_blocks, memory_proxy>>
cancelVars == <<cancelling, disturbed>>

(* Work in flight: which request it belongs to and which block it uses.    *)
Work == [req : Requests, block : Blocks]

Set(f, x, v) == [f EXCEPT ![x] = v]

-----------------------------------------------------------------------------
Init ==
    /\ accepting = TRUE
    /\ state = [r \in Requests |-> "IDLE"]
    /\ stage = [r \in Requests |-> "idle"]
    /\ failed = [r \in Requests |-> FALSE]
    /\ memory_proxy = [r \in Requests |-> None]
    /\ task_queue = <<>>
    /\ worker = [t \in Threads |-> None]
    /\ used = [t \in Threads |-> None]
    /\ stream = [t \in Threads |-> {}]
    /\ memory_blocks = [i \in Blocks |-> i]
    /\ destroyed = {}
    /\ cancelling = [r \in Requests |-> None]
    /\ crashed = FALSE
    /\ disturbed = FALSE

-----------------------------------------------------------------------------
(* The users and the executors of OpenVINO.                                *)

(* Users stop starting requests for a while, and begin again.              *)
Pause ==
    /\ accepting' = ~accepting
    /\ UNCHANGED <<state, stage, failed, poolVars, task_queue, worker, used,
                   gpuVars, cancelVars>>

(* start_async, and infer, which takes the same pipeline; a request that   *)
(* is BUSY or CANCELLED refuses.                                           *)
StartAsync(r) ==
    /\ accepting
    /\ state[r] = "IDLE"
    /\ state' = Set(state, r, "BUSY")
    /\ stage' = Set(stage, r, "preprocess")
    /\ UNCHANGED <<accepting, failed, poolVars, task_queue, worker, used,
                   gpuVars, cancelVars>>

(* infer_preprocess on the task executor, which then hands the next stage  *)
(* to the wait executor, the CudaThreadPool.                               *)
Preprocess(r) ==
    /\ stage[r] = "preprocess"
    /\ stage' = Set(stage, r, "queued")
    /\ task_queue' = Append(task_queue, r)
    /\ UNCHANGED <<reqVars, poolVars, worker, used, gpuVars, cancelVars>>

(* infer_postprocess copies the outputs, then the last stage runs.         *)
Postprocess(r) ==
    /\ stage[r] = "postprocess"
    /\ stage' = Set(stage, r, "complete")
    /\ UNCHANGED <<reqVars, poolVars, task_queue, worker, used, gpuVars, cancelVars>>

(* Either of them throws: the remaining stages are skipped.                *)
FailOnHost(r) ==
    /\ stage[r] \in Faults \intersect {"preprocess", "postprocess"}
    /\ stage' = Set(stage, r, "complete")
    /\ failed' = Set(failed, r, TRUE)
    /\ UNCHANGED <<accepting, state, poolVars, task_queue, worker, used,
                   gpuVars, cancelVars>>

(* The last stage of IAsyncInferRequest: the request is IDLE again, then   *)
(* the callback runs and the future becomes ready.                         *)
Complete(r) ==
    /\ stage[r] = "complete"
    /\ stage' = Set(stage, r, "idle")
    /\ state' = Set(state, r, "IDLE")
    /\ failed' = Set(failed, r, FALSE)
    /\ UNCHANGED <<accepting, poolVars, task_queue, worker, used, gpuVars, cancelVars>>

-----------------------------------------------------------------------------
(* The thread t of the CudaThreadPool.                                     *)

(* A thread that ends its task drops the reference to the block.           *)
EndTask(t, r) ==
    /\ worker' = Set(worker, t, None)
    /\ used' = Set(used, t, None)
    /\ stage' = Set(stage, r, IF failed'[r] THEN "complete" ELSE "postprocess")

(* Mutant of TakeTask: the task is copied out of the queue, not moved.     *)
Mut_TakeWithoutPopFront(t) ==
    /\ worker[t] = None
    /\ task_queue # <<>>
    /\ worker' = Set(worker, t, Head(task_queue))
    /\ stage' = Set(stage, Head(task_queue), "start")
    /\ UNCHANGED <<reqVars, poolVars, task_queue, used, gpuVars, cancelVars>>

TakeTask(t) ==
    /\ worker[t] = None
    /\ task_queue # <<>>
    /\ worker' = Set(worker, t, Head(task_queue))
    /\ stage' = Set(stage, Head(task_queue), "start")
    /\ task_queue' = Tail(task_queue)
    /\ UNCHANGED <<reqVars, poolVars, used, gpuVars, cancelVars>>

(* Mutant of WaitAndGet: the block stays in the pool.                      *)
Mut_LendWithoutPopBack(t) == \E r \in Requests :
    /\ worker[t] = r
    /\ stage[r] = "start"
    /\ memory_blocks # <<>>
    /\ Last(memory_blocks) # None
    /\ memory_proxy' = Set(memory_proxy, r, Last(memory_blocks))
    /\ destroyed' = destroyed \union ({memory_proxy[r]} \ {None})
    /\ used' = Set(used, t, Last(memory_blocks))
    /\ stage' = Set(stage, r, "run")
    /\ UNCHANGED <<reqVars, memory_blocks, task_queue, worker, stream, cancelVars, crashed>>

(* memory_proxy_ = WaitAndGet(...): blocks while the pool is empty.  The   *)
(* move assignment of Proxy frees a block that memory_proxy_ still holds.  *)
WaitAndGet(t) == \E r \in Requests :
    /\ worker[t] = r
    /\ stage[r] = "start"
    /\ memory_blocks # <<>>
    /\ Last(memory_blocks) # None
    /\ memory_blocks' = Front(memory_blocks)
    /\ memory_proxy' = Set(memory_proxy, r, Last(memory_blocks))
    /\ destroyed' = destroyed \union ({memory_proxy[r]} \ {None})
    /\ used' = Set(used, t, Last(memory_blocks))
    /\ stage' = Set(stage, r, "run")
    /\ UNCHANGED <<reqVars, task_queue, worker, stream, cancelVars, crashed>>

(* The pool lends a null block, and memory_proxy_->Get() dereferences it.  *)
CrashOnNullBlock(t) == \E r \in Requests :
    /\ worker[t] = r
    /\ stage[r] = "start"
    /\ memory_blocks # <<>>
    /\ Last(memory_blocks) = None
    /\ crashed' = TRUE
    /\ UNCHANGED <<reqVars, stage, poolVars, task_queue, worker, used, stream,
                   destroyed, cancelVars>>

(* UpdateContext and the first operations of Run: work is on the stream.   *)
Enqueue(t) == \E r \in Requests :
    /\ worker[t] = r
    /\ stage[r] = "run"
    /\ stream' = Set(stream, t, stream[t] \union {[req |-> r, block |-> used[t]]})
    /\ stage' = Set(stage, r, "running")
    /\ UNCHANGED <<reqVars, poolVars, task_queue, worker, used, destroyed,
                   cancelVars, crashed>>

(* Run returns and wait_pipeline begins.                                   *)
EndRun(t) == \E r \in Requests :
    /\ worker[t] = r
    /\ stage[r] = "running"
    /\ stage' = Set(stage, r, "sync")
    /\ UNCHANGED <<reqVars, poolVars, task_queue, worker, used, gpuVars, cancelVars>>

(* Mutant of FailStart: no handler, the exception leaves the task with the *)
(* block still in memory_proxy_.                                           *)
Mut_FailStartKeepsProxy(t) == \E r \in Requests :
    /\ worker[t] = r
    /\ \/ stage[r] = "run" /\ "start" \in Faults
       \/ stage[r] = "running" /\ "run" \in Faults
    /\ failed' = Set(failed, r, TRUE)
    /\ EndTask(t, r)
    /\ UNCHANGED <<accepting, state, poolVars, task_queue, gpuVars, cancelVars>>

(* UpdateContext or Run throws, before or after it enqueued something: the *)
(* handler resets memory_proxy_ and rethrows.  It does not synchronize.    *)
FailStart(t) == \E r \in Requests :
    /\ worker[t] = r
    /\ \/ stage[r] = "run" /\ "start" \in Faults
       \/ stage[r] = "running" /\ "run" \in Faults
    /\ failed' = Set(failed, r, TRUE)
    /\ stage' = Set(stage, r, "release")
    /\ disturbed' = (disturbed \/ stage[r] = "running")
    /\ UNCHANGED <<accepting, state, poolVars, task_queue, worker, used,
                   gpuVars, cancelling>>

(* Mutant of Synchronize: the block goes back before the stream is dry.    *)
Mut_ReleaseBeforeSynchronize(t) == \E r \in Requests :
    /\ worker[t] = r
    /\ stage[r] = "sync"
    /\ stage' = Set(stage, r, "release")
    /\ UNCHANGED <<reqVars, poolVars, task_queue, worker, used, gpuVars, cancelVars>>

(* wait_pipeline: synchronize returns when the stream has run dry.         *)
Synchronize(t) == \E r \in Requests :
    /\ worker[t] = r
    /\ stage[r] = "sync"
    /\ stream[t] = {}
    /\ stage' = Set(stage, r, "release")
    /\ UNCHANGED <<reqVars, poolVars, task_queue, worker, used, gpuVars, cancelVars>>

(* synchronize throws: wait_pipeline has no handler and is left before it  *)
(* resets memory_proxy_.                                                   *)
FailSynchronize(t) == \E r \in Requests :
    /\ worker[t] = r
    /\ stage[r] = "sync"
    /\ "sync" \in Faults
    /\ stream[t] = {}
    /\ failed' = Set(failed, r, TRUE)
    /\ EndTask(t, r)
    /\ disturbed' = TRUE
    /\ UNCHANGED <<accepting, state, poolVars, task_queue, gpuVars, cancelling>>

(* memory_proxy_.reset() tests whether the optional is engaged ...         *)
Release(t) == \E r \in Requests :
    /\ worker[t] = r
    /\ stage[r] = "release"
    /\ \/ /\ memory_proxy[r] # None
          /\ stage' = Set(stage, r, "destroy")
          /\ UNCHANGED <<worker, used, failed>>
       \/ /\ memory_proxy[r] = None
          /\ UNCHANGED failed
          /\ EndTask(t, r)
    /\ UNCHANGED <<accepting, state, poolVars, task_queue, gpuVars, cancelVars>>

(* ... and then runs ~Proxy, which pushes the block back.  If another      *)
(* reset() of the same optional came between, two destructors of one Proxy *)
(* race: the second push is a null pointer or, when neither had moved the  *)
(* unique_ptr out yet, the same block again.                               *)
GiveBack(r, seen) ==
    /\ \/ /\ memory_proxy[r] # None
          /\ memory_blocks' = Append(memory_blocks, memory_proxy[r])
       \/ /\ memory_proxy[r] = None
          /\ \E b \in {None, seen} : memory_blocks' = Append(memory_blocks, b)
    /\ memory_proxy' = Set(memory_proxy, r, None)

Destroy(t) == \E r \in Requests :
    /\ worker[t] = r
    /\ stage[r] = "destroy"
    /\ GiveBack(r, used[t])
    /\ UNCHANGED failed
    /\ EndTask(t, r)
    /\ UNCHANGED <<accepting, state, task_queue, gpuVars, cancelVars>>

GpuFinish(t) ==
    /\ stream[t] # {}
    /\ stream' = Set(stream, t, {})
    /\ UNCHANGED <<reqVars, stage, poolVars, task_queue, worker, used,
                   destroyed, cancelVars, crashed>>

-----------------------------------------------------------------------------
(* A user cancels r: IAsyncInferRequest::cancel marks a BUSY request, then *)
(* the callback of the cancellation token resets memory_proxy_, from the   *)
(* user's thread.  Bound: once a block has changed hands out of turn, no   *)
(* further cancel() that finds a block is explored.                        *)
Cancel(r) ==
    /\ stage[r] \in CancelAt
    /\ cancelling[r] = None
    /\ memory_proxy[r] # None => ~disturbed
    /\ state' = Set(state, r, IF state[r] = "BUSY" THEN "CANCELLED" ELSE state[r])
    /\ cancelling' = Set(cancelling, r, memory_proxy[r])
    /\ disturbed' = (disturbed \/ memory_proxy[r] # None)
    /\ UNCHANGED <<accepting, stage, failed, poolVars, task_queue, worker,
                   used, gpuVars>>

CancelDestroy(r) ==
    /\ cancelling[r] # None
    /\ GiveBack(r, cancelling[r])
    /\ cancelling' = Set(cancelling, r, None)
    /\ UNCHANGED <<reqVars, stage, task_queue, worker, used, gpuVars, disturbed>>

-----------------------------------------------------------------------------
Host(r) == Preprocess(r) \/ Postprocess(r) \/ FailOnHost(r) \/ Complete(r)

Worker(t) ==
    \/ TakeTask(t)
    \/ WaitAndGet(t)
    \/ CrashOnNullBlock(t)
    \/ Enqueue(t)
    \/ EndRun(t)
    \/ FailStart(t)
    \/ Synchronize(t)
    \/ FailSynchronize(t)
    \/ Release(t)
    \/ Destroy(t)

Next ==
    /\ ~crashed
    /\ \/ Pause
       \/ \E r \in Requests : StartAsync(r) \/ Host(r) \/ Cancel(r) \/ CancelDestroy(r)
       \/ \E t \in Threads : Worker(t) \/ GpuFinish(t)

(* The executors, the threads of the pool and the GPU make progress, and a *)
(* cancel() that began ends.  Users need not do anything.                  *)
Fairness ==
    /\ \A r \in Requests : WF_vars(~crashed /\ Host(r)) /\ WF_vars(~crashed /\ CancelDestroy(r))
    /\ \A t \in Threads : WF_vars(~crashed /\ Worker(t)) /\ WF_vars(~crashed /\ GpuFinish(t))

Spec == Init /\ [][Next]_vars /\ Fairness

-----------------------------------------------------------------------------
(* Every variable has its type; a request whose GPU stage has begun is     *)
(* with exactly one thread, and one that waits for it is queued once.      *)
TypeOK ==
    /\ accepting \in BOOLEAN /\ crashed \in BOOLEAN /\ disturbed \in BOOLEAN
    /\ state \in [Requests -> {"IDLE", "BUSY", "CANCELLED"}]
    /\ stage \in [Requests -> Stages]
    /\ failed \in [Requests -> BOOLEAN]
    /\ memory_proxy \in [Requests -> Blocks \union {None}]
    /\ task_queue \in Seq(Requests)
    /\ worker \in [Threads -> Requests \union {None}]
    /\ used \in [Threads -> Blocks \union {None}]
    /\ stream \in [Threads -> SUBSET Work]
    /\ memory_blocks \in Seq(Blocks \union {None})
    /\ destroyed \subseteq Blocks
    /\ cancelling \in [Requests -> Blocks \union {None}]
    /\ \A r \in Requests :
         /\ stage[r] \in OnThread <=> \E t \in Threads : worker[t] = r
         /\ stage[r] = "queued" <=> r \in ToSet(task_queue)
    /\ IsInjective(task_queue)
    /\ \A t, u \in Threads : worker[t] = worker[u] /\ worker[t] # None => t = u

InFlight(t) == {w.block : w \in stream[t]}

(* The blocks thread t or its stream may read or write right now.          *)
InUse(t) ==
    InFlight(t) \union
    {b \in Blocks : b = used[t] /\ \E r \in Requests :
                       worker[t] = r /\ stage[r] \in {"run", "running"}}

(* cuda_memory_manager.hpp:33: the mutable memory blob "is used by only    *)
(* one infer request at a time".                                           *)
OneUserPerBlock ==
    \A t, u \in Threads : t # u => InUse(t) \intersect InUse(u) = {}

(* The pool "provides currently available" blocks (cuda_memory_pool.hpp:20): *)
(* nobody works in a block that the pool is about to lend.                 *)
FreeBlocksIdle ==
    \A t \in Threads : InUse(t) \intersect ToSet(memory_blocks) = {}

(* postprocess and the callback of a request run when the GPU has finished *)
(* with it: the outputs it copies to the user are complete.                *)
FinishedWhenDelivered ==
    \A r \in Requests : stage[r] \in {"postprocess", "complete", "idle"} =>
        \A t \in Threads : \A w \in stream[t] : w.req # r

(* Until a block changes hands out of turn - a cancel() takes the block of *)
(* a running inference, Run throws with work in flight, synchronize throws *)
(* and leaves the block in memory_proxy_ - blocks are exclusive, and idle  *)
(* when they are free: other failures and cancels do no harm.              *)
BlocksKeptApart == disturbed \/ (OneUserPerBlock /\ FreeBlocksIdle)

(* When every request is idle, the pool is whole again and so are the      *)
(* threads: no failure and no cancel() in between leaks a block, frees one *)
(* (~Proxy "Returns DeviceMemBlock to MemoryPool", cuda_memory_pool.hpp:39)*)
(* or leaves a thread occupied, unless a block changed hands out of turn.  *)
PoolWholeAtRest ==
    disturbed \/ ((\A r \in Requests : stage[r] = "idle") =>
        /\ ToSet(memory_blocks) = Blocks
        /\ Len(memory_blocks) = NumBlocks /\ destroyed = {}
        /\ \A t \in Threads : worker[t] = None /\ stream[t] = {})


(* The requests are proper clients of the pool: they ask only when they    *)
(* have no block, and what they were lent they return.                     *)
Lending == INSTANCE BlockLending WITH
    Clients <- Requests,
    pool    <- ToSet(memory_blocks),
    asking  <- {r \in Requests : stage[r] = "start"},
    lent    <- memory_proxy

ImplementsBlockLending == Lending!Spec
=============================================================================
