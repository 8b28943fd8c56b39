---------------------------- MODULE TaskExecutor ----------------------------
(***************************************************************************)
(* What ITaskExecutor::run promises about the CudaThreadPool: a task that  *)
(* was handed over is started once, in the order of the calls of run, and  *)
(* every one is started as long as the executor is not shut down.          *)
(***************************************************************************)
EXTENDS Naturals, Sequences

CONSTANTS Tasks

VARIABLES
    pending,   \* tasks handed over and not started, oldest first
    begun,     \* tasks that were started
    open       \* the executor still starts tasks

vars == <<pending, begun, open>>

Init == pending = <<>> /\ begun = {} /\ open = TRUE

Run(k) ==
    /\ k \notin begun
    /\ \A i \in 1..Len(pending) : pending[i] # k
    /\ pending' = Append(pending, k)
    /\ UNCHANGED <<begun, open>>

Start ==
    /\ open
    /\ pending # <<>>
    /\ begun' = begun \union {Head(pending)}
    /\ pending' = Tail(pending)
    /\ UNCHANGED open

Shutdown == open /\ open' = FALSE /\ UNCHANGED <<pending, begun>>

Next == Start \/ Shutdown \/ \E k \in Tasks : Run(k)

Spec == Init /\ [][Next]_vars /\ WF_vars(Start)
=============================================================================
