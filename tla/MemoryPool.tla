----------------------------- MODULE MemoryPool -----------------------------
(***************************************************************************)
(* MemoryPool of the NVIDIA plugin (memory_manager/cuda_memory_pool.cpp):  *)
(* the device memory blocks of one compiled model, handed to the threads   *)
(* that run its inferences through a mutex and a condition variable.       *)
(*                                                                         *)
(* A client is a thread between the creation and the destruction of a      *)
(* Proxy.  A critical section of mtx_ is one action; what happens between  *)
(* two of them is not: PushBack notifies after it unlocked, and a thread   *)
(* that was woken contends for the mutex with threads that just arrive.    *)
(***************************************************************************)
EXTENDS Naturals, SequencesExt

CONSTANTS
    Clients,    \* threads of the CudaThreadPool
    NumBlocks,  \* how many blocks the constructor is asked for
    None

Blocks == 1..NumBlocks

ASSUME PoolAssumption ==
    /\ IsFiniteSet(Clients)
    /\ NumBlocks \in Nat \ {0}
    /\ None \notin Blocks

VARIABLES
    memory_blocks,  \* memory_blocks_: the free blocks; the last one is lent next
    pc,             \* pc[c]: where client c is
    held,           \* held[c]: the block in the Proxy of c, or None
    allocated       \* the blocks that exist, free or lent (history)

vars == <<memory_blocks, pc, held, allocated>>

(* idle: outside the pool; acquiring: in WaitAndGet, about to evaluate the *)
(* predicate of the wait under the mutex; waiting: asleep in cond_var_;    *)
(* using: owns a Proxy; notifying: in PushBack, after the unlock.          *)
Locations == {"idle", "acquiring", "waiting", "using", "notifying"}

At(l) == {c \in Clients : pc[c] = l}

(* The threads that will look at the pool again or announce a block.       *)
Awake == {c \in Clients : pc[c] \in {"acquiring", "notifying"}}

InPool == ToSet(memory_blocks)

-----------------------------------------------------------------------------
(* The constructor keeps the blocks it could allocate and fails only when  *)
(* it could allocate none: a pool starts with 1..NumBlocks blocks.         *)
Init ==
    /\ \E n \in Blocks : memory_blocks = [i \in 1..n |-> i]
    /\ pc = [c \in Clients |-> "idle"]
    /\ held = [c \in Clients |-> None]
    /\ allocated = InPool

(* WaitAndGet, up to the lock.                                             *)
CallWaitAndGet(c) ==
    /\ pc[c] = "idle"
    /\ pc' = [pc EXCEPT ![c] = "acquiring"]
    /\ UNCHANGED <<memory_blocks, held, allocated>>

(* The predicate of the wait is false: back to sleep, and the mutex is     *)
(* released in the same instant.                                           *)
Sleep(c) ==
    /\ pc[c] = "acquiring"
    /\ memory_blocks = <<>>
    /\ pc' = [pc EXCEPT ![c] = "waiting"]
    /\ UNCHANGED <<memory_blocks, held, allocated>>

(* Mutant of Take: the unique_ptr is copied out and pop_back is missing.    *)
Mut_TakeWithoutPopBack(c) ==
    /\ pc[c] = "acquiring"
    /\ memory_blocks # <<>>
    /\ held' = [held EXCEPT ![c] = Last(memory_blocks)]
    /\ pc' = [pc EXCEPT ![c] = "using"]
    /\ UNCHANGED <<memory_blocks, allocated>>

(* The predicate is true: the last block moves into the Proxy.  The        *)
(* cancellation token is captured by the predicate and never looked at.    *)
Take(c) ==
    /\ pc[c] = "acquiring"
    /\ memory_blocks # <<>>
    /\ held' = [held EXCEPT ![c] = Last(memory_blocks)]
    /\ memory_blocks' = Front(memory_blocks)
    /\ pc' = [pc EXCEPT ![c] = "using"]
    /\ UNCHANGED allocated

(* Mutant of PushBack: a notification only when the pool was empty, which  *)
(* loses the second of two blocks that come back before a sleeper runs.    *)
Mut_PushBackNotifiesOnlyIfEmpty(c) ==
    /\ pc[c] = "using"
    /\ memory_blocks' = Append(memory_blocks, held[c])
    /\ held' = [held EXCEPT ![c] = None]
    /\ pc' = [pc EXCEPT ![c] = IF memory_blocks = <<>> THEN "notifying" ELSE "idle"]
    /\ UNCHANGED allocated

(* ~Proxy calls PushBack: the critical section ...                         *)
PushBack(c) ==
    /\ pc[c] = "using"
    /\ memory_blocks' = Append(memory_blocks, held[c])
    /\ held' = [held EXCEPT ![c] = None]
    /\ pc' = [pc EXCEPT ![c] = "notifying"]
    /\ UNCHANGED allocated

(* ... and notify_one, after the lock is gone: it wakes any one sleeper.   *)
NotifyOne(c) ==
    /\ pc[c] = "notifying"
    /\ \/ /\ At("waiting") = {}
          /\ pc' = [pc EXCEPT ![c] = "idle"]
       \/ \E d \in At("waiting") :
            pc' = [pc EXCEPT ![c] = "idle", ![d] = "acquiring"]
    /\ UNCHANGED <<memory_blocks, held, allocated>>

(* Interrupt, from a thread that cancels a request: notify_all.            *)
Interrupt ==
    /\ At("waiting") # {}
    /\ pc' = [c \in Clients |-> IF pc[c] = "waiting" THEN "acquiring" ELSE pc[c]]
    /\ UNCHANGED <<memory_blocks, held, allocated>>

(* std::condition_variable::wait may return without a notification.        *)
SpuriousWakeup(c) ==
    /\ pc[c] = "waiting"
    /\ pc' = [pc EXCEPT ![c] = "acquiring"]
    /\ UNCHANGED <<memory_blocks, held, allocated>>

(* Mutant of Resize: the caller may ask for no block at all.               *)
Mut_ResizeToNothing ==
    /\ At("idle") = Clients
    /\ \E count \in 0..(Len(memory_blocks) - 1) :
         memory_blocks' = SubSeq(memory_blocks, 1, count)
    /\ allocated' = ToSet(memory_blocks')
    /\ UNCHANGED <<pc, held>>

(* Resize takes no lock.  Its one caller, the benchmark in the constructor *)
(* of CompiledModel, runs when every request it started has finished, with *)
(* 1 <= count < Size().                                                    *)
Resize ==
    /\ At("idle") = Clients
    /\ \E count \in 1..(Len(memory_blocks) - 1) :
         memory_blocks' = SubSeq(memory_blocks, 1, count)
    /\ allocated' = ToSet(memory_blocks')
    /\ UNCHANGED <<pc, held>>

Thread(c) ==
    \/ CallWaitAndGet(c)
    \/ Sleep(c)
    \/ Take(c)
    \/ PushBack(c)
    \/ NotifyOne(c)
    \/ SpuriousWakeup(c)

Next ==
    \/ \E c \in Clients : Thread(c)
    \/ Interrupt
    \/ Resize

(* A thread that can run does run: it gets the mutex, finishes its         *)
(* inference and notifies.  Nothing makes a thread call WaitAndGet, and    *)
(* nothing but a notification is sure to wake a sleeper.                   *)
Fairness ==
    \A c \in Clients : WF_vars(Sleep(c) \/ Take(c) \/ PushBack(c) \/ NotifyOne(c))

Spec == Init /\ [][Next]_vars /\ Fairness

-----------------------------------------------------------------------------
(* Every variable has its type; a client has a block exactly while it is   *)
(* using one.                                                              *)
TypeOK ==
    /\ memory_blocks \in Seq(Blocks)
    /\ pc \in [Clients -> Locations]
    /\ held \in [Clients -> Blocks \union {None}]
    /\ \A c \in Clients : held[c] # None <=> pc[c] = "using"
    /\ allocated \subseteq Blocks

(* The unique_ptrs of the pool and of the Proxies own every block that     *)
(* exists exactly once (Proxy and PushBack in cuda_memory_pool.hpp): no    *)
(* block is in the pool twice, lent twice, lent and free, or lost.         *)
EachBlockOnce ==
    /\ IsInjective(memory_blocks)
    /\ \A c, d \in Clients : held[c] = held[d] /\ held[c] # None => c = d
    /\ \A c \in Clients : held[c] \notin InPool
    /\ allocated = InPool \union {held[c] : c \in At("using")}

(* No wakeup is lost, although PushBack notifies outside the lock and only *)
(* one thread at a time: while somebody sleeps, every free block has a     *)
(* thread on its way to take it or to announce it.                         *)
NoLostWakeup ==
    At("waiting") # {} =>
        Len(memory_blocks) <= Cardinality(Awake)

(* The pool keeps the promise of BlockLending, its liveness included.      *)
Lending == INSTANCE BlockLending WITH
    pool   <- InPool,
    asking <- At("acquiring") \union At("waiting"),
    lent   <- held

ImplementsBlockLending == Lending!Spec
=============================================================================
