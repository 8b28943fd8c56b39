------------------------ MODULE InferPipeline_proofs ------------------------
(***************************************************************************)
(* Proofs about InferPipeline, for all requests, threads, numbers of       *)
(* blocks, calls that fail and moments of a cancel().                      *)
(***************************************************************************)
EXTENDS InferPipeline, FiniteSetTheorems, TLAPS

-----------------------------------------------------------------------------
(* What the operations on a queue do to its elements.                      *)

(* resize to a smaller size keeps a prefix.                                *)
LEMMA Truncated ==
  ASSUME NEW S, NEW s \in Seq(S), NEW k \in 0..Len(s)
  PROVE  /\ SubSeq(s, 1, k) \in Seq(S)
         /\ Len(SubSeq(s, 1, k)) = k
         /\ \A i \in 1..k : SubSeq(s, 1, k)[i] = s[i]
         /\ ToSet(SubSeq(s, 1, k)) \subseteq ToSet(s)
         /\ IsInjective(s) => IsInjective(SubSeq(s, 1, k))
<1>1. /\ SubSeq(s, 1, k) \in Seq(S) /\ Len(SubSeq(s, 1, k)) = k
      /\ \A i \in 1..k : SubSeq(s, 1, k)[i] = s[i]
  OBVIOUS
<1>2. DOMAIN s = 1..Len(s) /\ DOMAIN SubSeq(s, 1, k) = 1..k /\ 1..k \subseteq 1..Len(s)
  BY <1>1
<1> QED BY <1>1, <1>2 DEF ToSet, IsInjective

(* vector::back and pop_back.                                              *)
LEMMA PopBack ==
  ASSUME NEW S, NEW s \in Seq(S), s # <<>>
  PROVE  /\ Last(s) \in S /\ Last(s) \in ToSet(s)
         /\ Front(s) \in Seq(S)
         /\ Len(Front(s)) = Len(s) - 1
         /\ IsInjective(s) => IsInjective(Front(s)) /\ ToSet(Front(s)) = ToSet(s) \ {Last(s)}
<1>1. Len(s) \in Nat \ {0}
  OBVIOUS
<1>2. /\ Front(s) \in Seq(S) /\ Len(Front(s)) = Len(s) - 1
      /\ \A i \in 1..(Len(s) - 1) : Front(s)[i] = s[i]
  <2>1. Len(s) - 1 \in 0..Len(s)
    BY <1>1
  <2> QED BY <2>1, Truncated DEF Front
<1>3. 1..Len(s) = (1..(Len(s) - 1)) \cup {Len(s)} /\ Len(s) \notin 1..(Len(s) - 1)
  BY <1>1
<1>4. DOMAIN s = 1..Len(s) /\ DOMAIN Front(s) = 1..(Len(s) - 1)
  BY <1>2
<1>5. Last(s) \in S /\ Last(s) \in ToSet(s)
  BY <1>1, <1>4 DEF Last, ToSet
<1>6. ASSUME IsInjective(s)
      PROVE  IsInjective(Front(s)) /\ ToSet(Front(s)) = ToSet(s) \ {Last(s)}
  <2>1. \A i \in 1..(Len(s) - 1) : s[i] # s[Len(s)]
    BY <1>1, <1>3, <1>4, <1>6 DEF IsInjective
  <2>2. IsInjective(Front(s))
    BY <1>2, <1>3, <1>4, <1>6 DEF IsInjective
  <2>3. ToSet(s) = {s[i] : i \in 1..(Len(s) - 1)} \cup {s[Len(s)]}
    BY <1>3, <1>4 DEF ToSet
  <2>4. ToSet(Front(s)) = {s[i] : i \in 1..(Len(s) - 1)}
    BY <1>2, <1>4 DEF ToSet
  <2> QED BY <2>1, <2>2, <2>3, <2>4 DEF Last
<1> QED BY <1>2, <1>5, <1>6

(* push_back and emplace_back add one element at the end.                  *)
LEMMA PushedBack ==
  ASSUME NEW S, NEW s \in Seq(S), NEW x \in S
  PROVE  /\ Append(s, x) \in Seq(S)
         /\ Len(Append(s, x)) = Len(s) + 1 /\ Append(s, x) # <<>>
         /\ ToSet(Append(s, x)) = ToSet(s) \cup {x}
         /\ IsInjective(s) /\ x \notin ToSet(s) => IsInjective(Append(s, x))
<1>1. Len(s) \in Nat
  OBVIOUS
<1>2. /\ Append(s, x) \in Seq(S) /\ Len(Append(s, x)) = Len(s) + 1
      /\ Append(s, x)[Len(s) + 1] = x
      /\ \A i \in 1..Len(s) : Append(s, x)[i] = s[i]
  OBVIOUS
<1>3. 1..(Len(s) + 1) = (1..Len(s)) \cup {Len(s) + 1} /\ Len(s) + 1 \notin 1..Len(s)
  BY <1>1
<1>4. DOMAIN s = 1..Len(s) /\ DOMAIN Append(s, x) = 1..(Len(s) + 1)
  BY <1>2
<1>5. Append(s, x) # <<>>
  BY <1>1, <1>2
<1> QED BY <1>1, <1>2, <1>3, <1>4, <1>5 DEF ToSet, IsInjective

(* deque::front and pop_front.                                             *)
LEMMA PopFront ==
  ASSUME NEW S, NEW s \in Seq(S), s # <<>>
  PROVE  /\ Head(s) \in S /\ Tail(s) \in Seq(S)
         /\ Head(s) \in ToSet(s)
         /\ Len(Tail(s)) = Len(s) - 1
         /\ ToSet(Tail(s)) \subseteq ToSet(s)
         /\ IsInjective(s) => IsInjective(Tail(s)) /\ ToSet(Tail(s)) = ToSet(s) \ {Head(s)}
<1>1. Len(s) \in Nat \ {0} /\ Head(s) = s[1] /\ DOMAIN s = 1..Len(s)
  OBVIOUS
<1>2. /\ Tail(s) \in Seq(S) /\ DOMAIN Tail(s) = 1..Len(s) - 1 /\ Len(Tail(s)) = Len(s) - 1
      /\ \A i \in 1..Len(s) - 1 : Tail(s)[i] = s[i + 1]
  OBVIOUS
<1>3. Head(s) \in S /\ Head(s) \in ToSet(s)
  BY <1>1 DEF ToSet
<1>4. ToSet(Tail(s)) \subseteq ToSet(s)
  <2>1. \A i \in 1..Len(s) - 1 : i + 1 \in 1..Len(s)
    BY <1>1
  <2> QED BY <1>1, <1>2, <2>1 DEF ToSet
<1>5. ASSUME IsInjective(s)
      PROVE  IsInjective(Tail(s)) /\ ToSet(Tail(s)) = ToSet(s) \ {Head(s)}
  <2>1. \A i, j \in 1..Len(s) : s[i] = s[j] => i = j
    BY <1>1, <1>5 DEF IsInjective
  <2>2. \A i \in 1..Len(s) - 1 : i + 1 \in 1..Len(s) /\ i + 1 # 1
    BY <1>1
  <2>3. ASSUME NEW i \in 1..Len(s) - 1, NEW j \in 1..Len(s) - 1, Tail(s)[i] = Tail(s)[j]
        PROVE  i = j
    <3>1. i + 1 = j + 1
      BY <1>2, <2>1, <2>2, <2>3
    <3> QED BY <3>1
  <2>4. IsInjective(Tail(s))
    BY <1>2, <2>3 DEF IsInjective
  <2>5. ASSUME NEW x \in ToSet(Tail(s)) PROVE x \in ToSet(s) /\ x # Head(s)
    <3>1. PICK i \in 1..Len(s) - 1 : x = s[i + 1]
      BY <1>2 DEF ToSet
    <3>2. x \in ToSet(s)
      BY <1>1, <2>2, <3>1 DEF ToSet
    <3>3. 1 \in 1..Len(s)
      BY <1>1
    <3> QED BY <1>1, <2>1, <2>2, <3>1, <3>2, <3>3
  <2>6. ASSUME NEW x \in ToSet(s), x # Head(s) PROVE x \in ToSet(Tail(s))
    <3>1. PICK i \in 1..Len(s) : x = s[i]
      BY <1>1 DEF ToSet
    <3>2. i # 1
      BY <1>1, <2>6, <3>1
    <3>3. i - 1 \in 1..Len(s) - 1 /\ (i - 1) + 1 = i
      BY <1>1, <3>2
    <3>4. x = Tail(s)[i - 1]
      BY <1>2, <3>1, <3>3
    <3> QED BY <1>2, <3>3, <3>4 DEF ToSet
  <2> QED BY <2>4, <2>5, <2>6
<1> QED BY <1>2, <1>3, <1>4, <1>5

-----------------------------------------------------------------------------
(* The stages in which a request has a block, if nobody interferes.        *)
HasBlock == {"run", "running", "sync", "release", "destroy"}

(* A thread that got a block remembers it.                                 *)
UsedInv ==
    \A t \in Threads, r \in Requests :
        worker[t] = r /\ stage[r] \in HasBlock => used[t] \in Blocks

(* The parts of TypeOK.                                                    *)
Types ==
    /\ accepting \in BOOLEAN /\ crashed \in BOOLEAN /\ disturbed \in BOOLEAN
    /\ state \in [Requests -> {"IDLE", "BUSY", "CANCELLED"}]
    /\ stage \in [Requests -> Stages]
    /\ failed \in [Requests -> BOOLEAN]
    /\ memory_proxy \in [Requests -> Blocks \union {None}]
    /\ task_queue \in Seq(Requests)
    /\ worker \in [Threads -> Requests \union {None}]
    /\ used \in [Threads -> Blocks \union {None}]
    /\ stream \in [Threads -> SUBSET Work]
    /\ memory_blocks \in Seq(Blocks \union {None})
    /\ destroyed \subseteq Blocks
    /\ cancelling \in [Requests -> Blocks \union {None}]
Places ==
    /\ \A r \in Requests :
         /\ stage[r] \in OnThread <=> \E t \in Threads : worker[t] = r
         /\ stage[r] = "queued" <=> r \in ToSet(task_queue)
    /\ IsInjective(task_queue)
    /\ \A t, u \in Threads : worker[t] = worker[u] /\ worker[t] # None => t = u

(* Types and Places make up the type invariant.                            *)
LEMMA Split == TypeOK <=> Types /\ Places
  BY DEF TypeOK, Types, Places

(* What a destructor of Proxy leaves has its type.                         *)
LEMMA GivenBack ==
  ASSUME Types, NEW r \in Requests, NEW seen \in Blocks \union {None}, GiveBack(r, seen)
  PROVE  /\ memory_blocks' \in Seq(Blocks \union {None})
         /\ memory_proxy' \in [Requests -> Blocks \union {None}]
         /\ \E b \in {memory_proxy[r], None, seen} : memory_blocks' = Append(memory_blocks, b)
         /\ memory_proxy[r] # None => memory_blocks' = Append(memory_blocks, memory_proxy[r])
<1>1. PICK b \in {memory_proxy[r], None, seen} : memory_blocks' = Append(memory_blocks, b)
  BY DEF GiveBack
<1>2. memory_proxy \in [Requests -> Blocks \union {None}] /\ memory_blocks \in Seq(Blocks \union {None})
  BY DEF Types
<1>3. memory_blocks' \in Seq(Blocks \union {None})
  BY <1>1, <1>2
<1>4. memory_proxy' = [memory_proxy EXCEPT ![r] = None]
  BY DEF GiveBack, Set
<1>5. memory_proxy[r] # None => memory_blocks' = Append(memory_blocks, memory_proxy[r])
  BY DEF GiveBack
<1> QED BY <1>1, <1>2, <1>3, <1>4, <1>5

(* Steps that move no request to a thread, or away from one.               *)
LEMMA Stay ==
  ASSUME Places, task_queue' = task_queue, worker' = worker,
         \A r \in Requests :
            \/ stage'[r] = stage[r]
            \/ stage[r] \in OnThread /\ stage'[r] \in OnThread
            \/ stage[r] \notin OnThread \union {"queued"} /\ stage'[r] \notin OnThread \union {"queued"}
  PROVE  Places'
<1>1. ASSUME NEW r \in Requests
      PROVE  /\ stage'[r] \in OnThread <=> stage[r] \in OnThread
             /\ stage'[r] = "queued" <=> stage[r] = "queued"
  BY DEF OnThread
<1>2. ToSet(task_queue') = ToSet(task_queue)
  OBVIOUS
<1> QED BY <1>1, <1>2 DEF Places

(* A thread that ends its task.                                            *)
LEMMA Ended ==
  ASSUME PipelineAssumption, Types, Places, NEW t \in Threads, NEW r \in Requests,
         worker[t] = r, EndTask(t, r), task_queue' = task_queue
  PROVE  Places'
<1>1. /\ worker' = [worker EXCEPT ![t] = None]
      /\ stage' = [stage EXCEPT ![r] = stage'[r]] /\ stage'[r] \in {"complete", "postprocess"}
  BY DEF EndTask, Set, Types
<1>2. r # None
  BY DEF PipelineAssumption
<1>3. ASSUME NEW q \in Requests
      PROVE  stage'[q] \in OnThread <=> \E u \in Threads : worker'[u] = q
  <2>1. CASE q = r
    BY <1>1, <1>2, <2>1 DEF Places, OnThread, Types
  <2>2. CASE q # r
    <3>1. stage'[q] = stage[q]
      BY <1>1, <2>2 DEF Types
    <3>2. q # None
      BY DEF PipelineAssumption
    <3>3. \A u \in Threads : worker'[u] = q <=> worker[u] = q
      BY <1>1, <2>2, <3>2 DEF Types
    <3> QED BY <3>1, <3>3 DEF Places
  <2> QED BY <2>1, <2>2
<1>4. ASSUME NEW q \in Requests PROVE stage'[q] = "queued" <=> stage[q] = "queued"
  <2>1. stage[r] \in OnThread
    BY DEF Places
  <2> QED BY <1>1, <2>1 DEF OnThread, Types
<1>5. \A u, v \in Threads : worker'[u] = worker'[v] /\ worker'[u] # None => u = v
  BY <1>1 DEF Places, Types
<1>6. ToSet(task_queue') = ToSet(task_queue)
  OBVIOUS
<1> QED BY <1>3, <1>4, <1>5, <1>6 DEF Places

(* An idle request has no pipeline.                                        *)
StateInv == \A r \in Requests : state[r] = "IDLE" <=> stage[r] = "idle"

(* If Run does not throw, work is in flight only for the request of its    *)
(* thread, before the thread has synchronized.                             *)
StreamInv ==
    "run" \notin Faults =>
        \A t \in Threads : \A w \in stream[t] :
            worker[t] = w.req /\ stage[w.req] \in {"running", "sync"}

(* What is so while no block has changed hands out of turn.                *)
Loan ==
    /\ destroyed = {}
    /\ memory_blocks \in Seq(Blocks) /\ IsInjective(memory_blocks)
    /\ \A r \in Requests : cancelling[r] = None
    /\ \A r \in Requests : memory_proxy[r] # None <=> stage[r] \in HasBlock
    /\ \A r \in Requests : memory_proxy[r] \notin ToSet(memory_blocks)
    /\ \A q, r \in Requests :
          memory_proxy[q] = memory_proxy[r] /\ memory_proxy[q] # None => q = r
    /\ \A b \in Blocks : b \in ToSet(memory_blocks) \/ \E r \in Requests : memory_proxy[r] = b
    /\ \A t \in Threads : worker[t] # None => used[t] = memory_proxy[worker[t]]
    /\ \A t \in Threads : worker[t] = None => used[t] = None
    /\ \A t \in Threads : \A w \in stream[t] :
          /\ worker[t] = w.req /\ stage[w.req] \in {"running", "sync"}
          /\ w.block = memory_proxy[w.req]
LoanInv == ~disturbed => Loan

(* Steps that lend nothing, use nothing and give nothing back.             *)
LEMMA Unlent ==
  ASSUME PipelineAssumption, Types, Loan,
         UNCHANGED <<destroyed, memory_blocks, cancelling, memory_proxy, worker, used, stream>>,
         \A r \in Requests :
            \/ stage'[r] = stage[r]
            \/ stage[r] \notin HasBlock /\ stage'[r] \notin HasBlock
  PROVE  Loan'
<1>1. \A r \in Requests : stage'[r] \in HasBlock <=> stage[r] \in HasBlock
  OBVIOUS
<1>2. ASSUME NEW t \in Threads, NEW w \in stream[t] PROVE stage'[w.req] \in {"running", "sync"}
  <2>1. w.req \in Requests /\ stage[w.req] \in {"running", "sync"}
    BY <1>2 DEF Types, Work, Loan
  <2> QED BY <2>1 DEF HasBlock
<1>3. ToSet(memory_blocks') = ToSet(memory_blocks) /\ IsInjective(memory_blocks')
  BY DEF Loan
<1> QED BY <1>1, <1>2, <1>3 DEF Loan

(* A block goes back to the pool when its request and thread are done.     *)
LEMMA Returned ==
  ASSUME PipelineAssumption, Types, Places, Loan, NEW t \in Threads, NEW r \in Requests,
         worker[t] = r, stage[r] = "destroy", GiveBack(r, used[t]), EndTask(t, r),
         UNCHANGED <<destroyed, cancelling, stream>>
  PROVE  Loan'
<1>. DEFINE b == memory_proxy[r]
<1>1. /\ b \in Blocks /\ b # None /\ b \notin ToSet(memory_blocks)
      /\ memory_proxy' = [memory_proxy EXCEPT ![r] = None]
      /\ memory_blocks' = Append(memory_blocks, b)
  BY DEF Loan, HasBlock, Types, GiveBack, Set
<1>2. /\ memory_blocks' \in Seq(Blocks) /\ IsInjective(memory_blocks')
      /\ ToSet(memory_blocks') = ToSet(memory_blocks) \union {b}
  BY <1>1, PushedBack DEF Loan
<1>. HIDE DEF b
<1>3. /\ worker' = [worker EXCEPT ![t] = None] /\ used' = [used EXCEPT ![t] = None]
      /\ \E s \in {"complete", "postprocess"} : stage' = [stage EXCEPT ![r] = s]
  BY DEF EndTask, Set
<1>4. r # None /\ None \notin Blocks
  BY DEF PipelineAssumption
<1>5. /\ \A q \in Requests : memory_proxy'[q] # None <=> stage'[q] \in HasBlock
      /\ \A q \in Requests : memory_proxy'[q] \notin ToSet(memory_blocks')
  <2>1. memory_proxy'[r] = None /\ stage'[r] \notin HasBlock
    BY <1>1, <1>3 DEF Types, HasBlock
  <2>2. None \notin ToSet(memory_blocks')
    BY <1>2, <1>4 DEF ToSet
  <2>3. ASSUME NEW q \in Requests, q # r
        PROVE  /\ memory_proxy'[q] = memory_proxy[q] /\ stage'[q] = stage[q]
               /\ memory_proxy'[q] # b
    BY <1>1, <1>3, <2>3 DEF Types, Loan, b
  <2> QED BY <1>2, <2>1, <2>2, <2>3 DEF Loan
<1>6. \A q, s \in Requests :
         memory_proxy'[q] = memory_proxy'[s] /\ memory_proxy'[q] # None => q = s
  BY <1>1 DEF Types, Loan
<1>7. ASSUME NEW c \in Blocks
      PROVE  c \in ToSet(memory_blocks') \/ \E q \in Requests : memory_proxy'[q] = c
  <2>1. CASE c = b
    BY <1>2, <2>1
  <2>2. CASE c # b /\ c \in ToSet(memory_blocks)
    BY <1>2, <2>2
  <2>3. CASE c # b /\ \E q \in Requests : memory_proxy[q] = c
    <3>1. PICK q \in Requests : memory_proxy[q] = c
      BY <2>3
    <3>2. q # r
      BY <2>3, <3>1 DEF b
    <3>3. memory_proxy'[q] = c
      BY <1>1, <3>1, <3>2 DEF Types
    <3> QED BY <3>3
  <2> QED BY <2>1, <2>2, <2>3 DEF Loan
<1>8. ASSUME NEW u \in Threads
      PROVE  /\ worker'[u] # None => used'[u] = memory_proxy'[worker'[u]]
             /\ worker'[u] = None => used'[u] = None
  <2>1. CASE u = t
    BY <1>3, <2>1 DEF Types
  <2>2. CASE u # t
    <3>1. worker'[u] = worker[u] /\ used'[u] = used[u] /\ worker[u] # r
      BY <1>3, <1>4, <2>2 DEF Types, Places
    <3>2. worker[u] # None => memory_proxy'[worker[u]] = memory_proxy[worker[u]]
      BY <1>1, <3>1 DEF Types
    <3> QED BY <3>1, <3>2 DEF Loan
  <2> QED BY <2>1, <2>2
<1>9. ASSUME NEW u \in Threads, NEW w \in stream'[u]
      PROVE  /\ worker'[u] = w.req /\ stage'[w.req] \in {"running", "sync"}
             /\ w.block = memory_proxy'[w.req]
  <2>1. /\ w.req \in Requests /\ worker[u] = w.req /\ stage[w.req] \in {"running", "sync"}
        /\ w.block = memory_proxy[w.req]
    BY <1>9 DEF Types, Work, Loan
  <2>2. w.req # r /\ u # t
    BY <2>1
  <2> QED BY <1>1, <1>3, <2>1, <2>2 DEF Types
<1> QED BY <1>2, <1>5, <1>6, <1>7, <1>8, <1>9 DEF Loan

(* A request with a block goes on to a stage in which it has one.          *)
LEMMA Moves ==
  ASSUME PipelineAssumption, Types, Places, Loan, NEW t \in Threads, NEW r \in Requests,
         worker[t] = r, stage[r] \in HasBlock, NEW s \in HasBlock,
         s = "sync" \/ stage[r] \notin {"running", "sync"} \/ stream[t] = {},
         stage' = [stage EXCEPT ![r] = s],
         UNCHANGED <<destroyed, memory_blocks, cancelling, memory_proxy, worker, used, stream>>
  PROVE  Loan'
<1>1. \A q \in Requests : stage'[q] \in HasBlock <=> stage[q] \in HasBlock
  BY DEF Types
<1>2. ASSUME NEW u \in Threads, NEW w \in stream[u] PROVE stage'[w.req] \in {"running", "sync"}
  <2>1. w.req \in Requests /\ worker[u] = w.req /\ stage[w.req] \in {"running", "sync"}
    BY <1>2 DEF Types, Work, Loan
  <2>2. CASE w.req = r
    <3>1. u = t
      BY <2>1, <2>2 DEF Places, PipelineAssumption
    <3> QED BY <2>1, <2>2, <3>1, <1>2 DEF Types
  <2>3. CASE w.req # r
    BY <2>1, <2>3 DEF Types
  <2> QED BY <2>2, <2>3
<1>3. ToSet(memory_blocks') = ToSet(memory_blocks) /\ IsInjective(memory_blocks')
  BY DEF Loan
<1> QED BY <1>1, <1>2, <1>3 DEF Loan

(* Every variable keeps its type.                                          *)
LEMMA TypeStep ==
  ASSUME PipelineAssumption, Types, Places, UsedInv, [Next]_vars
  PROVE  Types'
<1>. USE DEF Types, Stages
<1>1. CASE UNCHANGED vars
  BY <1>1 DEF vars, reqVars, gpuVars, poolVars, cancelVars
<1>2. CASE Pause
  BY <1>2 DEF Pause, reqVars, gpuVars, poolVars, cancelVars
<1>3. ASSUME NEW r \in Requests, StartAsync(r) PROVE Types'
  BY <1>3 DEF StartAsync, reqVars, gpuVars, poolVars, cancelVars, Set, EndTask, GiveBack
<1>4. ASSUME NEW r \in Requests, Preprocess(r) PROVE Types'
  BY <1>4 DEF Preprocess, reqVars, gpuVars, poolVars, cancelVars, Set, EndTask, GiveBack
<1>5. ASSUME NEW r \in Requests, Postprocess(r) PROVE Types'
  BY <1>5 DEF Postprocess, reqVars, gpuVars, poolVars, cancelVars, Set, EndTask, GiveBack
<1>6. ASSUME NEW r \in Requests, FailOnHost(r) PROVE Types'
  BY <1>6 DEF FailOnHost, reqVars, gpuVars, poolVars, cancelVars, Set, EndTask, GiveBack
<1>7. ASSUME NEW r \in Requests, Complete(r) PROVE Types'
  BY <1>7 DEF Complete, reqVars, gpuVars, poolVars, cancelVars, Set, EndTask, GiveBack
<1>8. ASSUME NEW r \in Requests, Cancel(r) PROVE Types'
  BY <1>8 DEF Cancel, reqVars, gpuVars, poolVars, cancelVars, Set, EndTask, GiveBack
<1>9. ASSUME NEW r \in Requests, CancelDestroy(r) PROVE Types'
  <2>1. cancelling[r] \in Blocks \union {None} /\ GiveBack(r, cancelling[r])
    BY <1>9 DEF CancelDestroy
  <2>2. /\ memory_blocks' \in Seq(Blocks \union {None})
        /\ memory_proxy' \in [Requests -> Blocks \union {None}]
    BY <2>1, GivenBack
  <2> QED BY <1>9, <2>2 DEF CancelDestroy, reqVars, gpuVars, Set
<1>10. ASSUME NEW t \in Threads, TakeTask(t) PROVE Types'
  BY <1>10 DEF TakeTask, reqVars, gpuVars, poolVars, cancelVars, Set, EndTask, GiveBack
<1>11. ASSUME NEW t \in Threads, WaitAndGet(t) PROVE Types'
  <2>1. PICK r \in Requests :
          /\ memory_blocks # <<>> /\ Last(memory_blocks) # None
          /\ memory_blocks' = Front(memory_blocks)
          /\ memory_proxy' = Set(memory_proxy, r, Last(memory_blocks))
          /\ destroyed' = destroyed \union ({memory_proxy[r]} \ {None})
          /\ used' = Set(used, t, Last(memory_blocks))
          /\ stage' = Set(stage, r, "run")
    BY <1>11 DEF WaitAndGet
  <2>2. UNCHANGED <<accepting, state, failed, task_queue, worker, stream, cancelling, disturbed, crashed>>
    BY <1>11 DEF WaitAndGet, reqVars, cancelVars
  <2>3. Last(memory_blocks) \in Blocks \union {None} /\ Front(memory_blocks) \in Seq(Blocks \union {None})
    BY <2>1, PopBack
  <2>4. destroyed' \subseteq Blocks
    BY <2>1
  <2> QED BY <2>1, <2>2, <2>3, <2>4 DEF Set
<1>12. ASSUME NEW t \in Threads, CrashOnNullBlock(t) PROVE Types'
  BY <1>12 DEF CrashOnNullBlock, reqVars, gpuVars, poolVars, cancelVars, Set, EndTask, GiveBack
<1>13. ASSUME NEW t \in Threads, Enqueue(t) PROVE Types'
  <2>1. PICK r \in Requests :
          /\ worker[t] = r /\ stage[r] = "run"
          /\ stream' = Set(stream, t, stream[t] \union {[req |-> r, block |-> used[t]]})
          /\ stage' = Set(stage, r, "running")
          /\ UNCHANGED <<reqVars, poolVars, task_queue, worker, used, destroyed, cancelVars, crashed>>
    BY <1>13 DEF Enqueue
  <2>2. [req |-> r, block |-> used[t]] \in Work
    BY <2>1 DEF UsedInv, HasBlock, Work
  <2>3. stream' \in [Threads -> SUBSET Work]
    BY <2>1, <2>2 DEF Set
  <2> QED BY <2>1, <2>3 DEF reqVars, poolVars, cancelVars, Set
<1>14. ASSUME NEW t \in Threads, EndRun(t) PROVE Types'
  BY <1>14 DEF EndRun, reqVars, gpuVars, poolVars, cancelVars, Set, EndTask, GiveBack
<1>15. ASSUME NEW t \in Threads, FailStart(t) PROVE Types'
  BY <1>15 DEF FailStart, reqVars, gpuVars, poolVars, cancelVars, Set, EndTask, GiveBack
<1>16. ASSUME NEW t \in Threads, Synchronize(t) PROVE Types'
  BY <1>16 DEF Synchronize, reqVars, gpuVars, poolVars, cancelVars, Set, EndTask, GiveBack
<1>17. ASSUME NEW t \in Threads, FailSynchronize(t) PROVE Types'
  BY <1>17 DEF FailSynchronize, reqVars, gpuVars, poolVars, cancelVars, Set, EndTask, GiveBack
<1>18. ASSUME NEW t \in Threads, Release(t) PROVE Types'
  BY <1>18 DEF Release, reqVars, gpuVars, poolVars, cancelVars, Set, EndTask, GiveBack
<1>19. ASSUME NEW t \in Threads, Destroy(t) PROVE Types'
  <2>1. PICK r \in Requests :
          /\ GiveBack(r, used[t]) /\ UNCHANGED failed /\ EndTask(t, r)
          /\ UNCHANGED <<accepting, state, task_queue, gpuVars, cancelVars>>
    BY <1>19 DEF Destroy
  <2>2. /\ memory_blocks' \in Seq(Blocks \union {None})
        /\ memory_proxy' \in [Requests -> Blocks \union {None}]
    BY <2>1, GivenBack
  <2> QED BY <2>1, <2>2 DEF EndTask, Set, gpuVars, cancelVars
<1>20. ASSUME NEW t \in Threads, GpuFinish(t) PROVE Types'
  BY <1>20 DEF GpuFinish, reqVars, gpuVars, poolVars, cancelVars, Set, EndTask, GiveBack
<1> QED
  BY <1>1, <1>2, <1>3, <1>4, <1>5, <1>6, <1>7, <1>8, <1>9, <1>10, <1>11, <1>12, <1>13, <1>14, <1>15, <1>16, <1>17, <1>18, <1>19, <1>20
     DEF Next, Host, Worker

(* A request is with one thread exactly while its GPU stage lasts.         *)
LEMMA PlaceStep ==
  ASSUME PipelineAssumption, StateInv, Types, Places, [Next]_vars
  PROVE  Places'
<1>1. CASE UNCHANGED vars
  BY <1>1, Stay DEF vars
<1>2. CASE Pause
  BY <1>2, Stay DEF Pause
<1>3. ASSUME NEW r \in Requests, StartAsync(r) PROVE Places'
  <2>1. /\ task_queue' = task_queue /\ worker' = worker
        /\ \E s \in {"preprocess", "postprocess", "complete", "idle"} : stage' = [stage EXCEPT ![r] = s]
    BY <1>3 DEF StartAsync, Set
  <2>2. stage[r] \in {"preprocess", "postprocess", "complete", "idle"}
    BY <1>3 DEF StartAsync, StateInv
  <2> QED BY <2>1, <2>2, Stay DEF Types, OnThread
<1>4. ASSUME NEW r \in Requests, Preprocess(r) PROVE Places'
  <2>1. /\ stage[r] = "preprocess" /\ stage' = [stage EXCEPT ![r] = "queued"]
        /\ task_queue' = Append(task_queue, r) /\ worker' = worker
    BY <1>4 DEF Preprocess, Set
  <2>2. r \notin ToSet(task_queue) /\ stage[r] \notin OnThread
    BY <2>1 DEF Places, OnThread
  <2>3. ToSet(task_queue') = ToSet(task_queue) \union {r} /\ IsInjective(task_queue')
    BY <2>1, <2>2, PushedBack DEF Types, Places
  <2>4. ASSUME NEW q \in Requests
        PROVE  /\ stage'[q] \in OnThread <=> \E t \in Threads : worker'[t] = q
               /\ stage'[q] = "queued" <=> q \in ToSet(task_queue')
    <3>1. CASE q = r
      BY <2>1, <2>2, <2>3, <3>1 DEF Places, OnThread, Types
    <3>2. CASE q # r
      BY <2>1, <2>3, <3>2 DEF Places, Types
    <3> QED BY <3>1, <3>2
  <2> QED BY <2>1, <2>3, <2>4 DEF Places
<1>5. ASSUME NEW r \in Requests, Postprocess(r) PROVE Places'
  <2>1. /\ task_queue' = task_queue /\ worker' = worker
        /\ \E s \in {"preprocess", "postprocess", "complete", "idle"} : stage' = [stage EXCEPT ![r] = s]
    BY <1>5 DEF Postprocess, Set
  <2>2. stage[r] \in {"preprocess", "postprocess", "complete", "idle"}
    BY <1>5 DEF Postprocess
  <2> QED BY <2>1, <2>2, Stay DEF Types, OnThread
<1>6. ASSUME NEW r \in Requests, FailOnHost(r) PROVE Places'
  <2>1. /\ task_queue' = task_queue /\ worker' = worker
        /\ \E s \in {"preprocess", "postprocess", "complete", "idle"} : stage' = [stage EXCEPT ![r] = s]
    BY <1>6 DEF FailOnHost, Set
  <2>2. stage[r] \in {"preprocess", "postprocess", "complete", "idle"}
    BY <1>6 DEF FailOnHost
  <2> QED BY <2>1, <2>2, Stay DEF Types, OnThread
<1>7. ASSUME NEW r \in Requests, Complete(r) PROVE Places'
  <2>1. /\ task_queue' = task_queue /\ worker' = worker
        /\ \E s \in {"preprocess", "postprocess", "complete", "idle"} : stage' = [stage EXCEPT ![r] = s]
    BY <1>7 DEF Complete, Set
  <2>2. stage[r] \in {"preprocess", "postprocess", "complete", "idle"}
    BY <1>7 DEF Complete
  <2> QED BY <2>1, <2>2, Stay DEF Types, OnThread
<1>8. ASSUME NEW r \in Requests, Cancel(r) PROVE Places'
  BY <1>8, Stay DEF Cancel
<1>9. ASSUME NEW r \in Requests, CancelDestroy(r) PROVE Places'
  BY <1>9, Stay DEF CancelDestroy
<1>10. ASSUME NEW t \in Threads, TakeTask(t) PROVE Places'
  <2>. DEFINE h == Head(task_queue)
  <2>1. /\ worker[t] = None /\ task_queue # <<>>
        /\ worker' = [worker EXCEPT ![t] = h] /\ stage' = [stage EXCEPT ![h] = "start"]
        /\ task_queue' = Tail(task_queue)
    BY <1>10 DEF TakeTask, Set
  <2>2. /\ h \in Requests /\ h \in ToSet(task_queue)
        /\ ToSet(task_queue') = ToSet(task_queue) \ {h} /\ IsInjective(task_queue')
    BY <2>1, PopFront DEF Types, Places
  <2>. HIDE DEF h
  <2>3. stage[h] = "queued" /\ \A u \in Threads : worker[u] # h
    BY <2>2 DEF Places, OnThread
  <2>4. ASSUME NEW q \in Requests
        PROVE  /\ stage'[q] \in OnThread <=> \E u \in Threads : worker'[u] = q
               /\ stage'[q] = "queued" <=> q \in ToSet(task_queue')
    <3>0. q # None
      BY DEF PipelineAssumption
    <3>1. CASE q = h
      BY <2>1, <2>2, <3>1 DEF OnThread, Types
    <3>2. CASE q # h
      <4>1. stage'[q] = stage[q]
        BY <2>1, <3>2 DEF Types
      <4>2. \A u \in Threads : worker'[u] = q <=> worker[u] = q
        BY <2>1, <3>0, <3>2 DEF Types
      <4> QED BY <2>2, <3>2, <4>1, <4>2 DEF Places
    <3> QED BY <3>1, <3>2
  <2>5. \A u, v \in Threads : worker'[u] = worker'[v] /\ worker'[u] # None => u = v
    BY <2>1, <2>3 DEF Places, Types
  <2> QED BY <2>2, <2>4, <2>5 DEF Places
<1>11. ASSUME NEW t \in Threads, WaitAndGet(t) PROVE Places'
  <2>1. PICK r \in Requests : 
          /\ task_queue' = task_queue /\ worker' = worker /\ worker[t] = r
          /\ \E s \in OnThread : stage' = [stage EXCEPT ![r] = s]
    BY <1>11 DEF WaitAndGet, Set, OnThread
  <2>2. stage[r] \in OnThread
    BY <2>1 DEF Places
  <2> QED BY <2>1, <2>2, Stay DEF Types, OnThread
<1>12. ASSUME NEW t \in Threads, CrashOnNullBlock(t) PROVE Places'
  BY <1>12, Stay DEF CrashOnNullBlock
<1>13. ASSUME NEW t \in Threads, Enqueue(t) PROVE Places'
  <2>1. PICK r \in Requests : 
          /\ task_queue' = task_queue /\ worker' = worker /\ worker[t] = r
          /\ \E s \in OnThread : stage' = [stage EXCEPT ![r] = s]
    BY <1>13 DEF Enqueue, Set, OnThread
  <2>2. stage[r] \in OnThread
    BY <2>1 DEF Places
  <2> QED BY <2>1, <2>2, Stay DEF Types, OnThread
<1>14. ASSUME NEW t \in Threads, EndRun(t) PROVE Places'
  <2>1. PICK r \in Requests : 
          /\ task_queue' = task_queue /\ worker' = worker /\ worker[t] = r
          /\ \E s \in OnThread : stage' = [stage EXCEPT ![r] = s]
    BY <1>14 DEF EndRun, Set, OnThread
  <2>2. stage[r] \in OnThread
    BY <2>1 DEF Places
  <2> QED BY <2>1, <2>2, Stay DEF Types, OnThread
<1>15. ASSUME NEW t \in Threads, FailStart(t) PROVE Places'
  <2>1. PICK r \in Requests : 
          /\ task_queue' = task_queue /\ worker' = worker /\ worker[t] = r
          /\ \E s \in OnThread : stage' = [stage EXCEPT ![r] = s]
    BY <1>15 DEF FailStart, Set, OnThread
  <2>2. stage[r] \in OnThread
    BY <2>1 DEF Places
  <2> QED BY <2>1, <2>2, Stay DEF Types, OnThread
<1>16. ASSUME NEW t \in Threads, Synchronize(t) PROVE Places'
  <2>1. PICK r \in Requests : 
          /\ task_queue' = task_queue /\ worker' = worker /\ worker[t] = r
          /\ \E s \in OnThread : stage' = [stage EXCEPT ![r] = s]
    BY <1>16 DEF Synchronize, Set, OnThread
  <2>2. stage[r] \in OnThread
    BY <2>1 DEF Places
  <2> QED BY <2>1, <2>2, Stay DEF Types, OnThread
<1>17. ASSUME NEW t \in Threads, FailSynchronize(t) PROVE Places'
  <2>1. PICK r \in Requests : worker[t] = r /\ EndTask(t, r) /\ task_queue' = task_queue
    BY <1>17 DEF FailSynchronize
  <2> QED BY <2>1, Ended
<1>18. ASSUME NEW t \in Threads, Release(t) PROVE Places'
  <2>1. PICK r \in Requests :
          /\ worker[t] = r /\ stage[r] = "release" /\ task_queue' = task_queue
          /\ EndTask(t, r) \/ (stage' = [stage EXCEPT ![r] = "destroy"] /\ worker' = worker)
    BY <1>18 DEF Release, Set
  <2>2. CASE EndTask(t, r)
    BY <2>1, <2>2, Ended
  <2>3. CASE stage' = [stage EXCEPT ![r] = "destroy"] /\ worker' = worker
    BY <2>1, <2>3, Stay DEF Types, OnThread
  <2> QED BY <2>1, <2>2, <2>3
<1>19. ASSUME NEW t \in Threads, Destroy(t) PROVE Places'
  <2>1. PICK r \in Requests : worker[t] = r /\ EndTask(t, r) /\ task_queue' = task_queue
    BY <1>19 DEF Destroy
  <2> QED BY <2>1, Ended
<1>20. ASSUME NEW t \in Threads, GpuFinish(t) PROVE Places'
  BY <1>20, Stay DEF GpuFinish
<1> QED
  BY <1>1, <1>2, <1>3, <1>4, <1>5, <1>6, <1>7, <1>8, <1>9, <1>10, <1>11, <1>12, <1>13, <1>14, <1>15, <1>16, <1>17, <1>18, <1>19, <1>20
     DEF Next, Host, Worker

(* A request that starts has no pipeline yet.                              *)
LEMMA StateStep ==
  ASSUME PipelineAssumption, StateInv, Types, Places, [Next]_vars
  PROVE  StateInv'
<1>. USE DEF StateInv, Types
<1>1. CASE UNCHANGED vars
  BY <1>1 DEF vars, reqVars, gpuVars, poolVars, cancelVars
<1>2. CASE Pause
  BY <1>2 DEF Pause, reqVars, gpuVars, poolVars, cancelVars
<1>3. ASSUME NEW r \in Requests, StartAsync(r) PROVE StateInv'
  BY <1>3 DEF StartAsync, reqVars, gpuVars, poolVars, cancelVars, Set, EndTask, GiveBack
<1>4. ASSUME NEW r \in Requests, Preprocess(r) PROVE StateInv'
  BY <1>4 DEF Preprocess, reqVars, gpuVars, poolVars, cancelVars, Set, EndTask, GiveBack
<1>5. ASSUME NEW r \in Requests, Postprocess(r) PROVE StateInv'
  BY <1>5 DEF Postprocess, reqVars, gpuVars, poolVars, cancelVars, Set, EndTask, GiveBack
<1>6. ASSUME NEW r \in Requests, FailOnHost(r) PROVE StateInv'
  BY <1>6 DEF FailOnHost, reqVars, gpuVars, poolVars, cancelVars, Set, EndTask, GiveBack
<1>7. ASSUME NEW r \in Requests, Complete(r) PROVE StateInv'
  BY <1>7 DEF Complete, reqVars, gpuVars, poolVars, cancelVars, Set, EndTask, GiveBack
<1>8. ASSUME NEW r \in Requests, Cancel(r) PROVE StateInv'
  BY <1>8 DEF Cancel, reqVars, gpuVars, poolVars, cancelVars, Set, EndTask, GiveBack
<1>9. ASSUME NEW r \in Requests, CancelDestroy(r) PROVE StateInv'
  BY <1>9 DEF CancelDestroy, reqVars, gpuVars, poolVars, cancelVars, Set, EndTask, GiveBack
<1>10. ASSUME NEW t \in Threads, TakeTask(t) PROVE StateInv'
  <2>1. /\ task_queue # <<>> /\ worker[t] = None
        /\ worker' = [worker EXCEPT ![t] = Head(task_queue)]
        /\ stage' = [stage EXCEPT ![Head(task_queue)] = "start"]
        /\ UNCHANGED <<state, used, stream>>
    BY <1>10 DEF TakeTask, Set, reqVars, gpuVars
  <2>2. Head(task_queue) \in Requests /\ Head(task_queue) \in ToSet(task_queue)
    BY <2>1, PopFront
  <2>3. stage[Head(task_queue)] = "queued"
    BY <2>2 DEF Places
  <2>4. /\ Head(task_queue) # None
        /\ \A u \in Threads : worker[u] # Head(task_queue)
    <3>1. Head(task_queue) # None
      BY <2>2 DEF PipelineAssumption
    <3>2. stage[Head(task_queue)] \notin OnThread
      BY <2>3 DEF OnThread
    <3> QED BY <3>1, <3>2, <2>2 DEF Places
  <2> QED BY <2>1, <2>2, <2>3, <2>4
<1>11. ASSUME NEW t \in Threads, WaitAndGet(t) PROVE StateInv'
  BY <1>11 DEF WaitAndGet, reqVars, gpuVars, poolVars, cancelVars, Set, EndTask, GiveBack
<1>12. ASSUME NEW t \in Threads, CrashOnNullBlock(t) PROVE StateInv'
  BY <1>12 DEF CrashOnNullBlock, reqVars, gpuVars, poolVars, cancelVars, Set, EndTask, GiveBack
<1>13. ASSUME NEW t \in Threads, Enqueue(t) PROVE StateInv'
  BY <1>13 DEF Enqueue, reqVars, gpuVars, poolVars, cancelVars, Set, EndTask, GiveBack
<1>14. ASSUME NEW t \in Threads, EndRun(t) PROVE StateInv'
  BY <1>14 DEF EndRun, reqVars, gpuVars, poolVars, cancelVars, Set, EndTask, GiveBack
<1>15. ASSUME NEW t \in Threads, FailStart(t) PROVE StateInv'
  BY <1>15 DEF FailStart, reqVars, gpuVars, poolVars, cancelVars, Set, EndTask, GiveBack
<1>16. ASSUME NEW t \in Threads, Synchronize(t) PROVE StateInv'
  BY <1>16 DEF Synchronize, reqVars, gpuVars, poolVars, cancelVars, Set, EndTask, GiveBack
<1>17. ASSUME NEW t \in Threads, FailSynchronize(t) PROVE StateInv'
  BY <1>17 DEF FailSynchronize, reqVars, gpuVars, poolVars, cancelVars, Set, EndTask, GiveBack
<1>18. ASSUME NEW t \in Threads, Release(t) PROVE StateInv'
  BY <1>18 DEF Release, reqVars, gpuVars, poolVars, cancelVars, Set, EndTask, GiveBack
<1>19. ASSUME NEW t \in Threads, Destroy(t) PROVE StateInv'
  BY <1>19 DEF Destroy, reqVars, gpuVars, poolVars, cancelVars, Set, EndTask, GiveBack
<1>20. ASSUME NEW t \in Threads, GpuFinish(t) PROVE StateInv'
  BY <1>20 DEF GpuFinish, reqVars, gpuVars, poolVars, cancelVars, Set, EndTask, GiveBack
<1> QED
  BY <1>1, <1>2, <1>3, <1>4, <1>5, <1>6, <1>7, <1>8, <1>9, <1>10, <1>11, <1>12, <1>13, <1>14, <1>15, <1>16, <1>17, <1>18, <1>19, <1>20
     DEF Next, Host, Worker

(* The block of a thread stays known to it.                                *)
LEMMA UsedStep ==
  ASSUME PipelineAssumption, Types, Places, UsedInv, [Next]_vars
  PROVE  UsedInv'
<1>. USE DEF UsedInv, HasBlock, Types, Places, OnThread
<1>1. CASE UNCHANGED vars
  BY <1>1 DEF vars, reqVars, gpuVars, poolVars, cancelVars
<1>2. CASE Pause
  BY <1>2 DEF Pause, reqVars, gpuVars, poolVars, cancelVars
<1>3. ASSUME NEW r \in Requests, StartAsync(r) PROVE UsedInv'
  BY <1>3 DEF StartAsync, reqVars, gpuVars, poolVars, cancelVars, Set, EndTask, GiveBack
<1>4. ASSUME NEW r \in Requests, Preprocess(r) PROVE UsedInv'
  BY <1>4 DEF Preprocess, reqVars, gpuVars, poolVars, cancelVars, Set, EndTask, GiveBack
<1>5. ASSUME NEW r \in Requests, Postprocess(r) PROVE UsedInv'
  BY <1>5 DEF Postprocess, reqVars, gpuVars, poolVars, cancelVars, Set, EndTask, GiveBack
<1>6. ASSUME NEW r \in Requests, FailOnHost(r) PROVE UsedInv'
  BY <1>6 DEF FailOnHost, reqVars, gpuVars, poolVars, cancelVars, Set, EndTask, GiveBack
<1>7. ASSUME NEW r \in Requests, Complete(r) PROVE UsedInv'
  BY <1>7 DEF Complete, reqVars, gpuVars, poolVars, cancelVars, Set, EndTask, GiveBack
<1>8. ASSUME NEW r \in Requests, Cancel(r) PROVE UsedInv'
  BY <1>8 DEF Cancel, reqVars, gpuVars, poolVars, cancelVars, Set, EndTask, GiveBack
<1>9. ASSUME NEW r \in Requests, CancelDestroy(r) PROVE UsedInv'
  BY <1>9 DEF CancelDestroy, reqVars, gpuVars, poolVars, cancelVars, Set, EndTask, GiveBack
<1>10. ASSUME NEW t \in Threads, TakeTask(t) PROVE UsedInv'
  <2>1. /\ task_queue # <<>> /\ worker[t] = None
        /\ worker' = [worker EXCEPT ![t] = Head(task_queue)]
        /\ stage' = [stage EXCEPT ![Head(task_queue)] = "start"]
        /\ UNCHANGED <<state, used, stream>>
    BY <1>10 DEF TakeTask, Set, reqVars, gpuVars
  <2>2. Head(task_queue) \in Requests /\ Head(task_queue) \in ToSet(task_queue)
    BY <2>1, PopFront
  <2>3. stage[Head(task_queue)] = "queued"
    BY <2>2
  <2>4. /\ Head(task_queue) # None
        /\ \A u \in Threads : worker[u] # Head(task_queue)
    <3>1. Head(task_queue) # None
      BY <2>2 DEF PipelineAssumption
    <3>2. stage[Head(task_queue)] \notin OnThread
      BY <2>3 DEF OnThread
    <3> QED BY <3>1, <3>2, <2>2 DEF Places
  <2> QED BY <2>1, <2>2, <2>3, <2>4
<1>11. ASSUME NEW t \in Threads, WaitAndGet(t) PROVE UsedInv'
  <2>1. PICK r \in Requests :
          /\ memory_blocks # <<>> /\ Last(memory_blocks) # None /\ worker[t] = r
          /\ used' = [used EXCEPT ![t] = Last(memory_blocks)]
          /\ stage' = [stage EXCEPT ![r] = "run"] /\ worker' = worker
    BY <1>11 DEF WaitAndGet, Set
  <2>2. Last(memory_blocks) \in Blocks
    <3>1. Last(memory_blocks) \in Blocks \union {None}
      BY <2>1, PopBack
    <3> QED BY <2>1, <3>1
  <2>3. r # None
    BY DEF PipelineAssumption
  <2> QED BY <2>1, <2>2, <2>3
<1>12. ASSUME NEW t \in Threads, CrashOnNullBlock(t) PROVE UsedInv'
  BY <1>12 DEF CrashOnNullBlock, reqVars, gpuVars, poolVars, cancelVars, Set, EndTask, GiveBack
<1>13. ASSUME NEW t \in Threads, Enqueue(t) PROVE UsedInv'
  BY <1>13 DEF Enqueue, reqVars, gpuVars, poolVars, cancelVars, Set, EndTask, GiveBack
<1>14. ASSUME NEW t \in Threads, EndRun(t) PROVE UsedInv'
  BY <1>14 DEF EndRun, reqVars, gpuVars, poolVars, cancelVars, Set, EndTask, GiveBack
<1>15. ASSUME NEW t \in Threads, FailStart(t) PROVE UsedInv'
  BY <1>15 DEF FailStart, reqVars, gpuVars, poolVars, cancelVars, Set, EndTask, GiveBack
<1>16. ASSUME NEW t \in Threads, Synchronize(t) PROVE UsedInv'
  BY <1>16 DEF Synchronize, reqVars, gpuVars, poolVars, cancelVars, Set, EndTask, GiveBack
<1>17. ASSUME NEW t \in Threads, FailSynchronize(t) PROVE UsedInv'
  BY <1>17 DEF FailSynchronize, reqVars, gpuVars, poolVars, cancelVars, Set, EndTask, GiveBack
<1>18. ASSUME NEW t \in Threads, Release(t) PROVE UsedInv'
  BY <1>18 DEF Release, reqVars, gpuVars, poolVars, cancelVars, Set, EndTask, GiveBack
<1>19. ASSUME NEW t \in Threads, Destroy(t) PROVE UsedInv'
  BY <1>19 DEF Destroy, reqVars, gpuVars, poolVars, cancelVars, Set, EndTask, GiveBack
<1>20. ASSUME NEW t \in Threads, GpuFinish(t) PROVE UsedInv'
  BY <1>20 DEF GpuFinish, reqVars, gpuVars, poolVars, cancelVars, Set, EndTask, GiveBack
<1> QED
  BY <1>1, <1>2, <1>3, <1>4, <1>5, <1>6, <1>7, <1>8, <1>9, <1>10, <1>11, <1>12, <1>13, <1>14, <1>15, <1>16, <1>17, <1>18, <1>19, <1>20
     DEF Next, Host, Worker

(* Work stays with the thread that synchronizes it.                        *)
LEMMA StreamStep ==
  ASSUME PipelineAssumption, StateInv, Types, Places, StreamInv, [Next]_vars
  PROVE  StreamInv'
<1>. USE DEF StreamInv, Types, Places, OnThread
<1>1. CASE UNCHANGED vars
  BY <1>1 DEF vars, reqVars, gpuVars, poolVars, cancelVars
<1>2. CASE Pause
  BY <1>2 DEF Pause, reqVars, gpuVars, poolVars, cancelVars
<1>3. ASSUME NEW r \in Requests, StartAsync(r) PROVE StreamInv'
  BY <1>3 DEF StartAsync, StateInv, reqVars, gpuVars, poolVars, cancelVars, Set, EndTask, GiveBack
<1>4. ASSUME NEW r \in Requests, Preprocess(r) PROVE StreamInv'
  BY <1>4 DEF Preprocess, reqVars, gpuVars, poolVars, cancelVars, Set, EndTask, GiveBack
<1>5. ASSUME NEW r \in Requests, Postprocess(r) PROVE StreamInv'
  BY <1>5 DEF Postprocess, reqVars, gpuVars, poolVars, cancelVars, Set, EndTask, GiveBack
<1>6. ASSUME NEW r \in Requests, FailOnHost(r) PROVE StreamInv'
  BY <1>6 DEF FailOnHost, reqVars, gpuVars, poolVars, cancelVars, Set, EndTask, GiveBack
<1>7. ASSUME NEW r \in Requests, Complete(r) PROVE StreamInv'
  BY <1>7 DEF Complete, reqVars, gpuVars, poolVars, cancelVars, Set, EndTask, GiveBack
<1>8. ASSUME NEW r \in Requests, Cancel(r) PROVE StreamInv'
  BY <1>8 DEF Cancel, reqVars, gpuVars, poolVars, cancelVars, Set, EndTask, GiveBack
<1>9. ASSUME NEW r \in Requests, CancelDestroy(r) PROVE StreamInv'
  BY <1>9 DEF CancelDestroy, reqVars, gpuVars, poolVars, cancelVars, Set, EndTask, GiveBack
<1>10. ASSUME NEW t \in Threads, TakeTask(t) PROVE StreamInv'
  <2>1. /\ task_queue # <<>> /\ worker[t] = None
        /\ worker' = [worker EXCEPT ![t] = Head(task_queue)]
        /\ stage' = [stage EXCEPT ![Head(task_queue)] = "start"]
        /\ UNCHANGED <<state, used, stream>>
    BY <1>10 DEF TakeTask, Set, reqVars, gpuVars
  <2>2. Head(task_queue) \in Requests /\ Head(task_queue) \in ToSet(task_queue)
    BY <2>1, PopFront
  <2>3. stage[Head(task_queue)] = "queued"
    BY <2>2
  <2>4. /\ Head(task_queue) # None
        /\ \A u \in Threads : worker[u] # Head(task_queue)
    <3>1. Head(task_queue) # None
      BY <2>2 DEF PipelineAssumption
    <3>2. stage[Head(task_queue)] \notin OnThread
      BY <2>3 DEF OnThread
    <3> QED BY <3>1, <3>2, <2>2 DEF Places
  <2>5. "run" \notin Faults => stream[t] = {}
    <3>1. ASSUME "run" \notin Faults, NEW w \in stream[t] PROVE FALSE
      <4>1. w \in Work /\ worker[t] = w.req
        BY <3>1
      <4> QED BY <4>1, <2>1 DEF Work, PipelineAssumption
    <3> QED BY <3>1
  <2>6. ASSUME "run" \notin Faults, NEW u \in Threads, NEW w \in stream[u], u # t
        PROVE  worker'[u] = w.req /\ stage'[w.req] \in {"running", "sync"}
    <3>1. worker[u] = w.req /\ stage[w.req] \in {"running", "sync"}
      BY <2>6
    <3> QED BY <3>1, <2>1, <2>2, <2>3, <2>6
  <2>. HIDE DEF Types, Places, OnThread
  <2> QED BY <2>1, <2>5, <2>6
<1>11. ASSUME NEW t \in Threads, WaitAndGet(t) PROVE StreamInv'
  BY <1>11 DEF WaitAndGet, reqVars, gpuVars, poolVars, cancelVars, Set, EndTask, GiveBack
<1>12. ASSUME NEW t \in Threads, CrashOnNullBlock(t) PROVE StreamInv'
  BY <1>12 DEF CrashOnNullBlock, reqVars, gpuVars, poolVars, cancelVars, Set, EndTask, GiveBack
<1>13. ASSUME NEW t \in Threads, Enqueue(t) PROVE StreamInv'
  BY <1>13 DEF Enqueue, reqVars, gpuVars, poolVars, cancelVars, Set, EndTask, GiveBack
<1>14. ASSUME NEW t \in Threads, EndRun(t) PROVE StreamInv'
  BY <1>14 DEF EndRun, reqVars, gpuVars, poolVars, cancelVars, Set, EndTask, GiveBack
<1>15. ASSUME NEW t \in Threads, FailStart(t) PROVE StreamInv'
  BY <1>15 DEF FailStart, reqVars, gpuVars, poolVars, cancelVars, Set, EndTask, GiveBack
<1>16. ASSUME NEW t \in Threads, Synchronize(t) PROVE StreamInv'
  BY <1>16 DEF Synchronize, reqVars, gpuVars, poolVars, cancelVars, Set, EndTask, GiveBack
<1>17. ASSUME NEW t \in Threads, FailSynchronize(t) PROVE StreamInv'
  BY <1>17 DEF FailSynchronize, reqVars, gpuVars, poolVars, cancelVars, Set, EndTask, GiveBack
<1>18. ASSUME NEW t \in Threads, Release(t) PROVE StreamInv'
  <2>1. PICK r \in Requests :
          /\ worker[t] = r /\ stage[r] = "release" /\ stream' = stream
          /\ worker' = worker \/ worker' = [worker EXCEPT ![t] = None]
          /\ \E s \in {"destroy", "complete", "postprocess"} : stage' = [stage EXCEPT ![r] = s]
    BY <1>18 DEF Release, EndTask, Set, gpuVars
  <2>2. ASSUME "run" \notin Faults, NEW u \in Threads, NEW w \in stream[u]
        PROVE  w.req # r /\ u # t /\ w.req \in Requests
    <3>1. w \in Work /\ worker[u] = w.req /\ stage[w.req] \in {"running", "sync"}
      BY <2>2
    <3> QED BY <2>1, <3>1 DEF Work
  <2>. HIDE DEF Places
  <2> QED BY <2>1, <2>2
<1>19. ASSUME NEW t \in Threads, Destroy(t) PROVE StreamInv'
  BY <1>19 DEF Destroy, reqVars, gpuVars, poolVars, cancelVars, Set, EndTask, GiveBack
<1>20. ASSUME NEW t \in Threads, GpuFinish(t) PROVE StreamInv'
  BY <1>20 DEF GpuFinish, reqVars, gpuVars, poolVars, cancelVars, Set, EndTask, GiveBack
<1> QED
  BY <1>1, <1>2, <1>3, <1>4, <1>5, <1>6, <1>7, <1>8, <1>9, <1>10, <1>11, <1>12, <1>13, <1>14, <1>15, <1>16, <1>17, <1>18, <1>19, <1>20
     DEF Next, Host, Worker

(* As long as no block changes hands out of turn, every block is either free *)
(* or lent to one request, and work in flight is in the block of its request. *)
LEMMA LoanStep ==
  ASSUME PipelineAssumption, StateInv, Types, Places, LoanInv, [Next]_vars
  PROVE  LoanInv'
<1>. SUFFICES ASSUME ~disturbed' PROVE Loan'
  BY DEF LoanInv
<1>a. ~disturbed
  BY DEF Next, Host, Worker, vars, Pause, StartAsync, Preprocess, Postprocess, FailOnHost, Complete,
         Cancel, CancelDestroy, TakeTask, WaitAndGet, CrashOnNullBlock, Enqueue, EndRun, FailStart,
         Synchronize, FailSynchronize, Release, Destroy, GpuFinish, cancelVars
<1>0. Loan /\ ~disturbed /\ ~disturbed'
  BY <1>a DEF LoanInv
<1>1. ASSUME UNCHANGED vars PROVE Loan'
  BY <1>1, <1>0, Unlent DEF vars
<1>2. ASSUME Pause PROVE Loan'
  BY <1>2, <1>0, Unlent DEF Pause, poolVars, gpuVars, cancelVars
<1>3. ASSUME NEW r \in Requests, StartAsync(r) PROVE Loan'
  <2>1. /\ UNCHANGED <<destroyed, memory_blocks, cancelling, memory_proxy, worker, used, stream>>
        /\ \E s \in {"preprocess", "queued", "postprocess", "complete", "idle"} :
              stage' = [stage EXCEPT ![r] = s]
    BY <1>3 DEF StartAsync, Set, poolVars, gpuVars, cancelVars
  <2>2. stage[r] \in {"preprocess", "postprocess", "complete", "idle"}
    BY <1>3 DEF StartAsync, StateInv
  <2> QED BY <2>1, <2>2, <1>0, Unlent DEF Types, HasBlock
<1>4. ASSUME NEW r \in Requests, Preprocess(r) PROVE Loan'
  <2>1. /\ UNCHANGED <<destroyed, memory_blocks, cancelling, memory_proxy, worker, used, stream>>
        /\ \E s \in {"preprocess", "queued", "postprocess", "complete", "idle"} :
              stage' = [stage EXCEPT ![r] = s]
    BY <1>4 DEF Preprocess, Set, poolVars, gpuVars, cancelVars
  <2>2. stage[r] \in {"preprocess", "postprocess", "complete", "idle"}
    BY <1>4 DEF Preprocess
  <2> QED BY <2>1, <2>2, <1>0, Unlent DEF Types, HasBlock
<1>5. ASSUME NEW r \in Requests, Postprocess(r) PROVE Loan'
  <2>1. /\ UNCHANGED <<destroyed, memory_blocks, cancelling, memory_proxy, worker, used, stream>>
        /\ \E s \in {"preprocess", "queued", "postprocess", "complete", "idle"} :
              stage' = [stage EXCEPT ![r] = s]
    BY <1>5 DEF Postprocess, Set, poolVars, gpuVars, cancelVars
  <2>2. stage[r] \in {"preprocess", "postprocess", "complete", "idle"}
    BY <1>5 DEF Postprocess
  <2> QED BY <2>1, <2>2, <1>0, Unlent DEF Types, HasBlock
<1>6. ASSUME NEW r \in Requests, FailOnHost(r) PROVE Loan'
  <2>1. /\ UNCHANGED <<destroyed, memory_blocks, cancelling, memory_proxy, worker, used, stream>>
        /\ \E s \in {"preprocess", "queued", "postprocess", "complete", "idle"} :
              stage' = [stage EXCEPT ![r] = s]
    BY <1>6 DEF FailOnHost, Set, poolVars, gpuVars, cancelVars
  <2>2. stage[r] \in {"preprocess", "postprocess", "complete", "idle"}
    BY <1>6 DEF FailOnHost
  <2> QED BY <2>1, <2>2, <1>0, Unlent DEF Types, HasBlock
<1>7. ASSUME NEW r \in Requests, Complete(r) PROVE Loan'
  <2>1. /\ UNCHANGED <<destroyed, memory_blocks, cancelling, memory_proxy, worker, used, stream>>
        /\ \E s \in {"preprocess", "queued", "postprocess", "complete", "idle"} :
              stage' = [stage EXCEPT ![r] = s]
    BY <1>7 DEF Complete, Set, poolVars, gpuVars, cancelVars
  <2>2. stage[r] \in {"preprocess", "postprocess", "complete", "idle"}
    BY <1>7 DEF Complete
  <2> QED BY <2>1, <2>2, <1>0, Unlent DEF Types, HasBlock
<1>8. ASSUME NEW r \in Requests, Cancel(r) PROVE Loan'
  <2>1. memory_proxy[r] = None /\ cancelling' = [cancelling EXCEPT ![r] = None]
    BY <1>8 DEF Cancel, Set
  <2>2. cancelling' = cancelling
    BY <2>1, <1>0 DEF Loan, Types
  <2> QED BY <1>8, <2>2, <1>0, Unlent DEF Cancel, poolVars, gpuVars
<1>9. ASSUME NEW r \in Requests, CancelDestroy(r) PROVE Loan'
  BY <1>9, <1>0 DEF CancelDestroy, Loan
<1>10. ASSUME NEW t \in Threads, TakeTask(t) PROVE Loan'
  <2>. DEFINE h == Head(task_queue)
  <2>1. /\ task_queue # <<>> /\ worker[t] = None
        /\ worker' = [worker EXCEPT ![t] = h] /\ stage' = [stage EXCEPT ![h] = "start"]
        /\ UNCHANGED <<destroyed, memory_blocks, cancelling, memory_proxy, used, stream>>
    BY <1>10 DEF TakeTask, Set, poolVars, gpuVars, cancelVars
  <2>2. h \in Requests /\ h \in ToSet(task_queue)
    BY <2>1, PopFront DEF Types
  <2>. HIDE DEF h
  <2>3. stage[h] = "queued" /\ h # None
    BY <2>2 DEF Places, PipelineAssumption
  <2>4. \A q \in Requests : stage'[q] \in HasBlock <=> stage[q] \in HasBlock
    BY <2>1, <2>3 DEF Types, HasBlock
  <2>5. used[t] = None /\ memory_proxy[h] = None
    BY <2>1, <2>2, <2>3, <1>0 DEF Loan, HasBlock
  <2>6. ASSUME NEW u \in Threads
        PROVE  /\ worker'[u] # None => used[u] = memory_proxy[worker'[u]]
               /\ worker'[u] = None => used[u] = None
    BY <2>1, <2>3, <2>5, <1>0 DEF Types, Loan
  <2>7. ASSUME NEW u \in Threads, NEW w \in stream[u]
        PROVE  worker'[u] = w.req /\ stage'[w.req] \in {"running", "sync"}
    <3>1. w.req \in Requests /\ worker[u] = w.req /\ stage[w.req] \in {"running", "sync"}
      BY <2>7, <1>0 DEF Types, Work, Loan
    <3>2. w.req # None
      BY <3>1 DEF PipelineAssumption
    <3>3. w.req # h /\ u # t
      BY <2>1, <2>3, <3>1, <3>2
    <3> QED BY <2>1, <3>1, <3>3 DEF Types
  <2> QED BY <2>1, <2>4, <2>6, <2>7, <1>0 DEF Loan
<1>11. ASSUME NEW t \in Threads, WaitAndGet(t) PROVE Loan'
  <2>. DEFINE b == Last(memory_blocks)
  <2>1. PICK r \in Requests :
          /\ worker[t] = r /\ stage[r] = "start" /\ memory_blocks # <<>>
          /\ memory_blocks' = Front(memory_blocks)
          /\ memory_proxy' = [memory_proxy EXCEPT ![r] = b]
          /\ destroyed' = destroyed \union ({memory_proxy[r]} \ {None})
          /\ used' = [used EXCEPT ![t] = b] /\ stage' = [stage EXCEPT ![r] = "run"]
          /\ UNCHANGED <<worker, stream, cancelling>>
    BY <1>11 DEF WaitAndGet, Set, cancelVars
  <2>2. memory_blocks \in Seq(Blocks) /\ IsInjective(memory_blocks)
    BY <1>0 DEF Loan
  <2>3. /\ b \in Blocks /\ b \in ToSet(memory_blocks)
        /\ memory_blocks' \in Seq(Blocks) /\ IsInjective(memory_blocks')
        /\ ToSet(memory_blocks') = ToSet(memory_blocks) \ {b}
    BY <2>1, <2>2, PopBack
  <2>. HIDE DEF b
  <2>4. b # None /\ r # None
    BY <2>3 DEF PipelineAssumption
  <2>5. memory_proxy[r] = None /\ destroyed' = {}
    BY <2>1, <1>0 DEF Loan, HasBlock
  <2>6. /\ memory_proxy'[r] = b /\ stage'[r] = "run"
        /\ \A q \in Requests : q # r =>
              memory_proxy'[q] = memory_proxy[q] /\ stage'[q] = stage[q] /\ memory_proxy[q] # b
    BY <2>1, <2>3, <1>0 DEF Types, Loan
  <2>7. /\ \A q \in Requests : memory_proxy'[q] # None <=> stage'[q] \in HasBlock
        /\ \A q \in Requests : memory_proxy'[q] \notin ToSet(memory_blocks')
        /\ \A p, q \in Requests :
              memory_proxy'[p] = memory_proxy'[q] /\ memory_proxy'[p] # None => p = q
    BY <2>3, <2>4, <2>6, <1>0 DEF Loan, HasBlock
  <2>8. ASSUME NEW c \in Blocks
        PROVE  c \in ToSet(memory_blocks') \/ \E q \in Requests : memory_proxy'[q] = c
    <3>1. CASE c = b
      BY <2>6, <3>1
    <3>2. CASE c # b /\ c \in ToSet(memory_blocks)
      BY <2>3, <3>2
    <3>3. CASE \E q \in Requests : memory_proxy[q] = c
      <4>1. PICK q \in Requests : memory_proxy[q] = c
        BY <3>3
      <4>2. q # r
        BY <4>1, <2>5 DEF PipelineAssumption
      <4> QED BY <4>1, <4>2, <2>6
    <3> QED BY <3>1, <3>2, <3>3, <1>0 DEF Loan
  <2>9. ASSUME NEW u \in Threads
        PROVE  /\ worker[u] # None => used'[u] = memory_proxy'[worker[u]]
               /\ worker[u] = None => used'[u] = None
    <3>1. CASE u = t
      BY <2>1, <2>4, <2>6, <3>1 DEF Types
    <3>2. CASE u # t
      <4>1. worker[u] # r /\ used'[u] = used[u]
        BY <2>1, <2>4, <3>2 DEF Types, Places
      <4>2. worker[u] # None => worker[u] \in Requests /\ memory_proxy'[worker[u]] = memory_proxy[worker[u]]
        BY <2>6, <4>1 DEF Types
      <4> QED BY <4>1, <4>2, <1>0 DEF Loan
    <3> QED BY <3>1, <3>2
  <2>10. ASSUME NEW u \in Threads, NEW w \in stream[u]
         PROVE  /\ stage'[w.req] \in {"running", "sync"} /\ w.block = memory_proxy'[w.req]
    <3>1. /\ w.req \in Requests /\ stage[w.req] \in {"running", "sync"}
          /\ w.block = memory_proxy[w.req]
      BY <2>10, <1>0 DEF Types, Work, Loan
    <3> QED BY <2>1, <2>6, <3>1
  <2> QED BY <2>1, <2>3, <2>5, <2>7, <2>8, <2>9, <2>10, <1>0 DEF Loan
<1>12. ASSUME NEW t \in Threads, CrashOnNullBlock(t) PROVE Loan'
  BY <1>12, <1>0, Unlent DEF CrashOnNullBlock, poolVars, cancelVars
<1>13. ASSUME NEW t \in Threads, Enqueue(t) PROVE Loan'
  <2>1. PICK r \in Requests :
          /\ worker[t] = r /\ stage[r] = "run"
          /\ stream' = [stream EXCEPT ![t] = stream[t] \union {[req |-> r, block |-> used[t]]}]
          /\ stage' = [stage EXCEPT ![r] = "running"]
          /\ UNCHANGED <<destroyed, memory_blocks, memory_proxy, cancelling, worker, used>>
    BY <1>13 DEF Enqueue, Set, poolVars, cancelVars
  <2>2. \A q \in Requests : stage'[q] \in HasBlock <=> stage[q] \in HasBlock
    BY <2>1 DEF Types, HasBlock
  <2>3. used[t] = memory_proxy[r]
    BY <2>1, <1>0 DEF Loan, PipelineAssumption
  <2>4. ASSUME NEW u \in Threads, NEW w \in stream'[u]
        PROVE  /\ worker[u] = w.req /\ stage'[w.req] \in {"running", "sync"}
               /\ w.block = memory_proxy[w.req]
    <3>1. CASE w \in stream[u]
      <4>1. /\ w.req \in Requests /\ worker[u] = w.req /\ stage[w.req] \in {"running", "sync"}
            /\ w.block = memory_proxy[w.req]
        BY <3>1, <1>0 DEF Types, Work, Loan
      <4> QED BY <2>1, <4>1 DEF Types
    <3>2. CASE w \notin stream[u]
      <4>1. u = t /\ w = [req |-> r, block |-> used[t]]
        BY <2>1, <2>4, <3>2 DEF Types
      <4>2. w.req = r /\ w.block = used[t]
        BY <4>1
      <4> QED BY <2>1, <2>3, <4>1, <4>2 DEF Types
    <3> QED BY <3>1, <3>2
  <2> QED BY <2>1, <2>2, <2>4, <1>0 DEF Loan
<1>14. ASSUME NEW t \in Threads, EndRun(t) PROVE Loan'
  <2>1. PICK r \in Requests :
          /\ worker[t] = r /\ stage[r] = "running" /\ stage' = [stage EXCEPT ![r] = "sync"]
          /\ UNCHANGED <<destroyed, memory_blocks, memory_proxy, cancelling, stream, worker, used>>
    BY <1>14 DEF EndRun, Set, poolVars, gpuVars, cancelVars
  <2> QED BY <2>1, <1>0, Moves DEF HasBlock
<1>15. ASSUME NEW t \in Threads, FailStart(t) PROVE Loan'
  <2>1. PICK r \in Requests :
          /\ worker[t] = r /\ stage[r] = "run" /\ stage' = [stage EXCEPT ![r] = "release"]
          /\ UNCHANGED <<destroyed, memory_blocks, memory_proxy, cancelling, stream, worker, used>>
    BY <1>15, <1>0 DEF FailStart, Set, poolVars, gpuVars
  <2> QED BY <2>1, <1>0, Moves DEF HasBlock
<1>16. ASSUME NEW t \in Threads, Synchronize(t) PROVE Loan'
  <2>1. PICK r \in Requests :
          /\ worker[t] = r /\ stage[r] = "sync" /\ stage' = [stage EXCEPT ![r] = "release"]
          /\ stream[t] = {}
          /\ UNCHANGED <<destroyed, memory_blocks, memory_proxy, cancelling, stream, worker, used>>
    BY <1>16 DEF Synchronize, Set, poolVars, gpuVars, cancelVars
  <2> QED BY <2>1, <1>0, Moves DEF HasBlock
<1>17. ASSUME NEW t \in Threads, FailSynchronize(t) PROVE Loan'
  BY <1>17, <1>0 DEF FailSynchronize
<1>18. ASSUME NEW t \in Threads, Release(t) PROVE Loan'
  <2>1. PICK r \in Requests :
          /\ worker[t] = r /\ stage[r] = "release"
          /\ \/ stage' = [stage EXCEPT ![r] = "destroy"] /\ UNCHANGED <<worker, used>>
             \/ memory_proxy[r] = None
          /\ UNCHANGED <<destroyed, memory_blocks, memory_proxy, cancelling, stream>>
    BY <1>18 DEF Release, Set, poolVars, gpuVars, cancelVars
  <2>2. stage' = [stage EXCEPT ![r] = "destroy"] /\ UNCHANGED <<worker, used>>
    BY <2>1, <1>0 DEF Loan, HasBlock
  <2> QED BY <2>1, <2>2, <1>0, Moves DEF HasBlock
<1>19. ASSUME NEW t \in Threads, Destroy(t) PROVE Loan'
  <2>1. PICK r \in Requests :
          /\ worker[t] = r /\ stage[r] = "destroy" /\ GiveBack(r, used[t]) /\ EndTask(t, r)
          /\ UNCHANGED <<destroyed, cancelling, stream>>
    BY <1>19 DEF Destroy, gpuVars, cancelVars
  <2> QED BY <2>1, <1>0, Returned
<1>20. ASSUME NEW t \in Threads, GpuFinish(t) PROVE Loan'
  <2>1. /\ stream' = [stream EXCEPT ![t] = {}]
        /\ UNCHANGED <<destroyed, memory_blocks, memory_proxy, cancelling, worker, used, stage>>
    BY <1>20 DEF GpuFinish, Set, poolVars, cancelVars
  <2>2. \A u \in Threads : stream'[u] \subseteq stream[u]
    BY <2>1 DEF Types
  <2> QED BY <2>1, <2>2, <1>0 DEF Loan
<1> QED
  BY <1>1, <1>2, <1>3, <1>4, <1>5, <1>6, <1>7, <1>8, <1>9, <1>10, <1>11, <1>12, <1>13, <1>14, <1>15, <1>16, <1>17, <1>18, <1>19, <1>20
     DEF Next, Host, Worker

-----------------------------------------------------------------------------
(* The inductive invariant.                                                *)
IInv == Types /\ Places /\ StateInv /\ UsedInv /\ StreamInv /\ LoanInv

(* In the beginning every block is free and every request idle.            *)
LEMMA Initially ==
  ASSUME PipelineAssumption, Init
  PROVE  IInv
<1>. USE DEF Init
<1>1. Types
  <2>1. memory_blocks \in Seq(Blocks \union {None})
    BY DEF Blocks, PipelineAssumption
  <2>2. accepting \in BOOLEAN /\ crashed \in BOOLEAN /\ disturbed \in BOOLEAN /\ destroyed \subseteq Blocks
    OBVIOUS
  <2>3. /\ state \in [Requests -> {"IDLE", "BUSY", "CANCELLED"}]
        /\ stage \in [Requests -> Stages]
        /\ failed \in [Requests -> BOOLEAN]
    BY DEF Stages
  <2>4. /\ memory_proxy \in [Requests -> Blocks \union {None}]
        /\ cancelling \in [Requests -> Blocks \union {None}]
        /\ task_queue \in Seq(Requests)
    OBVIOUS
  <2>5. /\ worker \in [Threads -> Requests \union {None}]
        /\ used \in [Threads -> Blocks \union {None}]
        /\ stream \in [Threads -> SUBSET Work]
    OBVIOUS
  <2> QED BY <2>1, <2>2, <2>3, <2>4, <2>5 DEF Types
<1>2. Places
  <2>1. IsInjective(task_queue) /\ ToSet(task_queue) = {}
    BY DEF IsInjective, ToSet
  <2> QED BY <2>1 DEF Places, OnThread, PipelineAssumption
<1>3. StateInv /\ UsedInv /\ StreamInv
  BY DEF StateInv, UsedInv, StreamInv, HasBlock
<1>4. Loan
  <2>1. memory_blocks \in Seq(Blocks) /\ DOMAIN memory_blocks = Blocks
    BY DEF Blocks, PipelineAssumption
  <2>2. IsInjective(memory_blocks) /\ ToSet(memory_blocks) = Blocks
    BY <2>1 DEF IsInjective, ToSet
  <2>3. None \notin Blocks
    BY DEF PipelineAssumption
  <2> QED BY <2>1, <2>2, <2>3 DEF Loan, HasBlock
<1> QED BY <1>1, <1>2, <1>3, <1>4 DEF IInv, LoanInv

(* No failure, no cancel() and no order of the threads breaks it.          *)
THEOREM Inductive == Spec => []IInv
<1>1. Init => IInv
  BY Initially, PipelineAssumption
<1>2. IInv /\ [Next]_vars => IInv'
  BY TypeStep, PlaceStep, StateStep, UsedStep, StreamStep, LoanStep, PipelineAssumption DEF IInv
<1> QED BY <1>1, <1>2, PTL DEF Spec

(* The type invariant: a request is with one thread exactly while its GPU  *)
(* stage lasts, and queued once while it waits for a thread.               *)
THEOREM TypeCorrect == Spec => []TypeOK
<1>1. IInv => TypeOK
  BY Split DEF IInv
<1> QED BY <1>1, Inductive, PTL

(* If no call throws in the middle of Run, the callback of a request runs  *)
(* when the GPU has finished with it, whatever is cancelled.               *)
THEOREM DeliveredWhenFinished ==
    "run" \notin Faults => (Spec => []FinishedWhenDelivered)
<1>1. ASSUME "run" \notin Faults, IInv PROVE FinishedWhenDelivered
  BY <1>1 DEF IInv, StreamInv, FinishedWhenDelivered, Types, Work
<1>2. ("run" \notin Faults) /\ IInv => FinishedWhenDelivered
  BY <1>1
<1>. SUFFICES ASSUME "run" \notin Faults PROVE Spec => []FinishedWhenDelivered
  OBVIOUS
<1>3. IInv => FinishedWhenDelivered
  BY <1>2
<1> QED BY <1>3, Inductive, PTL

(* Until a block changes hands out of turn, no two inferences are in one   *)
(* block, and nobody works in a block that is free.                        *)
THEOREM BlocksApart == Spec => []BlocksKeptApart
<1>1. ASSUME IInv, Loan, NEW t \in Threads, NEW b \in InUse(t)
      PROVE  /\ worker[t] \in Requests /\ b = memory_proxy[worker[t]] /\ b # None
  <2>1. CASE b \in InFlight(t)
    <3>1. PICK w \in stream[t] : b = w.block
      BY <2>1 DEF InFlight
    <3>2. /\ w.req \in Requests /\ worker[t] = w.req /\ stage[w.req] \in {"running", "sync"}
          /\ w.block = memory_proxy[w.req]
      BY <1>1, <3>1 DEF IInv, Types, Work, Loan
    <3> QED BY <1>1, <3>1, <3>2 DEF Loan, HasBlock
  <2>2. CASE b \notin InFlight(t)
    <3>1. PICK r \in Requests : worker[t] = r /\ stage[r] \in {"run", "running"}
      BY <1>1, <2>2 DEF InUse
    <3>2. b = used[t] /\ b \in Blocks
      BY <1>1, <2>2 DEF InUse
    <3> QED BY <1>1, <3>1, <3>2, PipelineAssumption DEF Loan, PipelineAssumption
  <2> QED BY <2>1, <2>2
<1>2. ASSUME IInv, Loan PROVE OneUserPerBlock /\ FreeBlocksIdle
  <2>1. ASSUME NEW t \in Threads, NEW u \in Threads, t # u, NEW b,
               b \in InUse(t), b \in InUse(u)
        PROVE  FALSE
    <3>1. worker[t] = worker[u]
      BY <1>1, <1>2, <2>1 DEF Loan
    <3>2. worker[t] # None
      BY <1>1, <1>2, <2>1, PipelineAssumption DEF PipelineAssumption
    <3> QED BY <1>2, <2>1, <3>1, <3>2 DEF IInv, Places
  <2>2. ASSUME NEW t \in Threads, NEW b, b \in InUse(t), b \in ToSet(memory_blocks)
        PROVE  FALSE
    BY <1>1, <1>2, <2>2 DEF Loan
  <2> QED BY <2>1, <2>2 DEF OneUserPerBlock, FreeBlocksIdle
<1>3. IInv => BlocksKeptApart
  BY <1>2 DEF IInv, LoanInv, BlocksKeptApart
<1> QED BY <1>3, Inductive, PTL

(* Under the same condition, the pool has every block once when all        *)
(* requests are idle: no failure leaks one.                                *)
THEOREM PoolWhole == Spec => []PoolWholeAtRest
<1>1. ASSUME IInv, Loan, \A r \in Requests : stage[r] = "idle"
      PROVE  /\ ToSet(memory_blocks) = Blocks
             /\ Len(memory_blocks) = NumBlocks /\ destroyed = {}
             /\ \A t \in Threads : worker[t] = None /\ stream[t] = {}
  <2>1. /\ memory_blocks \in Seq(Blocks) /\ IsInjective(memory_blocks)
        /\ \A b \in Blocks : b \in ToSet(memory_blocks) \/ \E r \in Requests : memory_proxy[r] = b
    BY <1>1 DEF Loan
  <2>2. \A r \in Requests : memory_proxy[r] = None
    BY <1>1 DEF Loan, HasBlock
  <2>3. ToSet(memory_blocks) = Blocks
    BY <2>1, <2>2, PipelineAssumption DEF PipelineAssumption, ToSet
  <2>4. Len(memory_blocks) = NumBlocks
    <3>1. Len(memory_blocks) \in Nat /\ DOMAIN memory_blocks = 1..Len(memory_blocks)
      BY <2>1
    <3>2. IsFiniteSet(Blocks) /\ Cardinality(Blocks) = NumBlocks
      <4>1. /\ IsFiniteSet(1..NumBlocks)
            /\ Cardinality(1..NumBlocks) = IF 1 > NumBlocks THEN 0 ELSE NumBlocks - 1 + 1
        BY FS_Interval, PipelineAssumption DEF PipelineAssumption
      <4>2. NumBlocks \in Nat \ {0}
        BY PipelineAssumption DEF PipelineAssumption
      <4> QED BY <4>1, <4>2 DEF Blocks
    <3>3. /\ IsFiniteSet(1..Len(memory_blocks))
          /\ Cardinality(1..Len(memory_blocks)) = Len(memory_blocks)
      <4>1. /\ IsFiniteSet(1..Len(memory_blocks))
            /\ Cardinality(1..Len(memory_blocks)) =
                  IF 1 > Len(memory_blocks) THEN 0 ELSE Len(memory_blocks) - 1 + 1
        <5>. DEFINE n == Len(memory_blocks)
        <5>1. n \in Int
          BY <3>1
        <5>. HIDE DEF n
        <5>2. IsFiniteSet(1..n) /\ Cardinality(1..n) = IF 1 > n THEN 0 ELSE n - 1 + 1
          BY <5>1, FS_Interval
        <5> QED BY <5>2 DEF n
      <4> QED BY <4>1, <3>1
    <3>4. memory_blocks \in [1..Len(memory_blocks) -> Blocks]
      BY <2>1, <3>1
    <3>5. \A b \in Blocks : \E i \in 1..Len(memory_blocks) : memory_blocks[i] = b
      BY <2>3, <3>1 DEF ToSet
    <3>6. memory_blocks \in Bijection(1..Len(memory_blocks), Blocks)
      BY <2>1, <3>4, <3>5 DEF Bijection, Injection, Surjection
    <3>7. Cardinality(Blocks) = Cardinality(1..Len(memory_blocks))
      BY <3>3, <3>6, FS_Bijection DEF ExistsBijection
    <3> QED BY <3>2, <3>3, <3>7
  <2>5. ASSUME NEW t \in Threads PROVE worker[t] = None /\ stream[t] = {}
    <3>1. worker[t] = None
      <4>1. worker[t] \in Requests => stage[worker[t]] \in OnThread
        BY <1>1 DEF IInv, Places
      <4>2. worker[t] \in Requests \union {None}
        BY <1>1 DEF IInv, Types
      <4> QED BY <1>1, <4>1, <4>2 DEF OnThread
    <3>2. \A w \in stream[t] : w.req \in Requests /\ stage[w.req] \in {"running", "sync"}
      BY <1>1 DEF IInv, Types, Work, Loan
    <3> QED BY <1>1, <3>1, <3>2
  <2> QED BY <1>1, <2>3, <2>4, <2>5 DEF Loan
<1>2. IInv => PoolWholeAtRest
  BY <1>1 DEF IInv, LoanInv, PoolWholeAtRest
<1> QED BY <1>2, Inductive, PTL

(* Steps that are not about the pool.                                      *)
LEMMA Quiet ==
  ASSUME UNCHANGED <<memory_blocks, memory_proxy>>,
         \A q \in Requests : stage'[q] = "start" <=> stage[q] = "start"
  PROVE  UNCHANGED Lending!vars
<1>1. ToSet(memory_blocks') = ToSet(memory_blocks)
  OBVIOUS
<1>2. {r \in Requests : stage'[r] = "start"} = {r \in Requests : stage[r] = "start"}
  OBVIOUS
<1> QED BY <1>1, <1>2 DEF Lending!vars

(* Until a block changes hands out of turn, every step asks for a block, lends *)
(* one, returns one, or does not concern the pool.                         *)
LEMMA LendingStep ==
  ASSUME PipelineAssumption, StateInv, Types, Places, LoanInv, [Next]_vars,
         ~disturbed, ~disturbed'
  PROVE  [Lending!Next]_(Lending!vars)
<1>. DEFINE Asking == {r \in Requests : stage[r] = "start"}
<1>0. Loan /\ ~disturbed /\ ~disturbed'
  BY DEF LoanInv
<1>1. ASSUME UNCHANGED vars PROVE [Lending!Next]_(Lending!vars)
  BY <1>1, Quiet DEF vars
<1>2. ASSUME Pause PROVE [Lending!Next]_(Lending!vars)
  BY <1>2, Quiet DEF Pause, poolVars
<1>3. ASSUME NEW r \in Requests, StartAsync(r) PROVE [Lending!Next]_(Lending!vars)
  <2>1. UNCHANGED <<memory_blocks, memory_proxy>> /\ \A q \in Requests : stage'[q] = "start" <=> stage[q] = "start"
    BY <1>3 DEF StartAsync, StateInv, Set, Types, poolVars, cancelVars
  <2> QED BY <2>1, Quiet
<1>4. ASSUME NEW r \in Requests, Preprocess(r) PROVE [Lending!Next]_(Lending!vars)
  <2>1. UNCHANGED <<memory_blocks, memory_proxy>> /\ \A q \in Requests : stage'[q] = "start" <=> stage[q] = "start"
    BY <1>4 DEF Preprocess, Set, Types, poolVars, cancelVars
  <2> QED BY <2>1, Quiet
<1>5. ASSUME NEW r \in Requests, Postprocess(r) PROVE [Lending!Next]_(Lending!vars)
  <2>1. UNCHANGED <<memory_blocks, memory_proxy>> /\ \A q \in Requests : stage'[q] = "start" <=> stage[q] = "start"
    BY <1>5 DEF Postprocess, Set, Types, poolVars, cancelVars
  <2> QED BY <2>1, Quiet
<1>6. ASSUME NEW r \in Requests, FailOnHost(r) PROVE [Lending!Next]_(Lending!vars)
  <2>1. UNCHANGED <<memory_blocks, memory_proxy>> /\ \A q \in Requests : stage'[q] = "start" <=> stage[q] = "start"
    BY <1>6 DEF FailOnHost, Set, Types, poolVars, cancelVars
  <2> QED BY <2>1, Quiet
<1>7. ASSUME NEW r \in Requests, Complete(r) PROVE [Lending!Next]_(Lending!vars)
  <2>1. UNCHANGED <<memory_blocks, memory_proxy>> /\ \A q \in Requests : stage'[q] = "start" <=> stage[q] = "start"
    BY <1>7 DEF Complete, Set, Types, poolVars, cancelVars
  <2> QED BY <2>1, Quiet
<1>8. ASSUME NEW r \in Requests, Cancel(r) PROVE [Lending!Next]_(Lending!vars)
  <2>1. UNCHANGED <<memory_blocks, memory_proxy>> /\ \A q \in Requests : stage'[q] = "start" <=> stage[q] = "start"
    BY <1>8 DEF Cancel, Set, Types, poolVars, cancelVars
  <2> QED BY <2>1, Quiet
<1>9. ASSUME NEW r \in Requests, CancelDestroy(r) PROVE [Lending!Next]_(Lending!vars)
  BY <1>9, <1>0 DEF CancelDestroy, Loan
<1>10. ASSUME NEW t \in Threads, TakeTask(t) PROVE [Lending!Next]_(Lending!vars)
  <2>1. /\ task_queue # <<>> /\ stage' = [stage EXCEPT ![Head(task_queue)] = "start"]
        /\ UNCHANGED <<memory_blocks, memory_proxy>>
    BY <1>10 DEF TakeTask, Set, poolVars
  <2>2. Head(task_queue) \in Requests /\ Head(task_queue) \in ToSet(task_queue)
    BY <2>1, PopFront DEF Types
  <2>3. PICK r \in Requests : r \in ToSet(task_queue) /\ stage' = [stage EXCEPT ![r] = "start"]
    BY <2>1, <2>2
  <2>4. stage[r] = "queued" /\ memory_proxy[r] = None
    BY <2>3, <1>0 DEF Places, Loan, HasBlock
  <2>5. Asking' = Asking \union {r} /\ r \notin Asking
    BY <2>3, <2>4 DEF Types
  <2>6. Lending!Ask(r)
    BY <2>1, <2>4, <2>5 DEF Lending!Ask
  <2> QED BY <2>6 DEF Lending!Next
<1>11. ASSUME NEW t \in Threads, WaitAndGet(t) PROVE [Lending!Next]_(Lending!vars)
  <2>. DEFINE b == Last(memory_blocks)
  <2>1. PICK r \in Requests :
          /\ stage[r] = "start" /\ memory_blocks # <<>>
          /\ memory_blocks' = Front(memory_blocks)
          /\ memory_proxy' = [memory_proxy EXCEPT ![r] = b]
          /\ stage' = [stage EXCEPT ![r] = "run"]
    BY <1>11 DEF WaitAndGet, Set
  <2>2. memory_blocks \in Seq(Blocks) /\ IsInjective(memory_blocks)
    BY <1>0 DEF Loan
  <2>3. b \in ToSet(memory_blocks) /\ ToSet(memory_blocks') = ToSet(memory_blocks) \ {b}
    BY <2>1, <2>2, PopBack
  <2>. HIDE DEF b
  <2>4. r \in Asking /\ Asking' = Asking \ {r}
    BY <2>1 DEF Types
  <2>5. Lending!Lend(r)
    BY <2>1, <2>3, <2>4 DEF Lending!Lend
  <2> QED BY <2>5 DEF Lending!Next
<1>12. ASSUME NEW t \in Threads, CrashOnNullBlock(t) PROVE [Lending!Next]_(Lending!vars)
  <2>1. UNCHANGED <<memory_blocks, memory_proxy>> /\ \A q \in Requests : stage'[q] = "start" <=> stage[q] = "start"
    BY <1>12 DEF CrashOnNullBlock, Set, Types, poolVars, cancelVars
  <2> QED BY <2>1, Quiet
<1>13. ASSUME NEW t \in Threads, Enqueue(t) PROVE [Lending!Next]_(Lending!vars)
  <2>1. UNCHANGED <<memory_blocks, memory_proxy>> /\ \A q \in Requests : stage'[q] = "start" <=> stage[q] = "start"
    BY <1>13 DEF Enqueue, Set, Types, poolVars, cancelVars
  <2> QED BY <2>1, Quiet
<1>14. ASSUME NEW t \in Threads, EndRun(t) PROVE [Lending!Next]_(Lending!vars)
  <2>1. UNCHANGED <<memory_blocks, memory_proxy>> /\ \A q \in Requests : stage'[q] = "start" <=> stage[q] = "start"
    BY <1>14 DEF EndRun, Set, Types, poolVars, cancelVars
  <2> QED BY <2>1, Quiet
<1>15. ASSUME NEW t \in Threads, FailStart(t) PROVE [Lending!Next]_(Lending!vars)
  <2>1. UNCHANGED <<memory_blocks, memory_proxy>> /\ \A q \in Requests : stage'[q] = "start" <=> stage[q] = "start"
    BY <1>15 DEF FailStart, Set, Types, poolVars, cancelVars
  <2> QED BY <2>1, Quiet
<1>16. ASSUME NEW t \in Threads, Synchronize(t) PROVE [Lending!Next]_(Lending!vars)
  <2>1. UNCHANGED <<memory_blocks, memory_proxy>> /\ \A q \in Requests : stage'[q] = "start" <=> stage[q] = "start"
    BY <1>16 DEF Synchronize, Set, Types, poolVars, cancelVars
  <2> QED BY <2>1, Quiet
<1>17. ASSUME NEW t \in Threads, FailSynchronize(t) PROVE [Lending!Next]_(Lending!vars)
  BY <1>17, <1>0 DEF FailSynchronize
<1>18. ASSUME NEW t \in Threads, Release(t) PROVE [Lending!Next]_(Lending!vars)
  <2>1. UNCHANGED <<memory_blocks, memory_proxy>> /\ \A q \in Requests : stage'[q] = "start" <=> stage[q] = "start"
    BY <1>18, <1>0 DEF Release, EndTask, Loan, HasBlock, Set, Types, poolVars, cancelVars
  <2> QED BY <2>1, Quiet
<1>19. ASSUME NEW t \in Threads, Destroy(t) PROVE [Lending!Next]_(Lending!vars)
  <2>1. PICK r \in Requests :
          /\ stage[r] = "destroy" /\ GiveBack(r, used[t]) /\ EndTask(t, r)
    BY <1>19 DEF Destroy
  <2>2. memory_proxy[r] # None /\ memory_proxy[r] \in Blocks
    BY <2>1, <1>0 DEF Loan, HasBlock, Types
  <2>3. /\ memory_blocks' = Append(memory_blocks, memory_proxy[r])
        /\ memory_proxy' = [memory_proxy EXCEPT ![r] = None]
    BY <2>1, <2>2 DEF GiveBack, Set
  <2>4. ToSet(memory_blocks') = ToSet(memory_blocks) \union {memory_proxy[r]}
    BY <2>2, <2>3, <1>0, PushedBack DEF Loan
  <2>5. Asking' = Asking
    <3>1. \E s \in {"complete", "postprocess"} : stage' = [stage EXCEPT ![r] = s]
      BY <2>1 DEF EndTask, Set
    <3> QED BY <2>1, <3>1 DEF Types
  <2>6. Lending!Return(r)
    BY <2>2, <2>3, <2>4, <2>5 DEF Lending!Return
  <2> QED BY <2>6 DEF Lending!Next
<1>20. ASSUME NEW t \in Threads, GpuFinish(t) PROVE [Lending!Next]_(Lending!vars)
  <2>1. UNCHANGED <<memory_blocks, memory_proxy>> /\ \A q \in Requests : stage'[q] = "start" <=> stage[q] = "start"
    BY <1>20 DEF GpuFinish, Set, Types, poolVars, cancelVars
  <2> QED BY <2>1, Quiet
<1> QED
  BY <1>1, <1>2, <1>3, <1>4, <1>5, <1>6, <1>7, <1>8, <1>9, <1>10, <1>11, <1>12, <1>13, <1>14, <1>15, <1>16, <1>17, <1>18, <1>19, <1>20
     DEF Next, Host, Worker

(* The requests are proper clients of the pool until a block changes hands *)
(* out of turn: the safety part of ImplementsBlockLending, with failures   *)
(* and a cancel() at any other moment.                                     *)
THEOREM LendsAsPromised ==
    Spec => Lending!Init /\ [][disturbed' \/ Lending!Next]_(Lending!vars)
<1>1. Init => Lending!Init
  <2> SUFFICES ASSUME Init PROVE Lending!Init
    OBVIOUS
  <2>1. ToSet(memory_blocks) = Blocks
    BY DEF Init, ToSet
  <2>2. 1 \in Blocks
    BY PipelineAssumption DEF PipelineAssumption, Blocks
  <2>3. {r \in Requests : stage[r] = "start"} = {}
    BY DEF Init
  <2> QED BY <2>1, <2>2, <2>3 DEF Init, Lending!Init
<1>2. IInv /\ [Next]_vars => [disturbed' \/ Lending!Next]_(Lending!vars)
  <2> SUFFICES ASSUME IInv, [Next]_vars, ~disturbed'
               PROVE  [Lending!Next]_(Lending!vars)
    OBVIOUS
  <2>1. ~disturbed
    BY DEF Next, Host, Worker, vars, Pause, StartAsync, Preprocess, Postprocess, FailOnHost, Complete,
           Cancel, CancelDestroy, TakeTask, WaitAndGet, CrashOnNullBlock, Enqueue, EndRun, FailStart,
           Synchronize, FailSynchronize, Release, Destroy, GpuFinish, cancelVars
  <2> QED BY <2>1, LendingStep, PipelineAssumption DEF IInv
<1> QED BY <1>1, <1>2, Inductive, PTL DEF Spec
=============================================================================
