------------------------ MODULE MemoryManager_proofs ------------------------
(***************************************************************************)
(* Proofs about the memory manager of nvidia_plugin.                       *)
(*                                                                         *)
(* MemoryPool, for every set of threads and every number of blocks: the    *)
(* type invariant, that every block is owned exactly once, and that no     *)
(* wakeup is lost.                                                         *)
(*                                                                         *)
(* OpBuffersExtractor, for every graph: the tensors that share the memory  *)
(* block are there, whole and not written over, for as long as somebody    *)
(* reads them.                                                             *)
(***************************************************************************)
EXTENDS MemoryPool, OpBuffersExtractor, FiniteSetTheorems, WellFoundedInduction, TLAPS

-----------------------------------------------------------------------------
(* What the operations on a queue do to its elements.                      *)

(* resize to a smaller size keeps a prefix.                                *)
LEMMA Truncated ==
  ASSUME NEW S, NEW s \in Seq(S), NEW k \in 0..Len(s)
  PROVE  /\ SubSeq(s, 1, k) \in Seq(S)
         /\ Len(SubSeq(s, 1, k)) = k
         /\ \A i \in 1..k : SubSeq(s, 1, k)[i] = s[i]
         /\ ToSet(SubSeq(s, 1, k)) \subseteq ToSet(s)
         /\ IsInjective(s) => IsInjective(SubSeq(s, 1, k))
<1>1. /\ SubSeq(s, 1, k) \in Seq(S) /\ Len(SubSeq(s, 1, k)) = k
      /\ \A i \in 1..k : SubSeq(s, 1, k)[i] = s[i]
  OBVIOUS
<1>2. DOMAIN s = 1..Len(s) /\ DOMAIN SubSeq(s, 1, k) = 1..k /\ 1..k \subseteq 1..Len(s)
  BY <1>1
<1> QED BY <1>1, <1>2 DEF ToSet, IsInjective

(* vector::back and pop_back.                                              *)
LEMMA PopBack ==
  ASSUME NEW S, NEW s \in Seq(S), s # <<>>
  PROVE  /\ Last(s) \in S /\ Last(s) \in ToSet(s)
         /\ Front(s) \in Seq(S)
         /\ Len(Front(s)) = Len(s) - 1
         /\ IsInjective(s) => IsInjective(Front(s)) /\ ToSet(Front(s)) = ToSet(s) \ {Last(s)}
<1>1. Len(s) \in Nat \ {0}
  OBVIOUS
<1>2. /\ Front(s) \in Seq(S) /\ Len(Front(s)) = Len(s) - 1
      /\ \A i \in 1..(Len(s) - 1) : Front(s)[i] = s[i]
  <2>1. Len(s) - 1 \in 0..Len(s)
    BY <1>1
  <2> QED BY <2>1, Truncated DEF Front
<1>3. 1..Len(s) = (1..(Len(s) - 1)) \cup {Len(s)} /\ Len(s) \notin 1..(Len(s) - 1)
  BY <1>1
<1>4. DOMAIN s = 1..Len(s) /\ DOMAIN Front(s) = 1..(Len(s) - 1)
  BY <1>2
<1>5. Last(s) \in S /\ Last(s) \in ToSet(s)
  BY <1>1, <1>4 DEF Last, ToSet
<1>6. ASSUME IsInjective(s)
      PROVE  IsInjective(Front(s)) /\ ToSet(Front(s)) = ToSet(s) \ {Last(s)}
  <2>1. \A i \in 1..(Len(s) - 1) : s[i] # s[Len(s)]
    BY <1>1, <1>3, <1>4, <1>6 DEF IsInjective
  <2>2. IsInjective(Front(s))
    BY <1>2, <1>3, <1>4, <1>6 DEF IsInjective
  <2>3. ToSet(s) = {s[i] : i \in 1..(Len(s) - 1)} \cup {s[Len(s)]}
    BY <1>3, <1>4 DEF ToSet
  <2>4. ToSet(Front(s)) = {s[i] : i \in 1..(Len(s) - 1)}
    BY <1>2, <1>4 DEF ToSet
  <2> QED BY <2>1, <2>2, <2>3, <2>4 DEF Last
<1> QED BY <1>2, <1>5, <1>6

(* push_back and emplace_back add one element at the end.                  *)
LEMMA PushedBack ==
  ASSUME NEW S, NEW s \in Seq(S), NEW x \in S
  PROVE  /\ Append(s, x) \in Seq(S)
         /\ Len(Append(s, x)) = Len(s) + 1 /\ Append(s, x) # <<>>
         /\ ToSet(Append(s, x)) = ToSet(s) \cup {x}
         /\ IsInjective(s) /\ x \notin ToSet(s) => IsInjective(Append(s, x))
<1>1. Len(s) \in Nat
  OBVIOUS
<1>2. /\ Append(s, x) \in Seq(S) /\ Len(Append(s, x)) = Len(s) + 1
      /\ Append(s, x)[Len(s) + 1] = x
      /\ \A i \in 1..Len(s) : Append(s, x)[i] = s[i]
  OBVIOUS
<1>3. 1..(Len(s) + 1) = (1..Len(s)) \cup {Len(s) + 1} /\ Len(s) + 1 \notin 1..Len(s)
  BY <1>1
<1>4. DOMAIN s = 1..Len(s) /\ DOMAIN Append(s, x) = 1..(Len(s) + 1)
  BY <1>2
<1>5. Append(s, x) # <<>>
  BY <1>1, <1>2
<1> QED BY <1>1, <1>2, <1>3, <1>4, <1>5 DEF ToSet, IsInjective

-----------------------------------------------------------------------------
(* Type correctness of the pool: in particular a client owns a block       *)
(* exactly between WaitAndGet and PushBack.                                *)
THEOREM TypeCorrect == Spec => []TypeOK
<1>. USE PoolAssumption DEF Locations, TypeOK
<1>1. Init => TypeOK
  BY DEF Init, InPool, ToSet, Blocks, PoolAssumption
<1>2. TypeOK /\ [Next]_vars => TypeOK'
  <2> SUFFICES ASSUME TypeOK, [Next]_vars PROVE TypeOK'
    OBVIOUS
  <2>1. ASSUME NEW c \in Clients, CallWaitAndGet(c) PROVE TypeOK'
    BY <2>1 DEF CallWaitAndGet
  <2>2. ASSUME NEW c \in Clients, Sleep(c) PROVE TypeOK'
    BY <2>2 DEF Sleep
  <2>3. ASSUME NEW c \in Clients, Take(c) PROVE TypeOK'
    <3>1. Last(memory_blocks) \in Blocks /\ Front(memory_blocks) \in Seq(Blocks)
      BY <2>3, PopBack DEF Take
    <3> QED BY <2>3, <3>1 DEF Take
  <2>4. ASSUME NEW c \in Clients, PushBack(c) PROVE TypeOK'
    BY <2>4 DEF PushBack
  <2>5. ASSUME NEW c \in Clients, NotifyOne(c) PROVE TypeOK'
    BY <2>5 DEF NotifyOne, At
  <2>6. ASSUME NEW c \in Clients, SpuriousWakeup(c) PROVE TypeOK'
    BY <2>6 DEF SpuriousWakeup
  <2>7. CASE Interrupt
    BY <2>7 DEF Interrupt, At
  <2>8. CASE Resize
    <3>1. PICK k \in 1..(Len(memory_blocks) - 1) : memory_blocks' = SubSeq(memory_blocks, 1, k)
      BY <2>8 DEF Resize
    <3>2. k \in 0..Len(memory_blocks)
      OBVIOUS
    <3>3. memory_blocks' \in Seq(Blocks)
      BY <3>1, <3>2, Truncated
    <3>4. ToSet(memory_blocks') \subseteq Blocks
      BY <3>3 DEF ToSet
    <3> QED BY <2>8, <3>3, <3>4 DEF Resize
  <2>9. CASE UNCHANGED vars
    BY <2>9 DEF vars
  <2> QED BY <2>1, <2>2, <2>3, <2>4, <2>5, <2>6, <2>7, <2>8, <2>9 DEF Next, Thread
<1> QED BY <1>1, <1>2, PTL DEF Spec

(* Every block that exists has exactly one owner, the pool or one Proxy.   *)
THEOREM BlocksOwnedOnce == Spec => []EachBlockOnce
<1>. USE PoolAssumption
<1>1. Init => EachBlockOnce
  <2> SUFFICES ASSUME Init PROVE EachBlockOnce
    OBVIOUS
  <2>1. PICK n \in Blocks : memory_blocks = [i \in 1..n |-> i]
    BY DEF Init
  <2>2. n \in Nat /\ 1..n \subseteq Blocks
    BY DEF Blocks, PoolAssumption
  <2>3. InPool = 1..n /\ IsInjective(memory_blocks)
    BY <2>1 DEF InPool, ToSet, IsInjective
  <2>4. At("using") = {} /\ \A c \in Clients : held[c] = None
    BY DEF Init, At
  <2> QED BY <2>2, <2>3, <2>4 DEF Init, EachBlockOnce, PoolAssumption
<1>2. TypeOK /\ EachBlockOnce /\ [Next]_vars => EachBlockOnce'
  <2> SUFFICES ASSUME TypeOK, EachBlockOnce, [Next]_vars PROVE EachBlockOnce'
    OBVIOUS
  <2>0. /\ memory_blocks \in Seq(Blocks) /\ InPool \subseteq Blocks /\ None \notin InPool
        /\ pc \in [Clients -> Locations]
        /\ held \in [Clients -> Blocks \cup {None}]
        /\ \A c \in Clients : held[c] # None <=> pc[c] = "using"
    BY DEF TypeOK, InPool, ToSet, PoolAssumption
  <2>1. ASSUME UNCHANGED <<memory_blocks, held, allocated>>, At("using")' = At("using")
        PROVE EachBlockOnce'
    BY <2>1 DEF EachBlockOnce, InPool
  <2>2. ASSUME NEW c \in Clients,
               CallWaitAndGet(c) \/ Sleep(c) \/ NotifyOne(c) \/ SpuriousWakeup(c)
        PROVE EachBlockOnce'
    BY <2>0, <2>1, <2>2 DEF CallWaitAndGet, Sleep, NotifyOne, SpuriousWakeup, At, Locations
  <2>3. ASSUME NEW c \in Clients, Take(c) PROVE EachBlockOnce'
    <3> DEFINE b == Last(memory_blocks)
    <3>1. /\ b \in Blocks /\ b \in InPool /\ b # None
          /\ InPool' = InPool \ {b} /\ IsInjective(memory_blocks')
      BY <2>0, <2>3, PopBack DEF Take, InPool, EachBlockOnce, PoolAssumption
    <3>2. /\ held' = [held EXCEPT ![c] = b] /\ held[c] = None
          /\ At("using")' = At("using") \cup {c} /\ c \notin At("using")
          /\ allocated' = allocated
      BY <2>0, <2>3 DEF Take, At
    <3> HIDE DEF b
    <3>3. {held'[d] : d \in At("using")'} = {held[d] : d \in At("using")} \cup {b}
      BY <2>0, <3>2 DEF At
    <3>4. allocated' = InPool' \cup {held'[d] : d \in At("using")'}
      BY <3>1, <3>2, <3>3 DEF EachBlockOnce
    <3>5. \A d, e \in Clients : held'[d] = held'[e] /\ held'[d] # None => d = e
      BY <2>0, <3>1, <3>2 DEF EachBlockOnce
    <3>6. \A d \in Clients : held'[d] \notin InPool'
      BY <2>0, <3>1, <3>2 DEF EachBlockOnce
    <3> QED BY <3>1, <3>4, <3>5, <3>6 DEF EachBlockOnce
  <2>4. ASSUME NEW c \in Clients, PushBack(c) PROVE EachBlockOnce'
    <3> DEFINE b == held[c]
    <3>1. b \in Blocks /\ b \notin InPool /\ b # None
      BY <2>0, <2>4 DEF PushBack, EachBlockOnce
    <3>2. InPool' = InPool \cup {b} /\ IsInjective(memory_blocks')
      BY <2>0, <2>4, <3>1, PushedBack DEF PushBack, InPool, EachBlockOnce
    <3>3. /\ held' = [held EXCEPT ![c] = None]
          /\ At("using")' = At("using") \ {c} /\ c \in At("using")
          /\ allocated' = allocated
      BY <2>0, <2>4 DEF PushBack, At
    <3>4. {held[d] : d \in At("using")} = {held'[d] : d \in At("using")'} \cup {b}
      BY <2>0, <3>3 DEF At
    <3>5. allocated' = InPool' \cup {held'[d] : d \in At("using")'}
      BY <3>2, <3>3, <3>4 DEF EachBlockOnce
    <3>6. \A d, e \in Clients : held'[d] = held'[e] /\ held'[d] # None => d = e
      BY <2>0, <3>3 DEF EachBlockOnce
    <3>7. \A d \in Clients : held'[d] \notin InPool'
      BY <2>0, <3>1, <3>2, <3>3 DEF EachBlockOnce
    <3> QED BY <3>2, <3>5, <3>6, <3>7 DEF EachBlockOnce
  <2>5. CASE Interrupt
    BY <2>0, <2>1, <2>5 DEF Interrupt, At
  <2>6. CASE Resize
    <3>1. PICK k \in 1..(Len(memory_blocks) - 1) : memory_blocks' = SubSeq(memory_blocks, 1, k)
      BY <2>6 DEF Resize
    <3>2. k \in 0..Len(memory_blocks)
      BY <2>0
    <3>3. InPool' \subseteq InPool /\ IsInjective(memory_blocks')
      BY <2>0, <3>1, <3>2, Truncated DEF InPool, EachBlockOnce
    <3>4. allocated' = InPool' /\ At("using")' = {} /\ held' = held
      BY <2>6 DEF Resize, At, InPool
    <3> QED BY <3>3, <3>4 DEF EachBlockOnce
  <2>7. CASE UNCHANGED vars
    BY <2>1, <2>7 DEF vars, At
  <2> QED BY <2>2, <2>3, <2>4, <2>5, <2>6, <2>7 DEF Next, Thread
<1> QED BY <1>1, <1>2, TypeCorrect, PTL DEF Spec

(* A set of clients is finite and has a natural number of elements.        *)
LEMMA AwakeFinite ==
  ASSUME PoolAssumption
  PROVE  IsFiniteSet(Awake) /\ Cardinality(Awake) \in Nat
BY FS_Subset, FS_CardinalityType DEF PoolAssumption, Awake

(* Adding a client to a finite set of clients does not make it smaller.    *)
LEMMA AddOneMore ==
  ASSUME NEW S, IsFiniteSet(S), NEW x
  PROVE  /\ Cardinality(S \cup {x}) \in Nat
         /\ Cardinality(S \cup {x}) >= Cardinality(S)
<1>1. Cardinality(S) \in Nat
  BY FS_CardinalityType
<1>2. Cardinality(S \cup {x}) = IF x \in S THEN Cardinality(S) ELSE Cardinality(S) + 1
  BY FS_AddElement
<1> QED BY <1>1, <1>2

(* While somebody sleeps, every free block has a thread that is going to   *)
(* take it or to announce it: PushBack may notify outside the lock, and    *)
(* one thread only.                                                        *)
THEOREM WakeupsNotLost == Spec => []NoLostWakeup
<1>. USE PoolAssumption
<1>1. Init => NoLostWakeup
  BY DEF Init, NoLostWakeup, At
<1>2. TypeOK /\ NoLostWakeup /\ [Next]_vars => NoLostWakeup'
  <2> SUFFICES ASSUME TypeOK, NoLostWakeup, [Next]_vars PROVE NoLostWakeup'
    OBVIOUS
  <2>0. Len(memory_blocks) \in Nat
    BY DEF TypeOK
  <2>1. IsFiniteSet(Awake) /\ Cardinality(Awake) \in Nat
    BY AwakeFinite
  <2>2. ASSUME NEW c \in Clients, CallWaitAndGet(c) PROVE NoLostWakeup'
    <3>1. Awake' = Awake \cup {c} /\ At("waiting")' = At("waiting")
      BY <2>2 DEF CallWaitAndGet, Awake, At, TypeOK
    <3>2. Cardinality(Awake') \in Nat /\ Cardinality(Awake') >= Cardinality(Awake)
      BY <2>1, <3>1, AddOneMore
    <3> QED BY <2>0, <2>1, <2>2, <3>1, <3>2 DEF CallWaitAndGet, NoLostWakeup
  <2>3. ASSUME NEW c \in Clients, Sleep(c) PROVE NoLostWakeup'
    <3>1. Awake' = Awake \ {c}
      BY <2>3 DEF Sleep, Awake, TypeOK
    <3>2. Cardinality(Awake') \in Nat
      BY <2>1, <3>1, FS_RemoveElement, FS_CardinalityType
    <3> QED BY <2>3, <3>2 DEF Sleep, NoLostWakeup
  <2>4. ASSUME NEW c \in Clients, Take(c) PROVE NoLostWakeup'
    <3>1. Awake' = Awake \ {c} /\ c \in Awake /\ At("waiting")' = At("waiting")
      BY <2>4 DEF Take, Awake, At, TypeOK
    <3>2. Len(memory_blocks') = Len(memory_blocks) - 1
      BY <2>4, PopBack DEF Take, TypeOK
    <3>3. Cardinality(Awake') = Cardinality(Awake) - 1
      BY <2>1, <3>1, FS_RemoveElement
    <3> QED BY <2>0, <2>1, <3>1, <3>2, <3>3 DEF NoLostWakeup
  <2>5. ASSUME NEW c \in Clients, PushBack(c) PROVE NoLostWakeup'
    <3>1. Awake' = Awake \cup {c} /\ c \notin Awake /\ At("waiting")' = At("waiting")
      BY <2>5 DEF PushBack, Awake, At, TypeOK
    <3>2. Len(memory_blocks') = Len(memory_blocks) + 1
      BY <2>5 DEF PushBack, TypeOK
    <3>3. Cardinality(Awake') = Cardinality(Awake) + 1
      BY <2>1, <3>1, FS_AddElement
    <3> QED BY <2>0, <2>1, <3>1, <3>2, <3>3 DEF NoLostWakeup
  <2>6. ASSUME NEW c \in Clients, NotifyOne(c) PROVE NoLostWakeup'
    <3>1. CASE At("waiting") = {}
      <4>1. At("waiting")' = {}
        BY <2>6, <3>1 DEF NotifyOne, At, TypeOK
      <4> QED BY <4>1 DEF NoLostWakeup
    <3>2. CASE At("waiting") # {}
      <4>1. PICK d \in At("waiting") : pc' = [pc EXCEPT ![c] = "idle", ![d] = "acquiring"]
        BY <2>6, <3>2 DEF NotifyOne
      <4>2. Awake' = (Awake \ {c}) \cup {d} /\ c \in Awake /\ d \notin Awake /\ c # d
        BY <2>6, <4>1 DEF NotifyOne, Awake, At, TypeOK
      <4>3. IsFiniteSet(Awake \ {c}) /\ Cardinality(Awake \ {c}) = Cardinality(Awake) - 1
        BY <2>1, <4>2, FS_RemoveElement
      <4>4. Cardinality(Awake') = Cardinality(Awake \ {c}) + 1
        BY <4>2, <4>3, FS_AddElement
      <4> QED BY <2>0, <2>1, <2>6, <3>2, <4>3, <4>4 DEF NotifyOne, NoLostWakeup
    <3> QED BY <3>1, <3>2
  <2>7. ASSUME NEW c \in Clients, SpuriousWakeup(c) PROVE NoLostWakeup'
    <3>1. Awake' = Awake \cup {c} /\ At("waiting") # {}
      BY <2>7 DEF SpuriousWakeup, Awake, At, TypeOK
    <3>2. Cardinality(Awake') \in Nat /\ Cardinality(Awake') >= Cardinality(Awake)
      BY <2>1, <3>1, AddOneMore
    <3> QED BY <2>0, <2>1, <2>7, <3>1, <3>2 DEF SpuriousWakeup, NoLostWakeup
  <2>8. CASE Interrupt
    BY <2>8 DEF Interrupt, At, NoLostWakeup, TypeOK
  <2>9. CASE Resize
    BY <2>9 DEF Resize, At, NoLostWakeup
  <2>10. CASE UNCHANGED vars
    BY <2>10 DEF vars, NoLostWakeup, At, Awake
  <2> QED BY <2>2, <2>3, <2>4, <2>5, <2>6, <2>7, <2>8, <2>9, <2>10 DEF Next, Thread
<1> QED BY <1>1, <1>2, TypeCorrect, PTL DEF Spec

-----------------------------------------------------------------------------
(* Every step of the pool is a step of BlockLending, or invisible to its   *)
(* clients: the safety part of ImplementsBlockLending, for any number of   *)
(* clients and blocks.                                                     *)
THEOREM LendsAsPromised == Spec => Lending!Init /\ [][Lending!Next]_(Lending!vars)
<1>. USE PoolAssumption
<1> DEFINE Asking == At("acquiring") \cup At("waiting")
<1>1. Init => Lending!Init
  <2> SUFFICES ASSUME Init PROVE Lending!Init
    OBVIOUS
  <2>1. PICK n \in Blocks : memory_blocks = [i \in 1..n |-> i]
    BY DEF Init
  <2>2. n \in Nat /\ 1..n \subseteq Blocks /\ 1 \in 1..n
    BY DEF Blocks, PoolAssumption
  <2>3. InPool = 1..n
    BY <2>1 DEF InPool, ToSet
  <2>4. At("acquiring") = {} /\ At("waiting") = {}
    BY DEF Init, At
  <2> QED BY <2>2, <2>3, <2>4 DEF Init, Lending!Init
<1>2. TypeOK /\ EachBlockOnce /\ [Next]_vars => [Lending!Next]_(Lending!vars)
  <2> SUFFICES ASSUME TypeOK, EachBlockOnce, [Next]_vars
               PROVE  [Lending!Next]_(Lending!vars)
    OBVIOUS
  <2>0. /\ memory_blocks \in Seq(Blocks) /\ InPool \subseteq Blocks
        /\ pc \in [Clients -> Locations]
        /\ held \in [Clients -> Blocks \cup {None}]
        /\ \A c \in Clients : held[c] # None <=> pc[c] = "using"
    BY DEF TypeOK, InPool, ToSet
  <2>1. ASSUME NEW c \in Clients, CallWaitAndGet(c) PROVE Lending!Ask(c)
    BY <2>0, <2>1 DEF CallWaitAndGet, At, InPool, Lending!Ask
  <2>2. ASSUME NEW c \in Clients, Take(c) PROVE Lending!Lend(c)
    <3>1. Last(memory_blocks) \in InPool /\ InPool' = InPool \ {Last(memory_blocks)}
      BY <2>0, <2>2, PopBack DEF Take, InPool, EachBlockOnce
    <3>2. c \in Asking /\ Asking' = Asking \ {c}
      BY <2>0, <2>2 DEF Take, At
    <3> QED BY <2>2, <3>1, <3>2 DEF Take, Lending!Lend
  <2>3. ASSUME NEW c \in Clients, PushBack(c) PROVE Lending!Return(c)
    <3>1. held[c] \in Blocks /\ held[c] # None
      BY <2>0, <2>3 DEF PushBack
    <3>2. InPool' = InPool \cup {held[c]}
      BY <2>0, <2>3, <3>1, PushedBack DEF PushBack, InPool
    <3>3. Asking' = Asking
      BY <2>0, <2>3 DEF PushBack, At
    <3> QED BY <2>3, <3>1, <3>2, <3>3 DEF PushBack, Lending!Return
  <2>4. ASSUME UNCHANGED <<memory_blocks, held>>, Asking' = Asking
        PROVE  UNCHANGED Lending!vars
    BY <2>4 DEF InPool, Lending!vars
  <2>5. ASSUME NEW c \in Clients, Sleep(c) \/ NotifyOne(c) \/ SpuriousWakeup(c)
        PROVE  UNCHANGED Lending!vars
    <3>1. Asking' = Asking
      BY <2>0, <2>5 DEF Sleep, NotifyOne, SpuriousWakeup, At
    <3> QED BY <2>4, <2>5, <3>1 DEF Sleep, NotifyOne, SpuriousWakeup
  <2>6. CASE Interrupt
    <3>1. Asking' = Asking
      BY <2>0, <2>6 DEF Interrupt, At
    <3> QED BY <2>4, <2>6, <3>1 DEF Interrupt
  <2>7. CASE Resize
    <3>1. PICK k \in 1..(Len(memory_blocks) - 1) : memory_blocks' = SubSeq(memory_blocks, 1, k)
      BY <2>7 DEF Resize
    <3>2. k \in 0..Len(memory_blocks) /\ k >= 1
      BY <2>0
    <3>3. InPool' \subseteq InPool
      BY <2>0, <3>1, <3>2, Truncated DEF InPool
    <3>4. memory_blocks'[1] \in InPool'
      <4>1. memory_blocks' \in Seq(Blocks) /\ Len(memory_blocks') = k
        BY <2>0, <3>1, <3>2, Truncated
      <4>2. 1 \in DOMAIN memory_blocks'
        BY <3>2, <4>1
      <4> QED BY <4>2 DEF InPool, ToSet
    <3>5. held' = held /\ Asking' = Asking
      BY <2>7 DEF Resize, At
    <3> QED BY <3>3, <3>4, <3>5 DEF Lending!Next, Lending!Shrink, Lending!vars
  <2>8. CASE UNCHANGED vars
    BY <2>4, <2>8 DEF vars, At
  <2> QED
    BY <2>1, <2>2, <2>3, <2>5, <2>6, <2>7, <2>8 DEF Next, Thread, Lending!Next
<1> QED BY <1>1, <1>2, TypeCorrect, BlocksOwnedOnce, PTL DEF Spec

-----------------------------------------------------------------------------
(* OpBuffersExtractor: least and greatest numbers, and recursive functions. *)

(* Every non-empty set of natural numbers has a least element.             *)
LEMMA Least ==
  ASSUME NEW T \in SUBSET Nat, T # {}
  PROVE  \E x \in T : \A y \in T : x <= y
<1>. DEFINE R == OpToRel(<, Nat)
<1>1. IsWellFoundedOn(R, Nat)
  BY NatLessThanWellFounded
<1>2. \A x, y \in Nat : <<x, y>> \in R <=> x < y
  BY DEF OpToRel
<1>. HIDE DEF R
<1>3. PICK x \in T : \A y \in T : <<y, x>> \notin R
  BY <1>1, WFMin
<1>4. ASSUME NEW y \in T PROVE x <= y
  <2>1. x \in Nat /\ y \in Nat /\ ~(y < x)
    BY <1>2, <1>3
  <2> QED BY ONLY <2>1
<1> QED BY <1>4

(* Every bounded one has a greatest: the one least far from the bound.     *)
LEMMA Greatest ==
  ASSUME NEW T \in SUBSET Nat, T # {}, NEW n \in Nat, \A x \in T : x <= n
  PROVE  \E x \in T : \A y \in T : y <= x
<1>. DEFINE U == {n - x : x \in T}
<1>1. U \in SUBSET Nat /\ U # {}
  <2>1. \A x \in T : x \in Nat /\ n - x \in Nat
    <3> SUFFICES ASSUME NEW x \in T PROVE x \in Nat /\ n - x \in Nat
      OBVIOUS
    <3>1. x \in Nat /\ x <= n
      OBVIOUS
    <3> QED BY ONLY <3>1, n \in Nat
  <2> QED BY <2>1
<1>2. PICK u \in U : \A v \in U : u <= v
  <2>. HIDE DEF U
  <2> QED BY <1>1, Least
<1>3. PICK x \in T : u = n - x
  OBVIOUS
<1>4. ASSUME NEW y \in T PROVE y <= x
  <2>1. n - x <= n - y
    BY <1>2, <1>3
  <2>2. x \in Nat /\ y \in Nat
    OBVIOUS
  <2> QED BY ONLY <2>1, <2>2, n \in Nat
<1> QED BY <1>4

(* A function whose value at i is computed from its values at elements of  *)
(* smaller rank exists.                                                    *)
Recursive(S, V, N, rank, H) ==
    /\ V # {} /\ N \in Nat /\ rank \in [S -> 0..N] /\ H \in [S -> [[S -> V] -> V]]
    /\ \A i \in S : \A g, h \in [S -> V] :
          (\A j \in S : rank[j] < rank[i] => g[j] = h[j]) => H[i][g] = H[i][h]
Solvable(S, V, N, rank, H) == \E f \in [S -> V] : \A i \in S : f[i] = H[i][f]

(* By the least rank up to which there is no such function.                *)
LEMMA Recursion ==
  ASSUME NEW S, NEW V, NEW N, NEW rank, NEW H, Recursive(S, V, N, rank, H)
  PROVE  Solvable(S, V, N, rank, H)
<1>. DEFINE Upto(n) == \E f \in [S -> V] : \A i \in S : rank[i] < n => f[i] = H[i][f]
            Bad == {n \in Nat : ~Upto(n)}
<1>1. /\ \A i \in S : rank[i] \in Nat /\ rank[i] <= N
      /\ V # {} /\ N \in Nat /\ H \in [S -> [[S -> V] -> V]]
  <2>. DEFINE Ranks == [S -> 0..N]
  <2>1. V # {} /\ N \in Nat /\ rank \in Ranks /\ H \in [S -> [[S -> V] -> V]]
    BY DEF Recursive
  <2>2. \A i \in S : rank[i] \in 0..N
    BY <2>1
  <2>. HIDE DEF Ranks
  <2>3. \A r \in 0..N : r \in Nat /\ r <= N
    BY ONLY <2>1
  <2> QED BY <2>1, <2>2, <2>3
<1>a. \A i \in S : \A g, h \in [S -> V] :
          (\A j \in S : rank[j] < rank[i] => g[j] = h[j]) => H[i][g] = H[i][h]
  BY DEF Recursive
<1>2. Bad = {}
  <2>1. SUFFICES ASSUME Bad # {} PROVE FALSE
    OBVIOUS
  <2>2. Bad \in SUBSET Nat
    OBVIOUS
  <2>3. PICK n \in Bad : \A m \in Bad : n <= m
    <3>. HIDE DEF Bad
    <3> QED BY <2>1, <2>2, Least
  <2>4. n \in Nat /\ ~Upto(n)
    OBVIOUS
  <2>5. CASE n = 0
    <3>1. PICK v \in V : TRUE
      BY <1>1
    <3>. DEFINE f == [i \in S |-> v]
    <3>2. f \in [S -> V] /\ \A i \in S : ~(rank[i] < 0)
      BY <1>1, <3>1
    <3>3. Upto(0)
      BY <3>2
    <3> QED BY <2>4, <2>5, <3>3
  <2>6. CASE n # 0
    <3>1. n - 1 \in Nat /\ ~(n <= n - 1)
      BY <2>4, <2>6
    <3>2. Upto(n - 1)
      BY <2>3, <3>1
    <3>3. PICK f \in [S -> V] : \A i \in S : rank[i] < n - 1 => f[i] = H[i][f]
      BY <3>2
    <3>. DEFINE g == [i \in S |-> IF rank[i] = n - 1 THEN H[i][f] ELSE f[i]]
    <3>4. g \in [S -> V]
      BY <1>1, <3>3
    <3>5. \A i \in S : rank[i] < n - 1 => g[i] = f[i]
      BY <1>1, <3>1
    <3>6. \A i \in S : rank[i] = n - 1 => g[i] = H[i][f]
      OBVIOUS
    <3>. HIDE DEF g
    <3>7. ASSUME NEW i \in S, rank[i] < n PROVE g[i] = H[i][g]
      <4>1. ASSUME NEW j \in S, rank[j] < rank[i] PROVE rank[j] < n - 1
        <5>1. rank[i] \in Nat /\ rank[j] \in Nat
          BY <1>1
        <5> QED BY ONLY <2>4, <3>7, <4>1, <5>1
      <4>2. H[i][g] = H[i][f]
        <5>1. \A j \in S : rank[j] < rank[i] => g[j] = f[j]
          BY <3>5, <4>1
        <5> QED BY <1>a, <3>3, <3>4, <5>1
      <4>3. rank[i] < n - 1 \/ rank[i] = n - 1
        <5>1. rank[i] \in Nat
          BY <1>1
        <5> QED BY ONLY <2>4, <3>1, <3>7, <5>1
      <4> QED BY <3>3, <3>5, <3>6, <4>2, <4>3
    <3>8. Upto(n)
      BY <3>4, <3>7
    <3> QED BY <2>4, <3>8
  <2> QED BY <2>5, <2>6
<1>3. Upto(N + 1)
  <2>1. N + 1 \in Nat
    <3>1. N \in Nat
      BY <1>1
    <3> QED BY ONLY <3>1
  <2>2. N + 1 \notin Bad
    BY <1>2
  <2> QED BY <2>1, <2>2
<1>4. PICK f \in [S -> V] : \A i \in S : rank[i] < N + 1 => f[i] = H[i][f]
  BY <1>3
<1>5. ASSUME NEW i \in S PROVE rank[i] < N + 1
  <2>1. rank[i] \in Nat /\ rank[i] <= N /\ N \in Nat
    BY <1>1
  <2> QED BY ONLY <2>1
<1> QED BY <1>4, <1>5 DEF Solvable

(* The TensorID objects.                                                   *)
TensorID == [parent : Nat \cup {Null}, offset : Nat]

(* A parent is younger than its children.                                  *)
Forest(ts) ==
    /\ ts \in Seq(TensorID)
    /\ \A t \in 1..Len(ts) : ts[t].parent # Null => ts[t].parent \in t + 1..Len(ts)

(* R and O are the roots and the offsets of the objects ts.                *)
Located(ts, R, O) ==
    /\ R \in [1..Len(ts) -> 1..Len(ts)] /\ O \in [1..Len(ts) -> Nat]
    /\ \A t \in 1..Len(ts) : ts[t].parent = Null => R[t] = t /\ O[t] = 0
    /\ \A t \in 1..Len(ts) : ts[t].parent # Null =>
          R[t] = R[ts[t].parent] /\ O[t] = ts[t].offset + O[ts[t].parent]
    /\ \A t \in 1..Len(ts) : ts[R[t]].parent = Null

(* GetBuffer and GetOffset end at a root.                                  *)
LEMMA RootsFound ==
  ASSUME ExtractorAssumption, NEW ts, Forest(ts)
  PROVE  Located(ts, RootOf(ts), OffsetOf(ts))
<1>. DEFINE T == Len(ts)
            S == 1..T
            p(t) == ts[t].parent
            R == RootOf(ts)
            O == OffsetOf(ts)
            rank == [t \in S |-> T - t]
<1>1. /\ T \in Nat /\ \A t \in S : ts[t] \in TensorID /\ t \in Nat /\ t <= T /\ 1 <= t
      /\ \A t \in S : p(t) # Null => p(t) \in S /\ p(t) > t /\ rank[p(t)] < rank[t]
      /\ rank \in [S -> 0..T]
  <2>1. T \in Nat /\ \A t \in S : ts[t] \in TensorID /\ t \in Nat /\ t <= T /\ 1 <= t
    BY DEF Forest
  <2>2. \A t \in S : p(t) # Null => p(t) \in t + 1..T
    BY DEF Forest
  <2>. HIDE DEF T, p
  <2>3. \A t \in S : p(t) # Null => p(t) \in S /\ p(t) > t
    BY <2>1, <2>2
  <2>4. rank \in [S -> 0..T]
    BY <2>1
  <2>5. \A t \in S : p(t) # Null => rank[p(t)] < rank[t]
    BY <2>1, <2>3
  <2> QED BY <2>1, <2>3, <2>4, <2>5
<1>2. \A t \in S : ts[t].offset \in Nat
  BY <1>1 DEF TensorID
<1>. HIDE DEF T, p, rank
<1>3. R = [t \in S |-> IF p(t) = Null THEN t ELSE R[p(t)]]
  <2>1. CASE S = {}
    <3>1. \E f : f = [t \in S |-> IF p(t) = Null THEN t ELSE f[p(t)]]
      <4>. DEFINE f == [t \in S |-> t]
      <4>1. f = [t \in S |-> IF p(t) = Null THEN t ELSE f[p(t)]]
        BY <2>1
      <4> QED BY <4>1
    <3> QED BY <3>1 DEF RootOf, T, p
  <2>2. CASE S # {}
    <3>. DEFINE H == [t \in S |-> [g \in [S -> S] |-> IF p(t) = Null THEN t ELSE g[p(t)]]]
    <3>1. H \in [S -> [[S -> S] -> S]]
      BY <1>1
    <3>2. \A i \in S : \A g, h \in [S -> S] :
              (\A j \in S : rank[j] < rank[i] => g[j] = h[j]) => H[i][g] = H[i][h]
      BY <1>1
    <3>3. \E f \in [S -> S] : \A i \in S : f[i] = H[i][f]
      <4>. HIDE DEF H
      <4>1. Recursive(S, S, T, rank, H)
        BY <1>1, <2>2, <3>1, <3>2 DEF Recursive
      <4>2. Solvable(S, S, T, rank, H)
        BY <4>1, Recursion
      <4> QED BY <4>2 DEF Solvable
    <3>4. PICK f \in [S -> S] : \A i \in S : f[i] = H[i][f]
      BY <3>3
    <3>5. f = [t \in S |-> IF p(t) = Null THEN t ELSE f[p(t)]]
      BY <3>4
    <3> QED BY <3>5 DEF RootOf, T, p
  <2> QED BY <2>1, <2>2
<1>4. O = [t \in S |-> IF p(t) = Null THEN 0 ELSE ts[t].offset + O[p(t)]]
  <2>. DEFINE H == [t \in S |-> [g \in [S -> Nat] |-> IF p(t) = Null THEN 0
                                                      ELSE ts[t].offset + g[p(t)]]]
  <2>1. H \in [S -> [[S -> Nat] -> Nat]]
    <3> SUFFICES ASSUME NEW t \in S, NEW g \in [S -> Nat]
                 PROVE  (IF p(t) = Null THEN 0 ELSE ts[t].offset + g[p(t)]) \in Nat
      OBVIOUS
    <3>1. p(t) # Null => g[p(t)] \in Nat
      BY <1>1
    <3> QED BY <1>2, <3>1
  <2>2. \A i \in S : \A g, h \in [S -> Nat] :
            (\A j \in S : rank[j] < rank[i] => g[j] = h[j]) => H[i][g] = H[i][h]
    BY <1>1
  <2>3. \E f \in [S -> Nat] : \A i \in S : f[i] = H[i][f]
    <3>. HIDE DEF H
    <3>1. Recursive(S, Nat, T, rank, H)
      BY <1>1, <2>1, <2>2 DEF Recursive
    <3>2. Solvable(S, Nat, T, rank, H)
      BY <3>1, Recursion
    <3> QED BY <3>2 DEF Solvable
  <2>4. PICK f \in [S -> Nat] : \A i \in S : f[i] = H[i][f]
    BY <2>3
  <2>5. f = [t \in S |-> IF p(t) = Null THEN 0 ELSE ts[t].offset + f[p(t)]]
    BY <2>4
  <2> QED BY <2>5 DEF OffsetOf, T, p
<1>. HIDE DEF R, O
<1>5. \A t \in S : R[t] \in S /\ O[t] \in Nat /\ p(R[t]) = Null
  <2>. DEFINE Bad == {t \in S : ~(R[t] \in S /\ O[t] \in Nat /\ p(R[t]) = Null)}
  <2>1. SUFFICES ASSUME Bad # {} PROVE FALSE
    OBVIOUS
  <2>2. PICK t \in Bad : \A u \in Bad : u <= t
    <3>1. Bad \in SUBSET Nat /\ T \in Nat /\ \A x \in Bad : x <= T
      BY <1>1
    <3>. HIDE DEF Bad
    <3> QED BY <2>1, <3>1, Greatest
  <2>3. t \in S /\ ~(R[t] \in S /\ O[t] \in Nat /\ p(R[t]) = Null)
    OBVIOUS
  <2>4. CASE p(t) = Null
    <3>1. R[t] = t /\ O[t] = 0
      BY <1>3, <1>4, <2>3, <2>4
    <3> QED BY <2>3, <2>4, <3>1
  <2>5. CASE p(t) # Null
    <3>1. R[t] = R[p(t)] /\ O[t] = ts[t].offset + O[p(t)]
      BY <1>3, <1>4, <2>3, <2>5
    <3>2. p(t) \in S /\ ~(p(t) <= t)
      BY <1>1, <2>3, <2>5
    <3>3. R[p(t)] \in S /\ O[p(t)] \in Nat /\ p(R[p(t)]) = Null
      BY <2>2, <3>2
    <3>4. O[t] \in Nat
      BY <1>2, <2>3, <3>1, <3>3
    <3> QED BY <2>3, <3>1, <3>3, <3>4
  <2> QED BY <2>4, <2>5
<1>6. R \in [S -> S] /\ O \in [S -> Nat]
  BY <1>3, <1>4, <1>5
<1>7. \A t \in S : p(t) = Null => R[t] = t /\ O[t] = 0
  BY <1>3, <1>4
<1>8. \A t \in S : p(t) # Null => R[t] = R[p(t)] /\ O[t] = ts[t].offset + O[p(t)]
  BY <1>3, <1>4
<1> QED BY <1>5, <1>6, <1>7, <1>8 DEF Located, R, O, T, p

-----------------------------------------------------------------------------
(* Sizes and parts of tensors, from one node to the next.                  *)

(* The nodes of a graph.                                                   *)
Kinds == {"Parameter", "Constant", "Op", "Reshape", "Concat", "Result"}
Node == [kind : Kinds, inputs : Seq(Nat), size : Nat]

(* A node reads nodes before it.                                           *)
Graph(ns) ==
    /\ ns \in Seq(Node)
    /\ \A i \in 1..Len(ns) :
          /\ \A k \in 1..Len(ns[i].inputs) : ns[i].inputs[k] \in 1..i - 1
          /\ ns[i].kind \in {"Reshape", "Result"} => Len(ns[i].inputs) = 1

Reads(ns, inputs) ==
    inputs \in Seq(Nat) /\ \A k \in 1..Len(inputs) : inputs[k] \in 1..Len(ns)

(* The sizes of the inputs of a Concat, added up.                          *)
Added(ns, inputs) ==
    /\ \A k \in 0..Len(inputs) : SizeOf(ns, inputs, k) \in Nat
    /\ SizeOf(ns, inputs, 0) = 0
    /\ \A k \in 1..Len(inputs) :
          SizeOf(ns, inputs, k) = SizeOf(ns, inputs, k - 1) + ns[inputs[k]].size
    /\ \A j, k \in 0..Len(inputs) : j <= k => SizeOf(ns, inputs, j) <= SizeOf(ns, inputs, k)

(* What SizeOf computes.                                                   *)
LEMMA SizesAdded ==
  ASSUME NEW ns \in Seq(Node), NEW inputs, Reads(ns, inputs)
  PROVE  Added(ns, inputs)
<1>. DEFINE L == Len(inputs)
            K == 0..L
            sz(k) == ns[inputs[k]].size
            S == CHOOSE sum : sum = [k \in K |-> IF k = 0 THEN 0 ELSE sum[k - 1] + sz(k)]
            rank == [k \in K |-> k]
            H == [k \in K |-> [g \in [K -> Nat] |-> IF k = 0 THEN 0 ELSE g[k - 1] + sz(k)]]
<1>1. L \in Nat /\ \A k \in K : k # 0 => k \in 1..L /\ k - 1 \in K /\ k - 1 < k
  <2>1. L \in Nat
    BY DEF Reads
  <2> QED BY ONLY <2>1
<1>2. \A k \in K : k # 0 => sz(k) \in Nat
  <2> SUFFICES ASSUME NEW k \in K, k # 0 PROVE sz(k) \in Nat
    OBVIOUS
  <2>1. k \in 1..L
    BY <1>1
  <2>2. inputs[k] \in 1..Len(ns)
    BY <2>1 DEF Reads
  <2>3. ns[inputs[k]] \in Node
    BY <2>2
  <2> QED BY <2>3 DEF Node
<1>3. Solvable(K, Nat, L, rank, H)
  <2>. HIDE DEF L, sz
  <2>1. rank \in [K -> 0..L]
    OBVIOUS
  <2>2. H \in [K -> [[K -> Nat] -> Nat]]
    <3> SUFFICES ASSUME NEW k \in K, NEW g \in [K -> Nat]
                 PROVE  (IF k = 0 THEN 0 ELSE g[k - 1] + sz(k)) \in Nat
      OBVIOUS
    <3> QED BY <1>1, <1>2
  <2>3. \A i \in K : \A g, h \in [K -> Nat] :
            (\A j \in K : rank[j] < rank[i] => g[j] = h[j]) => H[i][g] = H[i][h]
    BY <1>1
  <2>. HIDE DEF H, rank
  <2>4. Recursive(K, Nat, L, rank, H)
    <3>1. Nat # {}
      OBVIOUS
    <3> QED BY <1>1, <2>1, <2>2, <2>3, <3>1 DEF Recursive
  <2> QED BY <2>4, Recursion
<1>4. PICK f \in [K -> Nat] : \A k \in K : f[k] = H[k][f]
  BY <1>3 DEF Solvable
<1>5. S = [k \in K |-> IF k = 0 THEN 0 ELSE S[k - 1] + sz(k)]
  <2>. HIDE DEF K, sz
  <2>1. f = [k \in K |-> IF k = 0 THEN 0 ELSE f[k - 1] + sz(k)]
    BY <1>4
  <2> QED BY <2>1
<1>6. \A k : SizeOf(ns, inputs, k) = S[k]
  BY DEF SizeOf
<1>. HIDE DEF S, L, sz
<1>7. S[0] = 0 /\ \A k \in 1..L : S[k] = S[k - 1] + sz(k)
  <2>1. 0 \in K /\ \A k \in 1..L : k \in K /\ k # 0
    BY <1>1
  <2> QED BY <1>5, <2>1
<1>8. \A k \in K : S[k] \in Nat
  <2>. DEFINE Bad == {k \in K : S[k] \notin Nat}
  <2>1. SUFFICES ASSUME Bad # {} PROVE FALSE
    OBVIOUS
  <2>2. PICK k \in Bad : \A m \in Bad : k <= m
    <3>1. Bad \in SUBSET Nat
      OBVIOUS
    <3>. HIDE DEF Bad
    <3> QED BY <2>1, <3>1, Least
  <2>3. k \in K /\ S[k] \notin Nat /\ k # 0
    BY <1>7
  <2>4. k \in 1..L /\ k - 1 \in K /\ ~(k <= k - 1)
    BY <1>1, <2>3
  <2>5. S[k - 1] \in Nat
    BY <2>2, <2>4
  <2>6. S[k] = S[k - 1] + sz(k) /\ sz(k) \in Nat
    BY <1>2, <1>7, <2>3, <2>4
  <2> QED BY <2>3, <2>5, <2>6
<1>9. ASSUME NEW j \in K, NEW k \in K, j <= k
      PROVE  S[j] <= S[k]
  <2>. DEFINE Bad == {m \in K : j <= m /\ ~(S[j] <= S[m])}
  <2>1. SUFFICES ASSUME Bad # {} PROVE FALSE
    BY <1>9
  <2>2. PICK m \in Bad : \A x \in Bad : m <= x
    <3>1. Bad \in SUBSET Nat
      OBVIOUS
    <3>. HIDE DEF Bad
    <3> QED BY <2>1, <3>1, Least
  <2>3. m \in K /\ j <= m /\ ~(S[j] <= S[m])
    OBVIOUS
  <2>4. S[j] \in Nat /\ S[m] \in Nat
    BY <1>8, <2>3
  <2>5. m # j
    BY ONLY <2>3, <2>4
  <2>6. m # 0 /\ j <= m - 1
    BY <2>3, <2>5
  <2>7. m \in 1..L /\ m - 1 \in K /\ ~(m <= m - 1)
    BY <1>1, <2>3, <2>6
  <2>8. S[j] <= S[m - 1] /\ S[m - 1] \in Nat
    BY <1>8, <2>2, <2>6, <2>7
  <2>9. S[m] = S[m - 1] + sz(m) /\ sz(m) \in Nat
    BY <1>2, <1>7, <2>3, <2>6, <2>7
  <2> QED BY ONLY <2>3, <2>4, <2>8, <2>9
<1> QED BY <1>6, <1>7, <1>8, <1>9 DEF Added, L, sz

(* Nodes that come later change no sizes.                                  *)
Extends(ns2, ns) ==
    Len(ns) <= Len(ns2) /\ \A i \in 1..Len(ns) : ns2[i] = ns[i]
SameSizes(ns2, ns, inputs) ==
    \A k \in 0..Len(inputs) : SizeOf(ns2, inputs, k) = SizeOf(ns, inputs, k)

(* The sizes of nodes that were there are the same ones.                   *)
LEMMA SizesKept ==
  ASSUME NEW ns \in Seq(Node), NEW ns2 \in Seq(Node), Extends(ns2, ns),
         NEW inputs, Reads(ns, inputs)
  PROVE  SameSizes(ns2, ns, inputs)
<1>. DEFINE L == Len(inputs)
            S(k) == SizeOf(ns, inputs, k)
            S2(k) == SizeOf(ns2, inputs, k)
            Bad == {k \in 0..L : S2(k) # S(k)}
<1>1. Added(ns, inputs)
  BY SizesAdded
<1>2. Reads(ns2, inputs)
  <2>1. Len(ns) \in Nat /\ Len(ns2) \in Nat /\ Len(ns) <= Len(ns2)
    BY DEF Extends
  <2>2. 1..Len(ns) \subseteq 1..Len(ns2)
    BY ONLY <2>1
  <2> QED BY <2>2 DEF Reads
<1>3. Added(ns2, inputs)
  BY <1>2, SizesAdded
<1>4. L \in Nat
  BY DEF Reads
<1>5. SUFFICES ASSUME Bad # {} PROVE FALSE
  BY DEF SameSizes
<1>6. PICK k \in Bad : \A m \in Bad : k <= m
  <2>1. Bad \in SUBSET Nat
    OBVIOUS
  <2>. HIDE DEF Bad
  <2> QED BY <1>5, <2>1, Least
<1>7. k \in 0..L /\ S2(k) # S(k)
  OBVIOUS
<1>8. k # 0
  BY <1>1, <1>3, <1>7 DEF Added
<1>9. k \in 1..L /\ k - 1 \in 0..L /\ ~(k <= k - 1)
  BY <1>4, <1>7, <1>8
<1>10. S2(k - 1) = S(k - 1)
  BY <1>6, <1>9
<1>11. ns2[inputs[k]] = ns[inputs[k]]
  BY <1>9 DEF Reads, Extends
<1>12. S2(k) = S2(k - 1) + ns2[inputs[k]].size
  BY <1>3, <1>9 DEF Added
<1>13. S(k) = S(k - 1) + ns[inputs[k]].size
  BY <1>1, <1>9 DEF Added
<1> QED BY <1>7, <1>10, <1>11, <1>12, <1>13

(* The nodes that make each tensor.                                        *)
Made(ns, P) ==
    /\ P \in [1..Len(ns) -> SUBSET (Nat \X Nat)]
    /\ \A i \in 1..Len(ns) :
          /\ ns[i].kind \in {"Reshape", "Result"} => P[i] = P[ns[i].inputs[1]]
          /\ ns[i].kind = "Concat" =>
                P[i] = UNION {{<<w[1], w[2] + SizeOf(ns, ns[i].inputs, k - 1)>> :
                                 w \in P[ns[i].inputs[k]]} : k \in 1..Len(ns[i].inputs)}
          /\ ns[i].kind \notin {"Reshape", "Result", "Concat"} => P[i] = {<<i, 0>>}

(* A node of a graph reads nodes of the graph.                             *)
LEMMA InputsRead ==
  ASSUME NEW ns, Graph(ns), NEW i \in 1..Len(ns)
  PROVE  Reads(ns, ns[i].inputs)
<1>1. Len(ns) \in Nat /\ ns[i] \in Node
  BY DEF Graph
<1>2. ns[i].inputs \in Seq(Nat)
  BY <1>1 DEF Node
<1>3. \A k \in 1..Len(ns[i].inputs) : ns[i].inputs[k] \in 1..i - 1
  BY DEF Graph
<1>4. 1..i - 1 \subseteq 1..Len(ns)
  BY ONLY <1>1, i \in 1..Len(ns)
<1> QED BY <1>2, <1>3, <1>4 DEF Reads

(* What PartsOf computes.                                                  *)
LEMMA PartsFound ==
  ASSUME NEW ns, Graph(ns)
  PROVE  Made(ns, PartsOf(ns))
<1>. DEFINE N == Len(ns)
            I == 1..N
            W == SUBSET (Nat \X Nat)
            in(i, k) == ns[i].inputs[k]
            K(i) == DOMAIN ns[i].inputs
            sz(i, k) == SizeOf(ns, ns[i].inputs, k)
            P == PartsOf(ns)
            Alias(i) == ns[i].kind \in {"Reshape", "Result"}
            Cat(i) == ns[i].kind = "Concat"
            Val(i, g) == IF Alias(i) THEN g[in(i, 1)]
                         ELSE IF Cat(i)
                         THEN UNION {{<<w[1], w[2] + sz(i, k - 1)>> : w \in g[in(i, k)]}
                                        : k \in K(i)}
                         ELSE {<<i, 0>>}
            rank == [i \in I |-> i]
            H == [i \in I |-> [g \in [I -> W] |-> Val(i, g)]]
<1>1. N \in Nat
  BY DEF Graph
<1>2. \A i \in I : K(i) = 1..Len(ns[i].inputs) /\ Len(ns[i].inputs) \in Nat
  <2> SUFFICES ASSUME NEW i \in I
               PROVE  K(i) = 1..Len(ns[i].inputs) /\ Len(ns[i].inputs) \in Nat
    OBVIOUS
  <2>1. ns[i].inputs \in Seq(Nat)
    BY InputsRead DEF Reads
  <2> QED BY <2>1
<1>3. \A i \in I : \A k \in K(i) : in(i, k) \in I /\ in(i, k) < i
  <2> SUFFICES ASSUME NEW i \in I, NEW k \in K(i) PROVE in(i, k) \in I /\ in(i, k) < i
    OBVIOUS
  <2>1. in(i, k) \in 1..i - 1
    BY <1>2 DEF Graph
  <2> QED BY ONLY <1>1, <2>1, i \in I
<1>4. \A i \in I : Alias(i) => 1 \in K(i)
  <2> SUFFICES ASSUME NEW i \in I, Alias(i) PROVE 1 \in K(i)
    OBVIOUS
  <2>1. Len(ns[i].inputs) = 1
    BY DEF Graph
  <2>2. 1 \in 1..1
    OBVIOUS
  <2> QED BY <1>2, <2>1, <2>2
<1>5. \A i \in I : \A k \in K(i) : sz(i, k - 1) \in Nat
  <2> SUFFICES ASSUME NEW i \in I, NEW k \in K(i) PROVE sz(i, k - 1) \in Nat
    OBVIOUS
  <2>1. ns \in Seq(Node) /\ Reads(ns, ns[i].inputs)
    BY InputsRead DEF Graph
  <2>2. Added(ns, ns[i].inputs)
    BY <2>1, SizesAdded
  <2>3. k - 1 \in 0..Len(ns[i].inputs)
    <3>1. k \in 1..Len(ns[i].inputs) /\ Len(ns[i].inputs) \in Nat
      BY <1>2
    <3> QED BY ONLY <3>1
  <2> QED BY <2>2, <2>3 DEF Added
<1>. HIDE DEF N, K, in, sz, Alias, Cat
<1>6. \A i \in I : \A g \in [I -> W] : Val(i, g) \in W
  <2> SUFFICES ASSUME NEW i \in I, NEW g \in [I -> W] PROVE Val(i, g) \in W
    OBVIOUS
  <2>1. \A k \in K(i) : g[in(i, k)] \in W
    BY <1>3
  <2>2. ASSUME Alias(i) PROVE Val(i, g) \in W
    BY <1>4, <2>1, <2>2
  <2>3. ASSUME NEW k \in K(i), NEW w \in g[in(i, k)]
        PROVE  <<w[1], w[2] + sz(i, k - 1)>> \in Nat \X Nat
    <3>1. w \in Nat \X Nat
      BY <2>1
    <3>2. w[1] \in Nat /\ w[2] \in Nat /\ sz(i, k - 1) \in Nat
      BY <1>5, <3>1
    <3> QED BY <3>2
  <2>4. UNION {{<<w[1], w[2] + sz(i, k - 1)>> : w \in g[in(i, k)]} : k \in K(i)} \in W
    BY <2>3
  <2>5. <<i, 0>> \in Nat \X Nat
    BY <1>1
  <2>6. {<<i, 0>>} \in W
    BY <2>5
  <2> QED BY <2>2, <2>4, <2>6
<1>7. ASSUME NEW i \in I, NEW g \in [I -> W], NEW h \in [I -> W],
             \A j \in I : j < i => g[j] = h[j]
      PROVE  Val(i, g) = Val(i, h)
  <2>1. \A k \in K(i) : g[in(i, k)] = h[in(i, k)]
    BY <1>3, <1>7
  <2>2. Alias(i) => g[in(i, 1)] = h[in(i, 1)]
    BY <1>4, <2>1
  <2>3. UNION {{<<w[1], w[2] + sz(i, k - 1)>> : w \in g[in(i, k)]} : k \in K(i)}
        = UNION {{<<w[1], w[2] + sz(i, k - 1)>> : w \in h[in(i, k)]} : k \in K(i)}
    BY <2>1
  <2> QED BY <2>2, <2>3
<1>8. \E f \in [I -> W] : \A i \in I : f[i] = Val(i, f)
  <2>. HIDE DEF Val
  <2>1. H \in [I -> [[I -> W] -> W]]
    BY <1>6
  <2>2. rank \in [I -> 0..N]
    BY <1>1
  <2>3. \A i \in I : \A g, h \in [I -> W] :
            (\A j \in I : rank[j] < rank[i] => g[j] = h[j]) => H[i][g] = H[i][h]
    <3> SUFFICES ASSUME NEW i \in I, NEW g \in [I -> W], NEW h \in [I -> W],
                        \A j \in I : rank[j] < rank[i] => g[j] = h[j]
                 PROVE  H[i][g] = H[i][h]
      OBVIOUS
    <3>1. Val(i, g) = Val(i, h)
      BY <1>7
    <3> QED BY <3>1
  <2>4. \A i \in I : \A g \in [I -> W] : H[i][g] = Val(i, g)
    OBVIOUS
  <2>5. W # {}
    OBVIOUS
  <2>. HIDE DEF H, rank, W
  <2>6. Recursive(I, W, N, rank, H)
    BY <1>1, <2>1, <2>2, <2>3, <2>5 DEF Recursive
  <2>7. Solvable(I, W, N, rank, H)
    BY <2>6, Recursion
  <2> QED BY <2>4, <2>7 DEF Solvable
<1>9. PICK f \in [I -> W] : \A i \in I : f[i] = Val(i, f)
  BY <1>8
<1>10. P = [i \in I |-> Val(i, P)]
  <2>1. f = [i \in I |-> Val(i, f)]
    <3>. HIDE DEF Val
    <3> QED BY <1>9
  <2> QED BY <2>1 DEF PartsOf, N, K, in, sz, Alias, Cat
<1>. HIDE DEF P
<1>11. P \in [I -> W]
  <2>. DEFINE Bad == {i \in I : P[i] \notin W}
  <2>1. \A i \in I : P[i] = Val(i, P)
    <3>. HIDE DEF Val
    <3> QED BY <1>10
  <2>2. Bad = {}
    <3>1. SUFFICES ASSUME Bad # {} PROVE FALSE
      OBVIOUS
    <3>2. PICK i \in Bad : \A m \in Bad : i <= m
      <4>1. Bad \in SUBSET Nat
        BY <1>1
      <4>. HIDE DEF Bad
      <4> QED BY <3>1, <4>1, Least
    <3>3. i \in I /\ P[i] \notin W
      OBVIOUS
    <3>4. \A j \in I : j < i => P[j] \in W
      <4> SUFFICES ASSUME NEW j \in I, j < i, P[j] \notin W PROVE FALSE
        OBVIOUS
      <4>1. i <= j
        BY <3>2
      <4> QED BY ONLY <1>1, <4>1, <3>3, j \in I, j < i
    <3>. DEFINE g == [j \in I |-> IF j < i THEN P[j] ELSE {}]
    <3>5. g \in [I -> W]
      BY <3>4
    <3>6. Val(i, g) = Val(i, P)
      <4>1. \A k \in K(i) : g[in(i, k)] = P[in(i, k)]
        BY <1>3, <3>3
      <4>2. Alias(i) => g[in(i, 1)] = P[in(i, 1)]
        BY <1>4, <3>3, <4>1
      <4>. HIDE DEF g
      <4>3. UNION {{<<w[1], w[2] + sz(i, k - 1)>> : w \in g[in(i, k)]} : k \in K(i)}
            = UNION {{<<w[1], w[2] + sz(i, k - 1)>> : w \in P[in(i, k)]} : k \in K(i)}
        BY <4>1
      <4> QED BY <4>2, <4>3
    <3>7. Val(i, g) \in W
      <4>. HIDE DEF Val, g, W
      <4> QED BY <1>6, <3>3, <3>5
    <3> QED
      <4>. HIDE DEF Val, g, W
      <4> QED BY <2>1, <3>3, <3>6, <3>7
  <2>3. \A i \in I : P[i] \in W
    BY <2>2
  <2>. HIDE DEF Val, W
  <2> QED BY <1>10, <2>3
<1>12. ASSUME NEW i \in I
       PROVE  /\ Alias(i) => P[i] = P[in(i, 1)]
              /\ Cat(i) => P[i] = UNION {{<<w[1], w[2] + sz(i, k - 1)>> : w \in P[in(i, k)]}
                                            : k \in K(i)}
              /\ ~Alias(i) /\ ~Cat(i) => P[i] = {<<i, 0>>}
  <2>1. P[i] = Val(i, P)
    <3>. HIDE DEF Val
    <3> QED BY <1>10
  <2>2. Cat(i) => ~Alias(i)
    BY DEF Alias, Cat
  <2> QED BY <2>1, <2>2
<1> QED BY <1>2, <1>11, <1>12 DEF Made, P, N, K, in, sz, Alias, Cat

(* A node that comes later makes no difference to the tensors before it.   *)
SameParts(ns2, ns) == \A i \in 1..Len(ns) : PartsOf(ns2)[i] = PartsOf(ns)[i]

(* By the first node whose parts would differ.                             *)
LEMMA PartsKept ==
  ASSUME NEW ns, NEW ns2, Graph(ns), Graph(ns2), Extends(ns2, ns)
  PROVE  SameParts(ns2, ns)
<1>. DEFINE P == PartsOf(ns)
            P2 == PartsOf(ns2)
            Bad == {i \in 1..Len(ns) : P2[i] # P[i]}
<1>1. Made(ns, P) /\ Made(ns2, P2)
  BY PartsFound
<1>2. /\ ns \in Seq(Node) /\ ns2 \in Seq(Node)
      /\ Len(ns) \in Nat /\ Len(ns2) \in Nat /\ Len(ns) <= Len(ns2)
      /\ \A i \in 1..Len(ns) : ns2[i] = ns[i]
  BY DEF Graph, Extends
<1>. HIDE DEF P, P2
<1>3. SUFFICES ASSUME Bad # {} PROVE FALSE
  BY DEF SameParts, P, P2
<1>4. PICK i \in Bad : \A m \in Bad : i <= m
  <2>1. Bad \in SUBSET Nat
    OBVIOUS
  <2>. HIDE DEF Bad
  <2> QED BY <1>3, <2>1, Least
<1>5. i \in 1..Len(ns) /\ P2[i] # P[i]
  OBVIOUS
<1>6. ns2[i] = ns[i] /\ i \in 1..Len(ns2)
  <2>1. 1..Len(ns) \subseteq 1..Len(ns2)
    BY ONLY <1>2
  <2> QED BY <1>2, <1>5, <2>1
<1>. DEFINE inputs == ns[i].inputs
            L == Len(inputs)
<1>7. Reads(ns, inputs) /\ L \in Nat
  <2>1. Reads(ns, inputs)
    BY <1>5, InputsRead
  <2> QED BY <2>1 DEF Reads
<1>8. \A k \in 1..L : P2[inputs[k]] = P[inputs[k]]
  <2> SUFFICES ASSUME NEW k \in 1..L, P2[inputs[k]] # P[inputs[k]] PROVE FALSE
    OBVIOUS
  <2>1. inputs[k] \in 1..i - 1
    BY <1>5 DEF Graph
  <2>2. inputs[k] \in 1..Len(ns) /\ ~(i <= inputs[k])
    <3>. HIDE DEF inputs
    <3> QED BY ONLY <1>2, <1>5, <2>1
  <2> QED BY <1>4, <2>2
<1>9. \A k \in 1..L : SizeOf(ns2, inputs, k - 1) = SizeOf(ns, inputs, k - 1)
  <2>1. SameSizes(ns2, ns, inputs)
    BY <1>2, <1>7, SizesKept
  <2>2. \A k \in 1..L : k - 1 \in 0..L
    BY ONLY <1>7
  <2> QED BY <2>1, <2>2 DEF SameSizes
<1>10. CASE ns[i].kind \in {"Reshape", "Result"}
  <2>1. L = 1
    BY <1>5, <1>10 DEF Graph
  <2>2. P2[inputs[1]] = P[inputs[1]]
    BY <1>8, <2>1
  <2>3. P2[i] = P2[inputs[1]] /\ P[i] = P[inputs[1]]
    BY <1>1, <1>5, <1>6, <1>10 DEF Made
  <2> QED BY <1>5, <2>2, <2>3
<1>11. CASE ns[i].kind = "Concat"
  <2>. DEFINE F(n, Q, k) == {<<w[1], w[2] + SizeOf(n, inputs, k - 1)>> : w \in Q[inputs[k]]}
              U(n, Q) == UNION {F(n, Q, k) : k \in 1..L}
  <2>1. P[i] = U(ns, P)
    BY <1>1, <1>5, <1>11 DEF Made
  <2>2. P2[i] = U(ns2, P2)
    <3>. DEFINE G(in) == UNION {{<<w[1], w[2] + SizeOf(ns2, in, k - 1)>> : w \in P2[in[k]]}
                                  : k \in 1..Len(in)}
    <3>1. ns2[i].kind = "Concat" /\ ns2[i].inputs = inputs
      BY <1>6, <1>11
    <3>2. P2[i] = G(ns2[i].inputs)
      BY <1>1, <1>6, <3>1 DEF Made
    <3>3. G(ns2[i].inputs) = G(inputs)
      <4>. HIDE DEF G, inputs
      <4> QED BY ONLY <3>1
    <3> QED BY <3>2, <3>3
  <2>3. \A k \in 1..L : F(ns, P, k) = F(ns2, P2, k)
    <3> SUFFICES ASSUME NEW k \in 1..L PROVE F(ns, P, k) = F(ns2, P2, k)
      OBVIOUS
    <3>1. P2[inputs[k]] = P[inputs[k]]
      BY <1>8
    <3>2. SizeOf(ns2, inputs, k - 1) = SizeOf(ns, inputs, k - 1)
      BY <1>9
    <3> QED BY ONLY <3>1, <3>2
  <2>4. U(ns, P) = U(ns2, P2)
    <3>. HIDE DEF L, F
    <3> QED BY <2>3
  <2> QED BY <1>5, <2>1, <2>2, <2>4
<1>12. CASE ns[i].kind \notin {"Reshape", "Result", "Concat"}
  <2>1. P2[i] = {<<i, 0>>}
    BY <1>1, <1>6, <1>12 DEF Made
  <2>2. P[i] = {<<i, 0>>}
    BY <1>1, <1>5, <1>12 DEF Made
  <2> QED BY <1>5, <2>1, <2>2
<1> QED BY <1>10, <1>11, <1>12

-----------------------------------------------------------------------------
(* Roots and offsets, when a tensor is added or takes others as its parts. *)

(* A new root that takes some of the roots as its children: what they held *)
(* is now in the new one, at their place in it.                            *)
NewRoot(ts2, ts, C, at) ==
    /\ ts2 \in Seq(TensorID) /\ Len(ts2) = Len(ts) + 1
    /\ C \subseteq {t \in 1..Len(ts) : ts[t].parent = Null} /\ at \in [C -> Nat]
    /\ \A t \in 1..Len(ts) :
          ts2[t] = IF t \in C THEN [parent |-> Len(ts) + 1, offset |-> at[t]] ELSE ts[t]
    /\ ts2[Len(ts) + 1] = [parent |-> Null, offset |-> 0]
Moved(ts2, ts, C, at) ==
    /\ Forest(ts2)
    /\ \A t \in 1..Len(ts) :
          LET r == RootOf(ts)[t] IN
          /\ RootOf(ts2)[t] = IF r \in C THEN Len(ts) + 1 ELSE r
          /\ OffsetOf(ts2)[t] = OffsetOf(ts)[t] + (IF r \in C THEN at[r] ELSE 0)
    /\ RootOf(ts2)[Len(ts) + 1] = Len(ts) + 1 /\ OffsetOf(ts2)[Len(ts) + 1] = 0

(* By the youngest object that would be somewhere else.                    *)
LEMMA RootsMoved ==
  ASSUME ExtractorAssumption, NEW ts, Forest(ts), NEW ts2, NEW C, NEW at, NewRoot(ts2, ts, C, at)
  PROVE  Moved(ts2, ts, C, at)
<1>. DEFINE T == Len(ts)
            R == RootOf(ts)
            O == OffsetOf(ts)
            R2 == RootOf(ts2)
            O2 == OffsetOf(ts2)
            new == T + 1
<1>1. T \in Nat /\ Len(ts2) = new /\ new \in Nat /\ new # Null
      /\ \A t \in 1..T : ts[t] \in TensorID
  <2>1. T \in Nat /\ \A t \in 1..T : ts[t] \in TensorID
    BY DEF Forest
  <2>2. new \in Nat
    BY ONLY <2>1
  <2> QED BY <2>1, <2>2 DEF NewRoot, ExtractorAssumption
<1>2. /\ C \subseteq 1..T /\ \A t \in C : ts[t].parent = Null /\ at[t] \in Nat
      /\ \A t \in C : ts2[t].parent = new /\ ts2[t].offset = at[t]
      /\ \A t \in 1..T : t \notin C => ts2[t] = ts[t]
      /\ ts2[new].parent = Null /\ ts2[new].offset = 0
  <2>1. \A t \in 1..T :
           ts2[t] = IF t \in C THEN [parent |-> new, offset |-> at[t]] ELSE ts[t]
    BY DEF NewRoot
  <2>2. C \subseteq 1..T /\ \A t \in C : ts[t].parent = Null /\ at[t] \in Nat
    BY DEF NewRoot
  <2>3. ts2[new].parent = Null /\ ts2[new].offset = 0
    BY DEF NewRoot
  <2>. HIDE DEF T, new
  <2>4. ASSUME NEW t \in C PROVE ts2[t].parent = new /\ ts2[t].offset = at[t]
    <3>1. ts2[t] = [parent |-> new, offset |-> at[t]]
      BY <2>1, <2>2
    <3> QED BY ONLY <3>1
  <2> QED BY <2>1, <2>2, <2>3, <2>4
<1>3. 1..new = (1..T) \cup {new} /\ new \notin 1..T
  BY ONLY <1>1
<1>4. Forest(ts2)
  <2>1. ASSUME NEW t \in 1..new, ts2[t].parent # Null
        PROVE  ts2[t].parent \in t + 1..new
    <3>1. CASE t \in C
      <4>1. ts2[t].parent = new /\ t \in 1..T
        BY <1>2, <3>1
      <4> QED BY ONLY <1>1, <4>1
    <3>2. CASE t \notin C
      <4>1. t \in 1..T /\ ts2[t] = ts[t]
        BY <1>2, <1>3, <2>1, <3>2
      <4>2. ts2[t].parent \in t + 1..T
        BY <2>1, <4>1 DEF Forest
      <4> QED BY ONLY <1>1, <4>1, <4>2
    <3> QED BY <3>1, <3>2
  <2> QED BY <1>1, <2>1 DEF Forest, NewRoot
<1>5. Located(ts, R, O) /\ Located(ts2, R2, O2)
  BY <1>4, RootsFound
<1>. HIDE DEF R, O, R2, O2, T, new
<1>6. \A t \in 1..T : R[t] \in 1..T /\ O[t] \in Nat
  BY <1>5 DEF Located, T
<1>7. /\ \A t \in 1..T : ts[t].parent = Null => R[t] = t /\ O[t] = 0
      /\ \A t \in 1..T : ts[t].parent # Null =>
            R[t] = R[ts[t].parent] /\ O[t] = ts[t].offset + O[ts[t].parent]
  BY <1>5 DEF Located, T
<1>8. /\ \A t \in 1..new : O2[t] \in Nat
      /\ \A t \in 1..new : ts2[t].parent = Null => R2[t] = t /\ O2[t] = 0
      /\ \A t \in 1..new : ts2[t].parent # Null =>
            R2[t] = R2[ts2[t].parent] /\ O2[t] = ts2[t].offset + O2[ts2[t].parent]
  BY <1>1, <1>5 DEF Located
<1>9. R2[new] = new /\ O2[new] = 0
  BY <1>2, <1>3, <1>8
<1>. DEFINE Good(t) == /\ R2[t] = IF R[t] \in C THEN new ELSE R[t]
                       /\ O2[t] = O[t] + (IF R[t] \in C THEN at[R[t]] ELSE 0)
            Bad == {t \in 1..T : ~Good(t)}
<1>10. Bad = {}
  <2>1. SUFFICES ASSUME Bad # {} PROVE FALSE
    OBVIOUS
  <2>2. PICK t \in Bad : \A u \in Bad : u <= t
    <3>1. Bad \in SUBSET Nat /\ \A u \in Bad : u <= T
      BY <1>1
    <3>. HIDE DEF Bad
    <3> QED BY <1>1, <2>1, <3>1, Greatest
  <2>3. t \in 1..T /\ ~Good(t) /\ t \in 1..new
    BY <1>3
  <2>4. CASE t \in C
    <3>1. ts[t].parent = Null /\ ts2[t].parent = new /\ ts2[t].offset = at[t]
      BY <1>2, <2>4
    <3>2. R[t] = t /\ O[t] = 0
      BY <1>7, <2>3, <3>1
    <3>3. R2[t] = new /\ O2[t] = at[t] + 0
      BY <1>1, <1>8, <1>9, <2>3, <3>1
    <3>4. at[t] + 0 = 0 + at[t]
      <4>1. at[t] \in Nat
        BY <1>2, <2>4
      <4> QED BY ONLY <4>1
    <3> QED BY <2>3, <2>4, <3>2, <3>3, <3>4
  <2>5. CASE t \notin C /\ ts[t].parent = Null
    <3>1. R[t] = t /\ O[t] = 0
      BY <1>7, <2>3, <2>5
    <3>2. R2[t] = t /\ O2[t] = 0
      BY <1>2, <1>8, <2>3, <2>5
    <3> QED BY <2>3, <2>5, <3>1, <3>2
  <2>6. CASE t \notin C /\ ts[t].parent # Null
    <3>. DEFINE p == ts[t].parent
    <3>1. ts2[t] = ts[t]
      BY <1>2, <2>3, <2>6
    <3>2. R[t] = R[p] /\ O[t] = ts[t].offset + O[p]
      BY <1>7, <2>3, <2>6
    <3>3. R2[t] = R2[p] /\ O2[t] = ts[t].offset + O2[p]
      BY <1>8, <2>3, <2>6, <3>1
    <3>4. p \in t + 1..T
      BY <2>3, <2>6 DEF Forest, T
    <3>. HIDE DEF p
    <3>5. p \in 1..T /\ ~(p <= t)
      BY ONLY <1>1, <2>3, <3>4
    <3>6. Good(p)
      BY <2>2, <3>5
    <3>7. ts[t].offset \in Nat
      BY <1>1, <2>3 DEF TensorID
    <3>8. O[p] \in Nat /\ O2[p] \in Nat
      <4>1. p \in 1..new
        BY <1>3, <3>5
      <4> QED BY <1>6, <1>8, <3>5, <4>1
    <3>9. CASE R[p] \in C
      <4>1. at[R[p]] \in Nat
        BY <1>2, <3>9
      <4>2. O2[p] = O[p] + at[R[p]]
        BY <3>6, <3>9
      <4>3. O2[t] = O[t] + at[R[p]]
        BY ONLY <3>2, <3>3, <3>7, <3>8, <4>1, <4>2
      <4> QED BY <2>3, <3>2, <3>3, <3>6, <3>9, <4>3
    <3>10. CASE R[p] \notin C
      <4>1. O2[p] = O[p] + 0
        BY <3>6, <3>10
      <4>2. O2[t] = O[t] + 0
        BY ONLY <3>2, <3>3, <3>7, <3>8, <4>1
      <4> QED BY <2>3, <3>2, <3>3, <3>6, <3>10, <4>2
    <3> QED BY <3>9, <3>10
  <2> QED BY <2>4, <2>5, <2>6
<1>11. \A t \in 1..T : Good(t)
  BY <1>10
<1> QED BY <1>4, <1>9, <1>11 DEF Moved, R, O, R2, O2, T, new

-----------------------------------------------------------------------------
(* The inductive invariant.  That tensors in one buffer stay apart needs   *)
(* where they are in it; that nobody writes over a tensor that is read needs *)
(* that the lifespan of its buffer covers its writers and its readers.     *)

Phases == {"extract", "extend", "schedule", "done", "refused"}
Chunk == [start : Nat, end : Nat, size : Nat]
Here == 1..Len(nodes)
Ids == 1..Len(tensors)
Roots == {t \in Ids : tensors[t].parent = Null}

(* The graph as far as it was read.                                        *)
GraphInv ==
    /\ phase \in Phases /\ stable \in BOOLEAN
    /\ Graph(nodes)
    /\ Len(nodes) <= NumNodes /\ (phase = "extract" => Len(nodes) < NumNodes)
    /\ \A p, q \in Here : q < p /\ IsKind(p, {"Parameter"}) => IsKind(q, {"Parameter"})

(* The buffers are the roots of the tensors.                               *)
TensorInv ==
    /\ Forest(tensors)
    /\ tensor_names \in Seq(Nat) /\ Len(tensor_names) = Len(nodes)
    /\ \A i \in Here : tensor_names[i] \in Ids
    /\ Roots = (DOMAIN mutable_buffers) \cup immutable_buffers
    /\ (DOMAIN mutable_buffers) \cap immutable_buffers = {}
    /\ \A b \in DOMAIN mutable_buffers :
          /\ mutable_buffers[b] \in Chunk
          /\ 1 <= mutable_buffers[b].start
          /\ mutable_buffers[b].start <= mutable_buffers[b].end
          /\ mutable_buffers[b].end <= TheEnd

(* A tensor is inside its buffer, which is there when the tensor is made.  *)
Placed(i) ==
    /\ tensor_names[i] \in DOMAIN mutable_buffers =>
          nodes[i].size = mutable_buffers[tensor_names[i]].size
    /\ IsKind(i, {"Constant"}) => tensor_names[i] \in immutable_buffers
    /\ Buffer(i) \in DOMAIN mutable_buffers =>
          /\ mutable_buffers[Buffer(i)].start <= i
          /\ Offset(i) + nodes[i].size <= mutable_buffers[Buffer(i)].size
          /\ IsKind(i, {"Op", "Parameter"}) => i <= mutable_buffers[Buffer(i)].end
PlaceInv == \A i \in Here : Placed(i)

(* Two nodes that write have places of their own.                          *)
Apart(i, j) ==
    i # j /\ IsKind(i, {"Op", "Parameter"}) /\ IsKind(j, {"Op", "Parameter"})
          /\ Buffer(i) = Buffer(j)
    => \/ Offset(i) + nodes[i].size <= Offset(j)
       \/ Offset(j) + nodes[j].size <= Offset(i)
ApartInv == \A i, j \in Here : Apart(i, j)

(* The parts of a tensor are in its buffer, at their places in it.         *)
Whole(j) ==
    \A w \in Parts[j] :
       /\ w[1] \in 1..j /\ w[2] \in Nat
       /\ IsKind(w[1], {"Parameter", "Constant", "Op"})
       /\ ~AliasesMerged => Buffer(w[1]) = Buffer(j) /\ Offset(w[1]) = Offset(j) + w[2]
PartsInv == \A j \in Here : Whole(j)

(* What a loop body keeps until its end.                                   *)
Kept(i) ==
    IsKind(i, {"Parameter", "Result"}) /\ tensor_names[i] \in DOMAIN mutable_buffers
    => mutable_buffers[tensor_names[i]].end = TheEnd
StableInv == stable => \A i \in Here : Kept(i)

UseInv ==
    phase \in {"schedule", "done"} =>
        \A b \in DOMAIN mutable_buffers : \A k \in UsersOf(b) : k <= mutable_buffers[b].end

ReleaseInv ==
    /\ phase # "done" => release = {}
    /\ \A r \in release : r[1] \in DOMAIN mutable_buffers /\ r[2] = mutable_buffers[r[1]].end

PlanInv ==
    GraphInv /\ TensorInv /\ PlaceInv /\ ApartInv /\ PartsInv /\ StableInv /\ UseInv /\ ReleaseInv

(* Where the tensors are.                                                  *)
Homes ==
    \A i \in Here :
        /\ tensor_names[i] \in Ids /\ Buffer(i) \in Roots /\ Buffer(i) \in Ids
        /\ Offset(i) \in Nat /\ nodes[i] \in Node /\ nodes[i].size \in Nat
        /\ tensor_names[i] \in Roots => Buffer(i) = tensor_names[i] /\ Offset(i) = 0

(* Every tensor has a root, and a root is its own.                         *)
LEMMA HomesFound ==
  ASSUME ExtractorAssumption, GraphInv, TensorInv
  PROVE  Homes
<1>1. Located(tensors, RootOf(tensors), OffsetOf(tensors))
  BY RootsFound DEF TensorInv
<1>2. ASSUME NEW i \in Here
      PROVE  /\ tensor_names[i] \in Ids /\ Buffer(i) \in Roots /\ Buffer(i) \in Ids
             /\ Offset(i) \in Nat /\ nodes[i] \in Node /\ nodes[i].size \in Nat
             /\ tensor_names[i] \in Roots => Buffer(i) = tensor_names[i] /\ Offset(i) = 0
  <2>1. tensor_names[i] \in 1..Len(tensors)
    BY DEF TensorInv, Ids
  <2>2. /\ Buffer(i) = RootOf(tensors)[tensor_names[i]]
        /\ Offset(i) = OffsetOf(tensors)[tensor_names[i]]
    BY DEF Buffer, Offset, GetBuffer, GetOffset
  <2>3. Buffer(i) \in 1..Len(tensors) /\ Offset(i) \in Nat
    BY <1>1, <2>1, <2>2 DEF Located
  <2>4. tensors[Buffer(i)].parent = Null
    BY <1>1, <2>1, <2>2 DEF Located
  <2>5. tensors[tensor_names[i]].parent = Null => Buffer(i) = tensor_names[i] /\ Offset(i) = 0
    BY <1>1, <2>1, <2>2 DEF Located
  <2>6. nodes[i] \in Node /\ nodes[i].size \in Nat
    <3>1. nodes \in Seq(Node) /\ i \in 1..Len(nodes)
      BY DEF GraphInv, Graph, Here
    <3>2. nodes[i] \in Node
      BY <3>1
    <3> QED BY <3>2 DEF Node
  <2> QED BY <2>1, <2>3, <2>4, <2>5, <2>6 DEF Ids, Roots
<1> QED BY <1>2 DEF Homes

(* A node joins the graph.                                                 *)
Joins(kind, inputs, size) ==
    /\ kind \in Kinds /\ size \in Nat /\ Reads(nodes, inputs)
    /\ kind \in {"Reshape", "Result"} => Len(inputs) = 1
    /\ kind = "Parameter" => \A i \in Here : IsKind(i, {"Parameter"})
Joined(kind, inputs, size) ==
    /\ Len(nodes) \in Nat /\ here \in Nat \ {0} /\ here <= NumNodes
    /\ Len(nodes') = here /\ Here' = Here \cup {here} /\ here \notin Here
    /\ \A i \in Here : i \in Nat /\ 1 <= i /\ i < here
    /\ \A i \in Here : nodes'[i] = nodes[i] /\ nodes[i] \in Node /\ nodes[i].size \in Nat
    /\ nodes'[here] = [kind |-> kind, inputs |-> inputs, size |-> size]
    /\ \A i \in Here : Parts'[i] = Parts[i]
    /\ Made(nodes', Parts') /\ Made(nodes, Parts)

(* The graph with the node is one, and all is known of its nodes.          *)
LEMMA NodeJoins ==
  ASSUME ExtractorAssumption, GraphInv, NEW kind, NEW inputs, NEW size,
         AddNode(kind, inputs, size), Joins(kind, inputs, size)
  PROVE  GraphInv' /\ Joined(kind, inputs, size)
<1>. DEFINE node == [kind |-> kind, inputs |-> inputs, size |-> size]
            N == Len(nodes)
<1>1. nodes \in Seq(Node) /\ N \in Nat /\ NumNodes \in Nat /\ N < NumNodes /\ Graph(nodes)
  BY DEF GraphInv, Graph, ExtractorAssumption, AddNode
<1>2. nodes' = Append(nodes, node) /\ phase' \in {"extract", "extend"} /\ stable' = stable
      /\ (phase' = "extract" => here # NumNodes)
  BY DEF AddNode
<1>3. node \in Node /\ node.kind = kind /\ node.inputs = inputs
  BY DEF Joins, Node, Reads
<1>4. /\ nodes' \in Seq(Node) /\ Len(nodes') = N + 1
      /\ \A i \in 1..N : nodes'[i] = nodes[i]
      /\ nodes'[N + 1] = node
  <2>. HIDE DEF node
  <2> QED BY <1>1, <1>2, <1>3
<1>5. N + 1 \in Nat \ {0} /\ N + 1 <= NumNodes /\ 1..N + 1 = (1..N) \cup {N + 1}
      /\ N + 1 \notin 1..N /\ \A i \in 1..N : i \in Nat /\ 1 <= i /\ i < N + 1
  BY ONLY <1>1
<1>. HIDE DEF node
<1>6. Graph(nodes')
  <2>1. ASSUME NEW i \in 1..N + 1
        PROVE  /\ \A k \in 1..Len(nodes'[i].inputs) : nodes'[i].inputs[k] \in 1..i - 1
               /\ nodes'[i].kind \in {"Reshape", "Result"} => Len(nodes'[i].inputs) = 1
    <3>1. CASE i \in 1..N
      <4>1. nodes'[i] = nodes[i]
        BY <1>4, <3>1
      <4>2. /\ \A k \in 1..Len(nodes[i].inputs) : nodes[i].inputs[k] \in 1..i - 1
            /\ nodes[i].kind \in {"Reshape", "Result"} => Len(nodes[i].inputs) = 1
        BY <1>1, <3>1 DEF Graph
      <4> QED BY <4>1, <4>2
    <3>2. CASE i = N + 1
      <4>1. nodes'[i].inputs = inputs /\ nodes'[i].kind = kind
        BY <1>3, <1>4, <3>2
      <4>2. \A k \in 1..Len(inputs) : inputs[k] \in 1..N
        BY DEF Joins, Reads
      <4>3. N = i - 1
        BY ONLY <1>1, <3>2
      <4>4. kind \in {"Reshape", "Result"} => Len(inputs) = 1
        BY DEF Joins
      <4> QED BY <4>1, <4>2, <4>3, <4>4
    <3> QED BY <1>5, <3>1, <3>2
  <2> QED BY <1>4, <2>1 DEF Graph
<1>7. Extends(nodes', nodes)
  BY <1>1, <1>4, <1>5 DEF Extends
<1>8. SameParts(nodes', nodes) /\ Made(nodes', PartsOf(nodes')) /\ Made(nodes, PartsOf(nodes))
  BY <1>1, <1>6, <1>7, PartsKept, PartsFound
<1>9. ASSUME NEW p \in 1..N + 1, NEW q \in 1..N + 1, q < p, nodes'[p].kind = "Parameter"
      PROVE  nodes'[q].kind = "Parameter"
  <2>1. q \in 1..N
    BY ONLY <1>1, <1>9
  <2>2. CASE p \in 1..N
    BY <1>4, <1>9, <2>1, <2>2 DEF GraphInv, Here, IsKind
  <2>3. CASE p = N + 1
    <3>1. kind = "Parameter"
      BY <1>3, <1>4, <1>9, <2>3
    <3> QED BY <1>4, <2>1, <3>1 DEF Joins, Here, IsKind
  <2> QED BY <1>5, <2>2, <2>3
<1>10. GraphInv'
  <2>1. phase' \in Phases /\ stable' \in BOOLEAN
    BY <1>2 DEF GraphInv, Phases
  <2>2. Len(nodes') <= NumNodes /\ (phase' = "extract" => Len(nodes') < NumNodes)
    <3>1. N + 1 # NumNodes => N + 1 < NumNodes
      BY ONLY <1>1, <1>5
    <3> QED BY <1>2, <1>4, <1>5, <3>1 DEF here
  <2>3. \A p, q \in 1..N + 1 : q < p /\ nodes'[p].kind \in {"Parameter"}
           => nodes'[q].kind \in {"Parameter"}
    BY <1>9
  <2> QED BY <1>4, <1>6, <2>1, <2>2, <2>3 DEF GraphInv, Here, IsKind
<1>11. \A i \in 1..N : nodes[i] \in Node /\ nodes[i].size \in Nat
  <2>1. \A i \in 1..N : nodes[i] \in Node
    BY <1>1
  <2>2. \A n \in Node : n.size \in Nat
    BY DEF Node
  <2> QED BY <2>1, <2>2
<1>12. Parts = PartsOf(nodes) /\ Parts' = PartsOf(nodes')
  BY DEF Parts
<1>13. Joined(kind, inputs, size)
  BY <1>1, <1>4, <1>5, <1>8, <1>11, <1>12 DEF Joined, SameParts, here, Here, node
<1> QED BY <1>10, <1>13

(* The inputs of a node.                                                   *)
LEMMA ListsRead ==
  ASSUME NEW inputs \in Lists, GraphInv
  PROVE  Reads(nodes, inputs) /\ Len(inputs) \in Nat \ {0} /\ DOMAIN inputs = 1..Len(inputs)
<1>1. PICK n \in 1..MaxInputs : inputs \in [1..n -> Sources]
  BY DEF Lists
<1>2. n \in Nat \ {0}
  OBVIOUS
<1>3. Sources \subseteq 1..Len(nodes) /\ 1..Len(nodes) \subseteq Nat
  BY DEF Sources
<1>4. inputs \in Seq(Nat) /\ Len(inputs) = n
  <2>1. inputs \in [1..n -> Nat]
    BY <1>1, <1>3
  <2> QED BY ONLY <1>2, <2>1
<1> QED BY <1>1, <1>2, <1>3, <1>4 DEF Reads

(* Before the graph is complete, no lifespan and no release is at stake.   *)
LEMMA NotYetRead ==
  ASSUME phase = "extract", phase' \notin {"schedule", "done"}, release' = release, ReleaseInv
  PROVE  UseInv' /\ ReleaseInv'
BY DEF UseInv, ReleaseInv

-----------------------------------------------------------------------------
(* What a new node does to the earlier ones.                               *)

(* The tensor of the new node is id; the roots C became parts of a new one.*)
Changes(C, at, id) ==
    /\ tensor_names'[here] = id
    /\ \A i \in Here :
          /\ tensor_names'[i] = tensor_names[i]
          /\ Buffer(i)' = IF Buffer(i) \in C THEN next_buffer_id ELSE Buffer(i)
          /\ Offset(i)' = Offset(i) + (IF Buffer(i) \in C THEN at[Buffer(i)] ELSE 0)

(* The buffers of the roots C are regions of a new one; no other shrinks.  *)
Rebuilt(C, at) ==
    /\ C \subseteq DOMAIN mutable_buffers /\ at \in [C -> Nat]
    /\ DOMAIN mutable_buffers' \subseteq (DOMAIN mutable_buffers \ C) \cup {next_buffer_id}
    /\ \A b \in (DOMAIN mutable_buffers) \ C :
          /\ b \in DOMAIN mutable_buffers'
          /\ mutable_buffers'[b].start = mutable_buffers[b].start
          /\ mutable_buffers'[b].size = mutable_buffers[b].size
          /\ mutable_buffers[b].end <= mutable_buffers'[b].end
    /\ \A b \in DOMAIN mutable_buffers' :
          /\ mutable_buffers'[b] \in Chunk
          /\ 1 <= mutable_buffers'[b].start
          /\ mutable_buffers'[b].start <= mutable_buffers'[b].end
          /\ mutable_buffers'[b].end <= TheEnd
    /\ \A c \in C :
          LET b == next_buffer_id IN
          /\ b \in DOMAIN mutable_buffers' /\ mutable_buffers'[b].end = here
          /\ mutable_buffers'[b].start <= mutable_buffers[c].start
          /\ at[c] + mutable_buffers[c].size <= mutable_buffers'[b].size
    /\ \A c, d \in C : c # d => \/ at[c] + mutable_buffers[c].size <= at[d]
                                \/ at[d] + mutable_buffers[d].size <= at[c]
    /\ immutable_buffers \subseteq immutable_buffers'

(* A Concat of aliases stays one.                                          *)
LEMMA AliasesStay ==
  ASSUME GraphInv, NEW kind, NEW inputs, NEW size, Joined(kind, inputs, size),
         NEW C, NEW at, NEW id, Changes(C, at, id), AliasesMerged
  PROVE  AliasesMerged'
<1>1. PICK i \in Here : nodes[i].kind = "Concat" /\ ~IsInjective(TensorsOf(nodes[i].inputs))
  BY DEF AliasesMerged, IsKind, Here
<1>2. nodes'[i] = nodes[i] /\ i \in 1..Len(nodes')
  BY DEF Joined, Here
<1>3. \A k \in DOMAIN nodes[i].inputs : nodes[i].inputs[k] \in Here
  <2>1. Reads(nodes, nodes[i].inputs)
    BY InputsRead DEF GraphInv, Here
  <2>2. DOMAIN nodes[i].inputs = 1..Len(nodes[i].inputs)
    BY <2>1 DEF Reads
  <2> QED BY <2>1, <2>2 DEF Reads, Here
<1>4. TensorsOf(nodes[i].inputs)' = TensorsOf(nodes[i].inputs)
  BY <1>2, <1>3 DEF TensorsOf, Changes
<1>5. nodes'[i].kind = "Concat" /\ ~IsInjective(TensorsOf(nodes[i].inputs)')
  BY <1>1, <1>2, <1>4
<1> QED BY <1>2, <1>5 DEF AliasesMerged, IsKind

(* What holds of the earlier nodes still does.                             *)
Undisturbed ==
    \A i \in Here : Placed(i)' /\ Whole(i)' /\ (stable => Kept(i)') /\ \A j \in Here : Apart(i, j)'

(* The tensors of a buffer move together, and the buffers that become one  *)
(* lie side by side in it.                                                 *)
LEMMA EarlierNodes ==
  ASSUME ExtractorAssumption, GraphInv, TensorInv, PlaceInv, ApartInv, PartsInv, StableInv,
         NEW kind, NEW inputs, NEW size, Joined(kind, inputs, size),
         NEW C, NEW at, NEW id, Changes(C, at, id), Rebuilt(C, at)
  PROVE  Undisturbed
<1>. DEFINE mb == mutable_buffers
            mb2 == mutable_buffers'
            new == next_buffer_id
            R(i) == Buffer(i)
            O(i) == Offset(i)
            R2(i) == Buffer(i)'
            O2(i) == Offset(i)'
            sz(i) == nodes[i].size
<1>1. Homes
  BY HomesFound
<1>2. \A i \in Here : R(i) \in Ids /\ O(i) \in Nat /\ sz(i) \in Nat /\ tensor_names[i] \in Ids
  BY <1>1 DEF Homes
<1>3. new \notin Ids
  <2>1. Len(tensors) \in Nat
    BY DEF TensorInv, Forest
  <2>2. Len(tensors) + 1 \notin 1..Len(tensors)
    BY ONLY <2>1
  <2> QED BY <2>2 DEF Ids, next_buffer_id
<1>4. \A b \in DOMAIN mb : mb[b].start \in Nat /\ mb[b].end \in Nat /\ mb[b].size \in Nat
  BY DEF TensorInv, Chunk
<1>5. \A b \in DOMAIN mb2 : /\ mb2[b].start \in Nat /\ mb2[b].end \in Nat /\ mb2[b].size \in Nat
                            /\ mb2[b].end <= TheEnd
  BY DEF Rebuilt, Chunk
<1>6. \A b \in DOMAIN mb2 : b # new => b \in (DOMAIN mb) \ C
  BY DEF Rebuilt
<1>7. \A b \in (DOMAIN mb) \ C : /\ b \in DOMAIN mb2 /\ mb2[b].start = mb[b].start
                                 /\ mb2[b].size = mb[b].size /\ mb[b].end <= mb2[b].end
  BY DEF Rebuilt
<1>8. \A c \in C : /\ c \in DOMAIN mb /\ at[c] \in Nat
                   /\ new \in DOMAIN mb2 /\ mb2[new].end = here
                   /\ mb2[new].start <= mb[c].start /\ at[c] + mb[c].size <= mb2[new].size
  BY DEF Rebuilt
<1>9. \A i \in Here : /\ tensor_names'[i] = tensor_names[i]
                      /\ R2(i) = IF R(i) \in C THEN new ELSE R(i)
                      /\ O2(i) = O(i) + (IF R(i) \in C THEN at[R(i)] ELSE 0)
  BY DEF Changes
<1>10. /\ \A i \in Here : i \in Nat /\ i < here /\ nodes'[i] = nodes[i]
       /\ here \in Nat /\ TheEnd \in Nat
  BY DEF Joined, TheEnd, ExtractorAssumption
<1>. HIDE DEF mb, mb2, new, R, O, R2, O2, sz
<1>11. ASSUME NEW i \in Here PROVE Placed(i)'
  <2>. DEFINE t == tensor_names[i]
  <2>1. Placed(i)
    BY DEF PlaceInv
  <2>2. ASSUME t \in DOMAIN mb2 PROVE nodes'[i].size = mb2[t].size
    <3>1. t \in (DOMAIN mb) \ C
      BY <1>2, <1>3, <1>6, <2>2
    <3>2. sz(i) = mb[t].size
      BY <2>1, <3>1 DEF Placed, mb, sz
    <3> QED BY <1>7, <1>10, <3>1, <3>2 DEF sz
  <2>3. nodes'[i].kind = "Constant" => t \in immutable_buffers'
    BY <1>10, <2>1 DEF Placed, IsKind, Rebuilt
  <2>4. ASSUME R2(i) \in DOMAIN mb2
        PROVE  /\ mb2[R2(i)].start <= i /\ O2(i) + sz(i) <= mb2[R2(i)].size
               /\ nodes'[i].kind \in {"Op", "Parameter"} => i <= mb2[R2(i)].end
    <3>1. CASE R(i) \in C
      <4>. DEFINE c == R(i)
      <4>1. R2(i) = new /\ O2(i) = O(i) + at[c] /\ c \in DOMAIN mb
        BY <1>8, <1>9, <3>1
      <4>2. mb[c].start <= i /\ O(i) + sz(i) <= mb[c].size
        BY <2>1, <4>1 DEF Placed, mb, sz, R, O
      <4>3. /\ new \in DOMAIN mb2 /\ mb2[new].end = here
            /\ mb2[new].start <= mb[c].start /\ at[c] + mb[c].size <= mb2[new].size
        BY <1>8, <3>1
      <4>4. /\ mb[c].start \in Nat /\ mb[c].size \in Nat /\ mb2[new].start \in Nat
            /\ mb2[new].size \in Nat /\ at[c] \in Nat
        BY <1>4, <1>5, <1>8, <3>1, <4>1, <4>3
      <4>5. i \in Nat /\ i < here /\ here \in Nat /\ O(i) \in Nat /\ sz(i) \in Nat
        BY <1>2, <1>10
      <4>. HIDE DEF c
      <4>6. mb2[new].start <= i
        BY ONLY <4>2, <4>3, <4>4, <4>5
      <4>7. O(i) + at[c] + sz(i) <= mb2[new].size
        BY ONLY <4>2, <4>3, <4>4, <4>5
      <4>8. i <= mb2[new].end
        BY ONLY <4>3, <4>5
      <4> QED BY <4>1, <4>6, <4>7, <4>8
    <3>2. CASE R(i) \notin C
      <4>. DEFINE b == R(i)
      <4>1. R2(i) = b /\ O2(i) = O(i) + 0
        BY <1>9, <3>2
      <4>2. b \in (DOMAIN mb) \ C
        BY <1>2, <1>3, <1>6, <2>4, <4>1
      <4>3. /\ mb[b].start <= i /\ O(i) + sz(i) <= mb[b].size
            /\ nodes[i].kind \in {"Op", "Parameter"} => i <= mb[b].end
        BY <2>1, <4>2 DEF Placed, mb, sz, R, O, IsKind
      <4>4. mb2[b].start = mb[b].start /\ mb2[b].size = mb[b].size /\ mb[b].end <= mb2[b].end
        BY <1>7, <4>2
      <4>5. mb[b].end \in Nat /\ mb2[b].end \in Nat
        BY <1>4, <1>5, <1>7, <4>2
      <4>6. i \in Nat /\ O(i) \in Nat /\ nodes'[i] = nodes[i]
        BY <1>2, <1>10
      <4>. HIDE DEF b
      <4>7. O2(i) = O(i)
        BY ONLY <4>1, <4>6
      <4>8. i <= mb[b].end => i <= mb2[b].end
        BY ONLY <4>4, <4>5, <4>6
      <4> QED BY <4>1, <4>3, <4>4, <4>6, <4>7, <4>8
    <3> QED BY <3>1, <3>2
  <2> QED BY <1>9, <1>10, <2>2, <2>3, <2>4 DEF Placed, IsKind, mb2, R2, O2, sz
<1>12. ASSUME NEW i \in Here PROVE Whole(i)'
  <2>1. Parts'[i] = Parts[i]
    BY DEF Joined
  <2> SUFFICES ASSUME NEW w \in Parts[i]
               PROVE  /\ w[1] \in 1..i /\ w[2] \in Nat
                      /\ IsKind(w[1], {"Parameter", "Constant", "Op"})'
                      /\ ~AliasesMerged' => R2(w[1]) = R2(i) /\ O2(w[1]) = O2(i) + w[2]
    BY <2>1 DEF Whole, R2, O2
  <2>2. /\ w[1] \in 1..i /\ w[2] \in Nat
        /\ IsKind(w[1], {"Parameter", "Constant", "Op"})
        /\ ~AliasesMerged => R(w[1]) = R(i) /\ O(w[1]) = O(i) + w[2]
    BY DEF PartsInv, Whole, R, O
  <2>. DEFINE v == w[1]
              o == w[2]
  <2>3. v \in Here
    <3>1. Len(nodes) \in Nat
      BY DEF Joined
    <3>2. i \in 1..Len(nodes) /\ v \in 1..i
      BY <2>2 DEF Here
    <3>. HIDE DEF v
    <3>3. v \in 1..Len(nodes)
      BY ONLY <3>1, <3>2
    <3> QED BY <3>3 DEF Here
  <2>. HIDE DEF v, o
  <2>4. nodes'[v] = nodes[v]
    BY <1>10, <2>3
  <2>5. ASSUME ~AliasesMerged' PROVE R2(v) = R2(i) /\ O2(v) = O2(i) + o
    <3>1. ~AliasesMerged
      BY <2>5, AliasesStay
    <3>2. R(v) = R(i) /\ O(v) = O(i) + o /\ o \in Nat
      BY <2>2, <3>1 DEF v, o
    <3>3. R2(v) = R2(i)
      BY <1>9, <2>3, <3>2
    <3>4. O(i) \in Nat /\ O2(i) = O(i) + (IF R(i) \in C THEN at[R(i)] ELSE 0)
          /\ O2(v) = O(v) + (IF R(i) \in C THEN at[R(i)] ELSE 0)
      BY <1>2, <1>9, <2>3, <3>2
    <3>5. CASE R(i) \in C
      <4>1. at[R(i)] \in Nat
        BY <1>8, <3>5
      <4> QED BY <3>2, <3>3, <3>4, <3>5, <4>1
    <3>6. CASE R(i) \notin C
      BY <3>2, <3>3, <3>4, <3>6
    <3> QED BY <3>5, <3>6
  <2> QED BY <2>2, <2>4, <2>5 DEF v, o, IsKind
<1>13. ASSUME NEW i \in Here, stable PROVE Kept(i)'
  <2>. DEFINE t == tensor_names[i]
  <2>1. SUFFICES ASSUME nodes[i].kind \in {"Parameter", "Result"}, t \in DOMAIN mb2
                 PROVE  mb2[t].end = TheEnd
    BY <1>9, <1>10 DEF Kept, IsKind, TheEnd, mb2
  <2>2. t \in (DOMAIN mb) \ C
    BY <1>2, <1>3, <1>6, <2>1
  <2>3. mb[t].end = TheEnd
    BY <1>13, <2>1, <2>2 DEF StableInv, Kept, IsKind, mb
  <2>4. mb[t].end <= mb2[t].end /\ mb2[t].end <= TheEnd /\ mb2[t].end \in Nat
    BY <1>5, <1>7, <2>2
  <2>. HIDE DEF t
  <2> QED BY ONLY <1>10, <2>3, <2>4
<1>14. ASSUME NEW i \in Here, NEW j \in Here PROVE Apart(i, j)'
  <2>1. SUFFICES ASSUME i # j, nodes[i].kind \in {"Op", "Parameter"},
                        nodes[j].kind \in {"Op", "Parameter"}, R2(i) = R2(j)
                 PROVE  O2(i) + sz(i) <= O2(j) \/ O2(j) + sz(j) <= O2(i)
    BY <1>10 DEF Apart, IsKind, R2, O2, sz
  <2>2. O(i) \in Nat /\ O(j) \in Nat /\ sz(i) \in Nat /\ sz(j) \in Nat
    BY <1>2
  <2>3. CASE R(i) = R(j)
    <3>1. O(i) + sz(i) <= O(j) \/ O(j) + sz(j) <= O(i)
      BY <2>1, <2>3 DEF ApartInv, Apart, IsKind, R, O, sz
    <3>2. CASE R(i) \in C
      <4>. DEFINE a == at[R(i)]
      <4>1. O2(i) = O(i) + a /\ O2(j) = O(j) + a /\ a \in Nat
        BY <1>8, <1>9, <2>3, <3>2
      <4>. HIDE DEF a
      <4> QED BY ONLY <2>2, <3>1, <4>1
    <3>3. CASE R(i) \notin C
      <4>1. O2(i) = O(i) + 0 /\ O2(j) = O(j) + 0
        BY <1>9, <2>3, <3>3
      <4> QED BY ONLY <2>2, <3>1, <4>1
    <3> QED BY <3>2, <3>3
  <2>4. CASE R(i) # R(j)
    <3>1. R(i) \in C /\ R(j) \in C
      BY <1>2, <1>3, <1>9, <2>1, <2>4
    <3>. DEFINE c == R(i)
                d == R(j)
    <3>2. O2(i) = O(i) + at[c] /\ O2(j) = O(j) + at[d]
      BY <1>9, <3>1
    <3>3. O(i) + sz(i) <= mb[c].size /\ O(j) + sz(j) <= mb[d].size
      BY <1>8, <3>1 DEF PlaceInv, Placed, mb, sz, R, O
    <3>4. at[c] + mb[c].size <= at[d] \/ at[d] + mb[d].size <= at[c]
      BY <2>4, <3>1 DEF Rebuilt, mb
    <3>5. at[c] \in Nat /\ at[d] \in Nat /\ mb[c].size \in Nat /\ mb[d].size \in Nat
      BY <1>4, <1>8, <3>1
    <3>. HIDE DEF c, d
    <3> QED BY ONLY <2>2, <3>2, <3>3, <3>4, <3>5
  <2> QED BY <2>3, <2>4
<1> QED BY <1>11, <1>12, <1>13, <1>14 DEF Undisturbed

(* The new node is as it should be.                                        *)
Fits(n) ==
    /\ Placed(n)' /\ Whole(n)' /\ (stable => Kept(n)')
    /\ \A i \in Here : Apart(i, n)' /\ Apart(n, i)'

(* The earlier nodes and the new one are all there are.                    *)
LEMMA NodeFits ==
  ASSUME NEW kind, NEW inputs, NEW size, Joined(kind, inputs, size), Undisturbed,
         NEW n, n = here, Fits(n), stable' = stable
  PROVE  PlaceInv' /\ ApartInv' /\ PartsInv' /\ StableInv'
<1>1. Here' = Here \cup {n}
  BY DEF Joined
<1>2. \A i \in Here' : Placed(i)' /\ Whole(i)' /\ (stable' => Kept(i)')
  BY <1>1 DEF Fits, Undisturbed
<1>3. Apart(n, n)'
  BY DEF Apart
<1>4. \A i, j \in Here' : Apart(i, j)'
  BY <1>1, <1>3 DEF Fits, Undisturbed
<1> QED BY <1>2, <1>4 DEF PlaceInv, ApartInv, PartsInv, StableInv

(* A new TensorID for the new node, with the roots C as its children.      *)
RootAdded(n, C, at) ==
    /\ Forest(tensors') /\ Changes(C, at, next_buffer_id)
    /\ tensor_names' \in Seq(Nat) /\ Len(tensor_names') = Len(nodes) + 1
    /\ Ids' = Ids \cup {next_buffer_id} /\ next_buffer_id \notin Ids
    /\ Roots' = (Roots \ C) \cup {next_buffer_id}
    /\ tensor_names'[n] = next_buffer_id /\ Buffer(n)' = next_buffer_id /\ Offset(n)' = 0

(* What NewTensor and SetParents do to the roots and the offsets.          *)
LEMMA TensorAdded ==
  ASSUME ExtractorAssumption, GraphInv, TensorInv, NEW n, n = here, NEW C, NEW at,
         NewRoot(tensors', tensors, C, at),
         tensor_names' = Append(tensor_names, next_buffer_id)
  PROVE  RootAdded(n, C, at)
<1>. DEFINE T == Len(tensors)
            new == T + 1
<1>1. Moved(tensors', tensors, C, at)
  BY RootsMoved DEF TensorInv
<1>2. T \in Nat /\ new \in Nat /\ next_buffer_id = new
  <2>1. T \in Nat
    BY DEF TensorInv, Forest
  <2> QED BY <2>1 DEF next_buffer_id
<1>3. tensor_names \in Seq(Nat) /\ Len(tensor_names) = Len(nodes) /\ Len(nodes) \in Nat
  BY DEF TensorInv
<1>4. /\ tensor_names' \in Seq(Nat) /\ Len(tensor_names') = Len(nodes) + 1
      /\ \A i \in 1..Len(nodes) : tensor_names'[i] = tensor_names[i]
      /\ tensor_names'[Len(nodes) + 1] = new
  <2>1. tensor_names' = Append(tensor_names, new)
    BY <1>2
  <2>. HIDE DEF new
  <2> QED BY ONLY <1>2, <1>3, <2>1
<1>5. 1..new = (1..T) \cup {new} /\ new \notin 1..T
  BY ONLY <1>2
<1>6. Ids' = Ids \cup {new} /\ new \notin Ids
  <2>1. Len(tensors') = new
    BY DEF NewRoot
  <2> QED BY <1>5, <2>1 DEF Ids
<1>7. Roots' = (Roots \ C) \cup {new}
  <2>1. \A t \in C : tensors'[t].parent = new
    <3> SUFFICES ASSUME NEW t \in C PROVE tensors'[t].parent = new
      OBVIOUS
    <3>1. tensors'[t] = [parent |-> new, offset |-> at[t]]
      BY DEF NewRoot
    <3> QED BY ONLY <3>1
  <2>2. \A t \in Ids : t \notin C => tensors'[t] = tensors[t]
    BY DEF NewRoot, Ids
  <2>3. tensors'[new].parent = Null
    <3>1. tensors'[new] = [parent |-> Null, offset |-> 0]
      BY DEF NewRoot
    <3> QED BY ONLY <3>1
  <2>4. new # Null
    BY <1>2 DEF ExtractorAssumption
  <2>5. Roots' = {t \in Ids' : tensors'[t].parent = Null}
    BY DEF Roots
  <2>. HIDE DEF new
  <2>6. \A t \in Ids' : tensors'[t].parent = Null <=> t \in (Roots \ C) \cup {new}
    BY <1>6, <2>1, <2>2, <2>3, <2>4 DEF Roots
  <2>7. (Roots \ C) \cup {new} \subseteq Ids'
    BY <1>6 DEF Roots
  <2> QED BY <2>5, <2>6, <2>7
<1>8. RootOf(tensors')[new] = new /\ OffsetOf(tensors')[new] = 0
  BY <1>1 DEF Moved
<1>9. tensor_names'[n] = new /\ Buffer(n)' = new /\ Offset(n)' = 0
  BY <1>4, <1>8 DEF Buffer, Offset, GetBuffer, GetOffset, here
<1>10. Changes(C, at, new)
  <2>1. ASSUME NEW i \in Here
        PROVE  /\ tensor_names'[i] = tensor_names[i]
               /\ Buffer(i)' = IF Buffer(i) \in C THEN new ELSE Buffer(i)
               /\ Offset(i)' = Offset(i) + (IF Buffer(i) \in C THEN at[Buffer(i)] ELSE 0)
    <3>. DEFINE t == tensor_names[i]
    <3>1. tensor_names'[i] = t
      BY <1>4 DEF Here
    <3>2. t \in 1..T
      BY DEF TensorInv, Ids
    <3>3. LET r == RootOf(tensors)[t] IN
          /\ RootOf(tensors')[t] = IF r \in C THEN new ELSE r
          /\ OffsetOf(tensors')[t] = OffsetOf(tensors)[t] + (IF r \in C THEN at[r] ELSE 0)
      BY <1>1, <3>2 DEF Moved
    <3> QED BY <3>1, <3>3 DEF Buffer, Offset, GetBuffer, GetOffset
  <2>2. tensor_names'[here] = new
    BY <1>4 DEF here
  <2> QED BY <1>2, <2>1, <2>2 DEF Changes
<1> QED BY <1>1, <1>2, <1>4, <1>6, <1>7, <1>9, <1>10 DEF RootAdded, Moved

(* What TensorInv' comes to, for a node with a new tensor.                 *)
LEMMA TensorsStay ==
  ASSUME GraphInv, TensorInv, NEW kind, NEW inputs, NEW size, Joined(kind, inputs, size),
         NEW n, n = here, NEW C, NEW at, RootAdded(n, C, at), Rebuilt(C, at),
         (DOMAIN mutable_buffers') \cup immutable_buffers' = Roots',
         (DOMAIN mutable_buffers') \cap immutable_buffers' = {}
  PROVE  TensorInv'
<1>1. \A i \in Here' : tensor_names'[i] \in Ids'
  BY DEF Joined, RootAdded, Changes, TensorInv
<1>2. \A b \in DOMAIN mutable_buffers' :
          /\ mutable_buffers'[b] \in Chunk
          /\ 1 <= mutable_buffers'[b].start
          /\ mutable_buffers'[b].start <= mutable_buffers'[b].end
          /\ mutable_buffers'[b].end <= TheEnd'
  BY DEF Rebuilt, TheEnd
<1>3. Len(tensor_names') = Len(nodes') /\ tensor_names' \in Seq(Nat) /\ Forest(tensors')
  BY DEF RootAdded, Joined, here
<1> QED BY <1>1, <1>2, <1>3 DEF TensorInv

(* A tensor that no other node makes, in a buffer of its own.              *)
Fresh(kind, end, size) ==
    /\ NewTensor
    /\ \/ /\ kind \in {"Parameter", "Op"} /\ end \in {here, TheEnd}
          /\ kind = "Parameter" /\ stable => end = TheEnd
          /\ mutable_buffers' = WithBuffer(mutable_buffers, here, end, size)
          /\ immutable_buffers' = immutable_buffers
       \/ /\ kind = "Constant"
          /\ mutable_buffers' = mutable_buffers
          /\ immutable_buffers' = immutable_buffers \cup {next_buffer_id}

(* The step of a parameter, a constant or an operation.                    *)
LEMMA FreshTensor ==
  ASSUME ExtractorAssumption, PlanInv, NEW kind, NEW inputs, NEW size, NEW end,
         AddNode(kind, inputs, size), Joins(kind, inputs, size), Fresh(kind, end, size)
  PROVE  PlanInv'
<1>. USE DEF PlanInv
<1>1. GraphInv' /\ Joined(kind, inputs, size)
  BY NodeJoins
<1>2. PICK n : n = here
  OBVIOUS
<1>. DEFINE new == next_buffer_id
            mb == mutable_buffers
            mb2 == mutable_buffers'
            C == {}
            at == [c \in C |-> 0]
<1>3. NewRoot(tensors', tensors, C, at)
  <2>1. tensors \in Seq(TensorID) /\ Len(tensors) \in Nat
    BY DEF TensorInv, Forest
  <2>2. [parent |-> Null, offset |-> 0] \in TensorID
    BY DEF TensorID
  <2>3. tensors' = Append(tensors, [parent |-> Null, offset |-> 0])
    BY DEF Fresh, NewTensor
  <2>4. /\ tensors' \in Seq(TensorID) /\ Len(tensors') = Len(tensors) + 1
        /\ \A t \in 1..Len(tensors) : tensors'[t] = tensors[t]
        /\ tensors'[Len(tensors) + 1] = [parent |-> Null, offset |-> 0]
    BY ONLY <2>1, <2>2, <2>3
  <2>5. at \in [C -> Nat]
    OBVIOUS
  <2> QED BY <2>4, <2>5 DEF NewRoot
<1>4. RootAdded(n, C, at)
  BY <1>2, <1>3, TensorAdded DEF Fresh, NewTensor
<1>. HIDE DEF at
<1>5. new \notin Ids /\ new \notin DOMAIN mb /\ new \notin immutable_buffers
  BY <1>4 DEF RootAdded, TensorInv, Roots
<1>6. /\ here \in Nat /\ 1 <= here /\ here <= NumNodes /\ here <= TheEnd
      /\ TheEnd \in Nat /\ size \in Nat /\ NumNodes \in Nat
  <2>1. here \in Nat \ {0} /\ here <= NumNodes /\ size \in Nat /\ NumNodes \in Nat
    BY <1>1 DEF Joined, Joins, ExtractorAssumption
  <2>2. TheEnd = NumNodes + 1
    BY DEF TheEnd
  <2> QED BY ONLY <2>1, <2>2
<1>7. CASE kind \in {"Parameter", "Op"}
  <2>. DEFINE chunk == [start |-> here, end |-> end, size |-> size]
  <2>1. end \in {here, TheEnd} /\ (kind = "Parameter" /\ stable => end = TheEnd)
    BY <1>7 DEF Fresh
  <2>2. /\ mb2 = [b \in (DOMAIN mb) \cup {new} |-> IF b = new THEN chunk ELSE mb[b]]
        /\ immutable_buffers' = immutable_buffers
    BY <1>7 DEF Fresh, WithBuffer
  <2>. HIDE DEF chunk
  <2>3. /\ DOMAIN mb2 = (DOMAIN mb) \cup {new}
        /\ \A b \in DOMAIN mb : mb2[b] = mb[b]
        /\ mb2[new] = chunk
    BY <1>5, <2>2
  <2>4. chunk \in Chunk /\ chunk.start = here /\ chunk.end = end /\ chunk.size = size
    BY <1>6, <2>1 DEF Chunk, chunk
  <2>5. Rebuilt(C, at)
    <3>1. at \in [C -> Nat]
      BY DEF at
    <3>2. \A b \in DOMAIN mb : /\ mb2[b].start = mb[b].start /\ mb2[b].size = mb[b].size
                               /\ mb[b].end <= mb2[b].end
      <4>1. \A b \in DOMAIN mb : mb[b].end \in Nat
        BY DEF TensorInv, Chunk
      <4>2. \A b \in DOMAIN mb : mb[b].end <= mb[b].end
        BY <4>1
      <4> QED BY <2>3, <4>2
    <3>3. ASSUME NEW b \in DOMAIN mb2
          PROVE  mb2[b] \in Chunk /\ 1 <= mb2[b].start /\ mb2[b].start <= mb2[b].end
                 /\ mb2[b].end <= TheEnd
      <4>1. CASE b \in DOMAIN mb
        BY <2>3, <4>1 DEF TensorInv
      <4>2. CASE b = new
        <5>1. 1 <= here /\ here <= end /\ end <= TheEnd
          BY <1>6, <2>1
        <5> QED BY <2>3, <2>4, <4>2, <5>1
      <4> QED BY <2>3, <4>1, <4>2
    <3> QED BY <2>2, <2>3, <3>1, <3>2, <3>3 DEF Rebuilt
  <2>6. Undisturbed
    BY <1>1, <1>4, <2>5, EarlierNodes DEF RootAdded
  <2>7. TensorInv'
    <3>1. (DOMAIN mb2) \cup immutable_buffers' = Roots'
      BY <1>4, <2>2, <2>3 DEF RootAdded, TensorInv
    <3>2. (DOMAIN mb2) \cap immutable_buffers' = {}
      BY <1>5, <2>2, <2>3 DEF TensorInv
    <3> QED BY <1>1, <1>2, <1>4, <2>5, <3>1, <3>2, TensorsStay
  <2>8. Fits(n)
    <3>1. tensor_names'[n] = new /\ Buffer(n)' = new /\ Offset(n)' = 0
      BY <1>4 DEF RootAdded
    <3>2. nodes'[n].kind = kind /\ nodes'[n].size = size
      BY <1>1, <1>2 DEF Joined
    <3>3. Placed(n)'
      <4>1. here <= here /\ 0 + size <= size /\ here <= end
        BY <1>6, <2>1
      <4>2. nodes'[n].kind # "Constant"
        BY <1>7, <3>2
      <4> QED BY <1>2, <2>3, <2>4, <3>1, <3>2, <4>1, <4>2 DEF Placed, IsKind
    <3>4. Whole(n)'
      <4>1. Parts'[n] = {<<n, 0>>}
        <5>1. n \in 1..Len(nodes')
          BY <1>1, <1>2, <1>6 DEF Joined
        <5>2. nodes'[n].kind \notin {"Reshape", "Result", "Concat"}
          BY <1>7, <3>2
        <5>3. Made(nodes', Parts')
          BY <1>1 DEF Joined
        <5> QED BY <5>1, <5>2, <5>3 DEF Made
      <4>2. n \in 1..n /\ 0 \in Nat /\ Offset(n)' = Offset(n)' + 0
        BY <1>2, <1>6, <3>1
      <4> QED BY <1>7, <3>2, <4>1, <4>2 DEF Whole, IsKind
    <3>5. ASSUME stable PROVE Kept(n)'
      BY <2>1, <2>3, <2>4, <3>1, <3>2, <3>5, <1>7 DEF Kept, IsKind, TheEnd
    <3>6. ASSUME NEW i \in Here PROVE Apart(i, n)' /\ Apart(n, i)'
      <4>1. Buffer(i)' # new
        BY <1>1, <1>4, <1>5, HomesFound DEF RootAdded, Changes, Homes
      <4> QED BY <3>1, <4>1 DEF Apart
    <3> QED BY <3>3, <3>4, <3>5, <3>6 DEF Fits
  <2>9. PlaceInv' /\ ApartInv' /\ PartsInv' /\ StableInv'
    BY <1>1, <1>2, <2>6, <2>8, NodeFits DEF AddNode
  <2>10. UseInv' /\ ReleaseInv'
    BY NotYetRead DEF AddNode
  <2> QED BY <1>1, <2>7, <2>9, <2>10
<1>8. CASE kind = "Constant"
  <2>1. mb2 = mb /\ immutable_buffers' = immutable_buffers \cup {new}
    BY <1>8 DEF Fresh
  <2>2. Rebuilt(C, at)
    <3>1. at \in [C -> Nat]
      BY DEF at
    <3>2. \A b \in DOMAIN mb : mb[b].end <= mb[b].end
      <4>1. \A b \in DOMAIN mb : mb[b].end \in Nat
        BY DEF TensorInv, Chunk
      <4> QED BY <4>1
    <3> QED BY <2>1, <3>1, <3>2 DEF Rebuilt, TensorInv
  <2>3. Undisturbed
    BY <1>1, <1>4, <2>2, EarlierNodes DEF RootAdded
  <2>4. TensorInv'
    <3>1. (DOMAIN mb2) \cup immutable_buffers' = Roots'
      BY <1>4, <2>1 DEF RootAdded, TensorInv
    <3>2. (DOMAIN mb2) \cap immutable_buffers' = {}
      BY <1>5, <2>1 DEF TensorInv
    <3> QED BY <1>1, <1>2, <1>4, <2>2, <3>1, <3>2, TensorsStay
  <2>5. Fits(n)
    <3>1. tensor_names'[n] = new /\ Buffer(n)' = new /\ Offset(n)' = 0
      BY <1>4 DEF RootAdded
    <3>2. nodes'[n].kind = "Constant" /\ nodes'[n].size = size
      BY <1>1, <1>2, <1>8 DEF Joined
    <3>3. Placed(n)'
      BY <1>5, <2>1, <3>1, <3>2 DEF Placed, IsKind
    <3>4. Whole(n)'
      <4>1. Parts'[n] = {<<n, 0>>}
        <5>1. n \in 1..Len(nodes')
          BY <1>1, <1>2, <1>6 DEF Joined
        <5>2. nodes'[n].kind \notin {"Reshape", "Result", "Concat"}
          BY <3>2
        <5>3. Made(nodes', Parts')
          BY <1>1 DEF Joined
        <5> QED BY <5>1, <5>2, <5>3 DEF Made
      <4>2. n \in 1..n /\ 0 \in Nat /\ Offset(n)' = Offset(n)' + 0
        BY <1>2, <1>6, <3>1
      <4> QED BY <3>2, <4>1, <4>2 DEF Whole, IsKind
    <3>5. Kept(n)'
      BY <3>2 DEF Kept, IsKind
    <3>6. \A i \in Here : Apart(i, n)' /\ Apart(n, i)'
      BY <3>2 DEF Apart, IsKind
    <3> QED BY <3>3, <3>4, <3>5, <3>6 DEF Fits
  <2>6. PlaceInv' /\ ApartInv' /\ PartsInv' /\ StableInv'
    BY <1>1, <1>2, <2>3, <2>5, NodeFits DEF AddNode
  <2>7. UseInv' /\ ReleaseInv'
    BY NotYetRead DEF AddNode
  <2> QED BY <1>1, <2>4, <2>6, <2>7
<1> QED BY <1>7, <1>8 DEF Fresh

-----------------------------------------------------------------------------
(* Aliases.                                                                *)

(* Another node with the tensor of node i.                                 *)
Lengthened(kind, id) ==
    LET mb == mutable_buffers IN
    /\ DOMAIN mutable_buffers' = DOMAIN mb
    /\ \A b \in DOMAIN mb :
          /\ mutable_buffers'[b] \in Chunk
          /\ mutable_buffers'[b].start = mb[b].start /\ mutable_buffers'[b].size = mb[b].size
          /\ mb[b].end <= mutable_buffers'[b].end /\ mutable_buffers'[b].end <= TheEnd
    /\ kind = "Result" /\ stable /\ id \in DOMAIN mb => mutable_buffers'[id].end = TheEnd
Aliased(kind, i) ==
    /\ AddNode(kind, <<i>>, nodes[i].size)
    /\ tensor_names' = Append(tensor_names, tensor_names[i])
    /\ UNCHANGED <<tensors, immutable_buffers>>
    /\ Lengthened(kind, tensor_names[i])

(* The step of a Reshape or a Result.                                      *)
LEMMA TensorAliased ==
  ASSUME ExtractorAssumption, PlanInv, NEW kind \in {"Reshape", "Result"}, NEW i \in Here,
         Aliased(kind, i)
  PROVE  PlanInv'
<1>. USE DEF PlanInv
<1>. DEFINE size == nodes[i].size
            id == tensor_names[i]
            mb == mutable_buffers
            mb2 == mutable_buffers'
            C == {}
            at == [c \in C |-> 0]
<1>1. Homes
  BY HomesFound
<1>2. Joins(kind, <<i>>, size)
  <2>1. i \in 1..Len(nodes) /\ i \in Nat
    BY DEF Here
  <2>2. <<i>> \in Seq(Nat) /\ Len(<<i>>) = 1 /\ <<i>>[1] = i
    BY <2>1
  <2>3. \A k \in 1..1 : k = 1
    OBVIOUS
  <2>4. Reads(nodes, <<i>>)
    BY <2>1, <2>2, <2>3 DEF Reads
  <2>5. size \in Nat
    BY <1>1 DEF Homes
  <2> QED BY <2>2, <2>4, <2>5 DEF Joins, Kinds
<1>3. GraphInv' /\ Joined(kind, <<i>>, size)
  BY <1>2, NodeJoins DEF Aliased
<1>4. PICK n : n = here
  OBVIOUS
<1>5. /\ tensor_names' \in Seq(Nat) /\ Len(tensor_names') = Len(nodes) + 1
      /\ \A j \in Here : tensor_names'[j] = tensor_names[j]
      /\ tensor_names'[n] = id
  <2>1. tensor_names \in Seq(Nat) /\ Len(tensor_names) = Len(nodes) /\ Len(nodes) \in Nat
    BY DEF TensorInv
  <2>2. id \in Nat
    BY DEF TensorInv, Ids
  <2>3. tensor_names' = Append(tensor_names, id)
    BY DEF Aliased
  <2>. HIDE DEF id
  <2> QED BY <1>4, <2>1, <2>2, <2>3 DEF Here, here
<1>6. tensors' = tensors
  BY DEF Aliased
<1>7. /\ \A j \in Here : Buffer(j)' = Buffer(j) /\ Offset(j)' = Offset(j)
      /\ Buffer(n)' = Buffer(i) /\ Offset(n)' = Offset(i)
  BY <1>5, <1>6 DEF Buffer, Offset, GetBuffer, GetOffset
<1>8. Changes(C, at, id)
  <2>1. \A j \in Here : Offset(j) + 0 = Offset(j)
    BY <1>1 DEF Homes
  <2> QED BY <1>4, <1>5, <1>7, <2>1 DEF Changes
<1>9. Lengthened(kind, id)
  BY DEF Aliased
<1>. HIDE DEF at, id
<1>10. Rebuilt(C, at)
  <2>1. at \in [C -> Nat]
    BY DEF at
  <2>2. ASSUME NEW b \in DOMAIN mb2
        PROVE  mb2[b] \in Chunk /\ 1 <= mb2[b].start /\ mb2[b].start <= mb2[b].end
               /\ mb2[b].end <= TheEnd
    <3>1. /\ mb2[b] \in Chunk /\ mb2[b].start = mb[b].start
          /\ mb[b].end <= mb2[b].end /\ mb2[b].end <= TheEnd
      BY <1>9 DEF Lengthened
    <3>2. mb[b] \in Chunk /\ 1 <= mb[b].start /\ mb[b].start <= mb[b].end
      BY <1>9 DEF Lengthened, TensorInv
    <3>3. mb[b].start \in Nat /\ mb[b].end \in Nat /\ mb2[b].end \in Nat
      BY <3>1, <3>2 DEF Chunk
    <3>4. mb[b].start <= mb2[b].end
      BY ONLY <3>1, <3>2, <3>3
    <3> QED BY <3>1, <3>2, <3>4
  <2>3. immutable_buffers' = immutable_buffers
    BY DEF Aliased
  <2>4. DOMAIN mb2 = DOMAIN mb /\ \A b \in DOMAIN mb :
            mb2[b].start = mb[b].start /\ mb2[b].size = mb[b].size /\ mb[b].end <= mb2[b].end
    BY <1>9 DEF Lengthened
  <2> QED BY <2>1, <2>2, <2>3, <2>4 DEF Rebuilt
<1>11. Undisturbed
  BY <1>3, <1>8, <1>10, EarlierNodes
<1>12. TensorInv'
  <2>1. Ids' = Ids /\ Roots' = Roots /\ Forest(tensors')
    BY <1>6 DEF Ids, Roots, TensorInv
  <2>2. \A j \in Here' : tensor_names'[j] \in Ids'
    BY <1>3, <1>4, <1>5, <2>1 DEF Joined, TensorInv, id
  <2>3. DOMAIN mb2 = DOMAIN mb /\ immutable_buffers' = immutable_buffers
    BY <1>9 DEF Lengthened, Aliased
  <2>4. \A b \in DOMAIN mb2 : mb2[b] \in Chunk /\ 1 <= mb2[b].start
           /\ mb2[b].start <= mb2[b].end /\ mb2[b].end <= TheEnd'
    BY <1>10 DEF Rebuilt, TheEnd
  <2>5. tensor_names' \in Seq(Nat) /\ Len(tensor_names') = Len(nodes')
    BY <1>3, <1>5 DEF Joined, here
  <2>. HIDE DEF mb, mb2
  <2> QED BY <2>1, <2>2, <2>3, <2>4, <2>5 DEF TensorInv, mb, mb2
<1>13. Fits(n)
  <2>1. /\ nodes'[n].kind = kind /\ nodes'[n].size = size /\ nodes'[n].inputs = <<i>>
        /\ nodes'[i] = nodes[i] /\ i \in Nat /\ 1 <= i /\ i < n /\ n \in Nat
    BY <1>3, <1>4 DEF Joined
  <2>2. Placed(i)' /\ Whole(i)'
    BY <1>11 DEF Undisturbed
  <2>3. tensor_names'[n] = tensor_names'[i] /\ Buffer(n)' = Buffer(i)' /\ Offset(n)' = Offset(i)'
    BY <1>5, <1>7 DEF id
  <2>4. Placed(n)'
    <3>1. ASSUME Buffer(i)' \in DOMAIN mb2, mb2[Buffer(i)'].start <= i
          PROVE  mb2[Buffer(i)'].start <= n
      <4>1. mb2[Buffer(i)'].start \in Nat
        BY <1>12, <3>1 DEF TensorInv, Chunk
      <4> QED BY ONLY <2>1, <3>1, <4>1
    <3> QED BY <2>1, <2>2, <2>3, <3>1 DEF Placed, IsKind
  <2>5. Whole(n)'
    <3>1. Parts'[n] = Parts'[i]
      <4>1. n \in 1..Len(nodes')
        BY <1>3, <1>4, <2>1 DEF Joined
      <4>2. Made(nodes', Parts') /\ <<i>>[1] = i
        BY <1>3 DEF Joined
      <4> QED BY <2>1, <4>1, <4>2 DEF Made
    <3>2. 1..i \subseteq 1..n
      BY ONLY <2>1
    <3> QED BY <2>2, <2>3, <3>1, <3>2 DEF Whole
  <2>6. ASSUME stable PROVE Kept(n)'
    <3>1. mb2[id].end = TheEnd \/ kind = "Reshape" \/ id \notin DOMAIN mb2
      BY <1>9, <2>6 DEF Lengthened
    <3> QED BY <1>5, <2>1, <3>1 DEF Kept, IsKind, TheEnd
  <2>7. \A j \in Here : Apart(j, n)' /\ Apart(n, j)'
    BY <2>1 DEF Apart, IsKind
  <2> QED BY <2>4, <2>5, <2>6, <2>7 DEF Fits
<1>14. PlaceInv' /\ ApartInv' /\ PartsInv' /\ StableInv'
  BY <1>3, <1>4, <1>11, <1>13, NodeFits DEF Aliased, AddNode
<1>15. UseInv' /\ ReleaseInv'
  BY NotYetRead DEF Aliased, AddNode
<1> QED BY <1>3, <1>12, <1>14, <1>15

(* extractReshapeTensors leaves the buffers as they are.                   *)
LEMMA ReshapeKeeps ==
  ASSUME ExtractorAssumption, PlanInv, NEW i \in Sources, extractReshapeTensors(i)
  PROVE  PlanInv'
<1>1. i \in Here
  BY DEF Sources, Here
<1>2. \A b \in DOMAIN mutable_buffers :
         mutable_buffers[b] \in Chunk /\ mutable_buffers[b].end <= TheEnd
         /\ mutable_buffers[b].end <= mutable_buffers[b].end
  <2>1. \A b \in DOMAIN mutable_buffers : mutable_buffers[b].end \in Nat
    BY DEF PlanInv, TensorInv, Chunk
  <2>2. \A b \in DOMAIN mutable_buffers : mutable_buffers[b].end <= mutable_buffers[b].end
    BY <2>1
  <2> QED BY <2>2 DEF PlanInv, TensorInv
<1>3. Aliased("Reshape", i)
  BY <1>2 DEF Aliased, Lengthened, extractReshapeTensors
<1> QED BY <1>1, <1>3, TensorAliased

(* extractResultTensors may keep one to the end.                           *)
LEMMA ResultKeeps ==
  ASSUME ExtractorAssumption, PlanInv, NEW i \in Sources, extractResultTensors(i)
  PROVE  PlanInv'
<1>. DEFINE id == tensor_names[i]
            mb == mutable_buffers
            mb2 == mutable_buffers'
<1>1. i \in Here
  BY DEF Sources, Here
<1>2. /\ ~stable \/ id \in DOMAIN mb
      /\ mb2 = IF stable THEN [mb EXCEPT ![id].end = TheEnd] ELSE mb
  BY DEF extractResultTensors
<1>3. \A b \in DOMAIN mb : /\ mb[b] \in Chunk /\ mb[b].end <= TheEnd /\ mb[b].end \in Nat
                           /\ mb[b].end <= mb[b].end
  <2>1. \A b \in DOMAIN mb : mb[b] \in Chunk /\ mb[b].end <= TheEnd /\ mb[b].end \in Nat
    BY DEF PlanInv, TensorInv, Chunk
  <2>2. \A b \in DOMAIN mb : mb[b].end <= mb[b].end
    BY <2>1
  <2> QED BY <2>1, <2>2
<1>4. TheEnd \in Nat /\ TheEnd <= TheEnd
  BY DEF TheEnd, ExtractorAssumption
<1>5. Lengthened("Result", id)
  <2>1. CASE ~stable
    BY <1>2, <1>3, <2>1 DEF Lengthened
  <2>2. CASE stable
    <3>. HIDE DEF id, mb, mb2
    <3>1. DOMAIN mb2 = DOMAIN mb /\ \A b \in DOMAIN mb : b # id => mb2[b] = mb[b]
      BY <1>2, <2>2
    <3>2. id \in DOMAIN mb /\ mb2[id] = [mb[id] EXCEPT !.end = TheEnd]
      BY <1>2, <2>2
    <3>3. mb2[id] \in Chunk /\ mb2[id].start = mb[id].start
          /\ mb2[id].size = mb[id].size /\ mb2[id].end = TheEnd
      BY <1>3, <1>4, <3>2 DEF Chunk
    <3> QED BY <1>3, <1>4, <3>1, <3>2, <3>3 DEF Lengthened, mb, mb2
  <2> QED BY <2>1, <2>2
<1>6. Aliased("Result", i)
  BY <1>5 DEF Aliased, extractResultTensors
<1> QED BY <1>1, <1>6, TensorAliased

-----------------------------------------------------------------------------
(* Concats.                                                                *)

(* std::max and std::max_element.                                          *)
LEMMA MaxFound ==
  ASSUME NEW T \in SUBSET Nat, T # {}, NEW n \in Nat, \A x \in T : x <= n
  PROVE  Max(T) \in T /\ \A y \in T : y <= Max(T)
<1>1. \E x \in T : \A y \in T : y <= x
  BY Greatest
<1>2. \E x \in T : \A y \in T : x >= y
  <2>1. \A x, y \in T : y <= x <=> x >= y
    OBVIOUS
  <2> QED BY <1>1, <2>1
<1>3. Max(T) \in T /\ \A y \in T : Max(T) >= y
  BY <1>2 DEF Max
<1>4. \A y \in T : Max(T) >= y => y <= Max(T)
  BY <1>3
<1> QED BY <1>3, <1>4

(* std::min.                                                               *)
LEMMA MinFound ==
  ASSUME NEW T \in SUBSET Nat, T # {}
  PROVE  Min(T) \in T /\ \A y \in T : Min(T) <= y
BY Least DEF Min

(* The children of a Concat, and where they go.                            *)
Children(inputs) == {tensor_names[inputs[k]] : k \in 1..Len(inputs)}
Uses(inputs, t) == {k \in 1..Len(inputs) : tensor_names[inputs[k]] = t}
Place(inputs) == [c \in Children(inputs) |-> SizeOf(nodes, inputs, Max(Uses(inputs, c)) - 1)]

(* The tensor with number k of a Concat is a region of it.                 *)
Regions(inputs) ==
    LET S(k) == SizeOf(nodes, inputs, k)
        L == Len(inputs) IN
    /\ Children(inputs) \subseteq DOMAIN mutable_buffers
    /\ Children(inputs) \subseteq Roots /\ Children(inputs) \subseteq Ids
    /\ Place(inputs) \in [Children(inputs) -> Nat]
    /\ \A c \in Children(inputs) : \E k \in 1..L :
          /\ tensor_names[inputs[k]] = c /\ Place(inputs)[c] = S(k - 1)
          /\ k = Max(Uses(inputs, c))
    /\ \A k \in 1..L :
          /\ inputs[k] \in Here
          /\ mutable_buffers[tensor_names[inputs[k]]].size = nodes[inputs[k]].size
          /\ S(k) = S(k - 1) + nodes[inputs[k]].size /\ S(k) <= S(L)
          /\ S(k) \in Nat /\ S(k - 1) \in Nat
    /\ \A j, k \in 1..L : j < k => S(j) <= S(k - 1)
    /\ S(L) \in Nat /\ L \in Nat \ {0}

(* The offsets that mergeConcatMutableTensors gives are sums of sizes, so  *)
(* that no two tensors overlap.                                            *)
LEMMA RegionsFound ==
  ASSUME ExtractorAssumption, GraphInv, TensorInv, PlaceInv, NEW inputs \in Lists,
         Mergeable(TensorsOf(inputs))
  PROVE  Regions(inputs)
<1>. DEFINE S(k) == SizeOf(nodes, inputs, k)
            L == Len(inputs)
            C == Children(inputs)
            at == Place(inputs)
            id(k) == tensor_names[inputs[k]]
<1>1. Reads(nodes, inputs) /\ L \in Nat \ {0} /\ DOMAIN inputs = 1..L
  BY ListsRead
<1>2. \A k \in 1..L : inputs[k] \in Here
  BY <1>1 DEF Reads, Here
<1>3. nodes \in Seq(Node) /\ Added(nodes, inputs)
  BY <1>1, SizesAdded DEF GraphInv, Graph
<1>4. \A k \in 1..L : k \in 0..L /\ k - 1 \in 0..L /\ k <= L /\ \A j \in 1..L : j < k => j <= k - 1
  BY ONLY <1>1
<1>5. L \in 0..L /\ S(L) \in Nat
  <2>1. L \in 0..L
    BY ONLY <1>1
  <2> QED BY <1>3, <2>1 DEF Added
<1>6. \A k \in 1..L : /\ S(k) = S(k - 1) + nodes[inputs[k]].size /\ S(k) <= S(L)
                      /\ S(k) \in Nat /\ S(k - 1) \in Nat
  BY <1>3, <1>4, <1>5 DEF Added
<1>7. \A j, k \in 1..L : j < k => S(j) <= S(k - 1)
  BY <1>3, <1>4 DEF Added
<1>8. \A k \in 1..L : id(k) \in DOMAIN mutable_buffers
  BY <1>1 DEF Mergeable, TensorsOf
<1>9. \A k \in 1..L : mutable_buffers[id(k)].size = nodes[inputs[k]].size
  BY <1>2, <1>8 DEF PlaceInv, Placed
<1>10. C \subseteq DOMAIN mutable_buffers /\ C \subseteq Roots /\ C \subseteq Ids
  <2>1. C \subseteq DOMAIN mutable_buffers
    BY <1>8 DEF Children
  <2> QED BY <2>1 DEF TensorInv, Roots
<1>11. ASSUME NEW c \in C
       PROVE  \E k \in 1..L : id(k) = c /\ at[c] = S(k - 1) /\ k = Max(Uses(inputs, c))
  <2>. DEFINE T == Uses(inputs, c)
              k == Max(T)
  <2>1. T # {} /\ T \in SUBSET Nat /\ \A x \in T : x <= L
    <3>1. T # {} /\ T \subseteq 1..L
      BY DEF Children, Uses
    <3>2. \A x \in 1..L : x \in Nat /\ x <= L
      BY ONLY <1>1
    <3> QED BY <3>1, <3>2
  <2>2. k \in T
    <3>1. L \in Nat
      BY <1>1
    <3>. HIDE DEF T, L
    <3> QED BY <2>1, <3>1, MaxFound
  <2>3. k \in 1..L /\ id(k) = c
    BY <2>2 DEF Uses
  <2>4. at[c] = S(k - 1)
    BY DEF Place
  <2> QED BY <2>3, <2>4
<1>12. at \in [C -> Nat]
  <2>1. \A c \in C : at[c] \in Nat
    <3>. HIDE DEF at, C, S
    <3> QED BY <1>6, <1>11
  <2>2. at = [c \in C |-> at[c]]
    BY DEF Place
  <2>. HIDE DEF at, C
  <2> QED BY <2>1, <2>2
<1> QED BY <1>1, <1>2, <1>5, <1>6, <1>7, <1>9, <1>10, <1>11, <1>12 DEF Regions

(* The tensors and the buffers after a merge.                              *)
LEMMA MergeMoves ==
  ASSUME ExtractorAssumption, GraphInv, TensorInv, NEW inputs \in Lists,
         Regions(inputs), NEW start, Merge(inputs, start)
  PROVE  /\ NewRoot(tensors', tensors, Children(inputs), Place(inputs))
         /\ mutable_buffers' =
              [b \in (DOMAIN mutable_buffers \ Children(inputs)) \cup {next_buffer_id} |->
                 IF b = next_buffer_id
                 THEN [start |-> start, end |-> here, size |-> TotalSize(inputs)]
                 ELSE mutable_buffers[b]]
<1>. DEFINE C == Children(inputs)
            at == Place(inputs)
            new == Len(tensors) + 1
            ts == SetParents(inputs, new)
            T == Len(tensors)
<1>1. DOMAIN inputs = 1..Len(inputs)
  BY ListsRead
<1>2. tensors \in Seq(TensorID) /\ T \in Nat /\ DOMAIN tensors = 1..T /\ new \in Nat
  BY DEF TensorInv, Forest
<1>3. C \subseteq Roots /\ at \in [C -> Nat]
  BY DEF Regions
<1>4. ASSUME NEW t \in 1..T
      PROVE  ts[t] = IF t \in C THEN [parent |-> new, offset |-> at[t]] ELSE tensors[t]
  <2>. DEFINE U == {k \in DOMAIN inputs : tensor_names[inputs[k]] = t}
  <2>1. U = Uses(inputs, t)
    BY <1>1 DEF Uses
  <2>2. U = {} <=> t \notin C
    BY <2>1 DEF Uses, Children
  <2>3. ts[t] = IF U = {} THEN tensors[t]
                ELSE [parent |-> new, offset |-> SizeOf(nodes, inputs, Max(U) - 1)]
    BY <1>2 DEF SetParents
  <2>4. t \in C => at[t] = SizeOf(nodes, inputs, Max(U) - 1)
    BY <2>1 DEF Place
  <2>. HIDE DEF U, at, C
  <2> QED BY <2>2, <2>3, <2>4
<1>5. ts \in Seq(TensorID) /\ Len(ts) = T
  <2>1. \A t \in 1..T : ts[t] \in TensorID
    <3> SUFFICES ASSUME NEW t \in 1..T PROVE ts[t] \in TensorID
      OBVIOUS
    <3>1. tensors[t] \in TensorID
      BY <1>2
    <3>2. t \in C => [parent |-> new, offset |-> at[t]] \in TensorID
      <4>1. t \in C => at[t] \in Nat
        BY <1>3
      <4> QED BY <1>2, <4>1 DEF TensorID
    <3> QED BY <1>4, <3>1, <3>2
  <2>2. ts = [t \in 1..T |-> ts[t]]
    BY <1>2 DEF SetParents
  <2>. HIDE DEF ts
  <2>3. ts \in [1..T -> TensorID]
    BY <2>1, <2>2
  <2> QED BY ONLY <1>2, <2>3
<1>6. tensors' = Append(ts, [parent |-> Null, offset |-> 0])
  BY DEF Merge, next_buffer_id
<1>7. [parent |-> Null, offset |-> 0] \in TensorID
  BY DEF TensorID
<1>8. /\ tensors' \in Seq(TensorID) /\ Len(tensors') = T + 1
      /\ \A t \in 1..T : tensors'[t] = ts[t]
      /\ tensors'[T + 1] = [parent |-> Null, offset |-> 0]
  <2>. HIDE DEF ts
  <2> QED BY ONLY <1>2, <1>5, <1>6, <1>7
<1>9. NewRoot(tensors', tensors, C, at)
  <2>1. C \subseteq {t \in 1..Len(tensors) : tensors[t].parent = Null}
    BY <1>3 DEF Roots, Ids
  <2>. HIDE DEF C, at, ts
  <2> QED BY <1>3, <1>4, <1>8, <2>1 DEF NewRoot
<1>10. ToSet(TensorsOf(inputs)) = C
  <2>1. DOMAIN TensorsOf(inputs) = 1..Len(inputs)
    BY <1>1 DEF TensorsOf
  <2>2. \A k \in 1..Len(inputs) : TensorsOf(inputs)[k] = tensor_names[inputs[k]]
    BY <1>1 DEF TensorsOf
  <2> QED BY <2>1, <2>2 DEF ToSet, Children
<1>11. mutable_buffers' =
         WithBuffer(Restrict(mutable_buffers, DOMAIN mutable_buffers \ C), start, here,
                    TotalSize(inputs))
  BY <1>10 DEF Merge
<1>12. mutable_buffers' =
         [b \in (DOMAIN mutable_buffers \ C) \cup {next_buffer_id} |->
            IF b = next_buffer_id
            THEN [start |-> start, end |-> here, size |-> TotalSize(inputs)]
            ELSE mutable_buffers[b]]
  <2>. DEFINE D == DOMAIN mutable_buffers \ C
              chunk == [start |-> start, end |-> here, size |-> TotalSize(inputs)]
  <2>1. DOMAIN Restrict(mutable_buffers, D) = D
        /\ \A b \in D : Restrict(mutable_buffers, D)[b] = mutable_buffers[b]
    BY DEF Restrict
  <2>2. mutable_buffers' =
          [b \in DOMAIN Restrict(mutable_buffers, D) \cup {next_buffer_id} |->
             IF b = next_buffer_id THEN chunk ELSE Restrict(mutable_buffers, D)[b]]
    BY <1>11 DEF WithBuffer
  <2>. HIDE DEF D, chunk
  <2>3. mutable_buffers' = [b \in D \cup {next_buffer_id} |->
             IF b = next_buffer_id THEN chunk ELSE mutable_buffers[b]]
    BY <2>1, <2>2
  <2> QED BY <2>3 DEF D, chunk
<1> QED BY <1>9, <1>12

(* mergeConcatMutableTensors keeps the invariant.                          *)
LEMMA MergeKeeps ==
  ASSUME ExtractorAssumption, PlanInv, NEW inputs \in Lists, mergeConcatMutableTensors(inputs)
  PROVE  PlanInv'
<1>. USE DEF PlanInv
<1>. DEFINE mb == mutable_buffers
            mb2 == mutable_buffers'
            new == next_buffer_id
            C == Children(inputs)
            at == Place(inputs)
            L == Len(inputs)
            id(k) == tensor_names[inputs[k]]
            S(k) == SizeOf(nodes, inputs, k)
            size == TotalSize(inputs)
            start == Min({mb[b].start : b \in ToSet(TensorsOf(inputs))})
<1>1. PICK n : n = here
  OBVIOUS
<1>2. Homes
  BY HomesFound
<1>3. Reads(nodes, inputs) /\ L \in Nat \ {0} /\ DOMAIN inputs = 1..L
  BY ListsRead
<1>4. Regions(inputs)
  BY RegionsFound DEF mergeConcatMutableTensors
<1>5. /\ C \subseteq DOMAIN mb /\ C \subseteq Roots /\ C \subseteq Ids
      /\ at \in [C -> Nat] /\ \A c \in C : at[c] \in Nat
      /\ \A k \in 1..L : id(k) \in C
  BY <1>4 DEF Regions, Children
<1>6. size = S(L) /\ size \in Nat
  BY <1>4 DEF Regions, TotalSize
<1>7. AddNode("Concat", inputs, size) /\ Merge(inputs, start)
  BY DEF mergeConcatMutableTensors, Merge
<1>8. Joins("Concat", inputs, size)
  BY <1>3, <1>6 DEF Joins, Kinds
<1>9. GraphInv' /\ Joined("Concat", inputs, size)
  BY <1>7, <1>8, NodeJoins
<1>10. NewRoot(tensors', tensors, C, at)
  BY <1>4, <1>7, MergeMoves
<1>11. RootAdded(n, C, at)
  BY <1>1, <1>7, <1>10, TensorAdded DEF Merge
<1>12. /\ Ids' = Ids \cup {new} /\ new \notin Ids /\ new \notin DOMAIN mb
       /\ new \notin immutable_buffers
  BY <1>11 DEF RootAdded, TensorInv, Roots
<1>. DEFINE chunk == [start |-> start, end |-> here, size |-> size]
<1>13. /\ DOMAIN mb2 = ((DOMAIN mb) \ C) \cup {new}
       /\ \A b \in (DOMAIN mb) \ C : mb2[b] = mb[b]
       /\ mb2[new] = chunk
  <2>1. mb2 = [b \in ((DOMAIN mb) \ C) \cup {new} |-> IF b = new THEN chunk ELSE mb[b]]
    BY <1>4, <1>7, MergeMoves
  <2>. HIDE DEF mb2, chunk, C, mb, new
  <2> QED BY <1>12, <2>1
<1>14. start \in Nat /\ 1 <= start /\ start <= here /\ \A c \in C : start <= mb[c].start
  <2>. DEFINE V == {mb[b].start : b \in ToSet(TensorsOf(inputs))}
  <2>1. ToSet(TensorsOf(inputs)) = C
    <3>1. DOMAIN TensorsOf(inputs) = 1..L
          /\ \A k \in 1..L : TensorsOf(inputs)[k] = id(k)
      BY <1>3 DEF TensorsOf
    <3> QED BY <3>1 DEF ToSet, Children
  <2>2. \A b \in C : mb[b].start \in Nat /\ 1 <= mb[b].start
    BY <1>5 DEF TensorInv, Chunk
  <2>3. 1 \in 1..L
    BY ONLY <1>3
  <2>4. id(1) \in C
    BY <1>5, <2>3
  <2>5. V \in SUBSET Nat /\ V # {}
    BY <2>1, <2>2, <2>4
  <2>6. start \in V /\ \A v \in V : start <= v
    <3>. HIDE DEF V
    <3> QED BY <2>5, MinFound DEF V
  <2>7. start \in Nat /\ 1 <= start /\ \A c \in C : start <= mb[c].start
    BY <2>1, <2>2, <2>6
  <2>8. mb[id(1)].start <= inputs[1] /\ inputs[1] \in Nat /\ inputs[1] < here /\ here \in Nat
    <3>1. inputs[1] \in Here
      BY <1>4, <2>3 DEF Regions
    <3>2. Buffer(inputs[1]) = id(1)
      BY <1>2, <1>5, <2>4, <3>1 DEF Homes
    <3>3. mb[id(1)].start <= inputs[1]
      BY <1>5, <2>4, <3>1, <3>2 DEF PlaceInv, Placed
    <3> QED BY <1>9, <3>1, <3>3 DEF Joined
  <2>9. start <= mb[id(1)].start /\ mb[id(1)].start \in Nat
    BY <2>2, <2>4, <2>7
  <2>. HIDE DEF start, mb
  <2>10. start <= here
    BY ONLY <2>7, <2>8, <2>9
  <2> QED BY <2>7, <2>10
<1>. HIDE DEF start
<1>15. here \in Nat /\ here <= TheEnd /\ here <= here /\ size <= size
  <2>1. here \in Nat /\ here <= NumNodes /\ NumNodes \in Nat
    BY <1>9 DEF Joined, ExtractorAssumption
  <2>2. TheEnd = NumNodes + 1
    BY DEF TheEnd
  <2> QED BY ONLY <1>6, <2>1, <2>2
<1>16. /\ chunk \in Chunk /\ mb2[new].start = start /\ mb2[new].end = here
       /\ mb2[new].size = size
  BY <1>6, <1>13, <1>14, <1>15 DEF Chunk
<1>. HIDE DEF chunk
<1>17. Rebuilt(C, at)
  <2>1. \A b \in (DOMAIN mb) \ C : /\ b \in DOMAIN mb2 /\ mb2[b].start = mb[b].start
                                   /\ mb2[b].size = mb[b].size /\ mb[b].end <= mb2[b].end
    <3>1. \A b \in DOMAIN mb : mb[b].end \in Nat
      BY DEF TensorInv, Chunk
    <3>2. \A b \in DOMAIN mb : mb[b].end <= mb[b].end
      BY <3>1
    <3> QED BY <1>13, <3>2
  <2>2. ASSUME NEW b \in DOMAIN mb2
        PROVE  mb2[b] \in Chunk /\ 1 <= mb2[b].start /\ mb2[b].start <= mb2[b].end
               /\ mb2[b].end <= TheEnd
    <3>1. CASE b \in (DOMAIN mb) \ C
      BY <1>13, <3>1 DEF TensorInv
    <3>2. CASE b = new
      BY <1>13, <1>14, <1>15, <1>16, <3>2
    <3> QED BY <1>13, <3>1, <3>2
  <2>3. ASSUME NEW c \in C PROVE at[c] + mb[c].size <= size
    <3>1. PICK k \in 1..L : id(k) = c /\ at[c] = S(k - 1)
      BY <1>4 DEF Regions
    <3>2. mb[c].size = nodes[inputs[k]].size /\ S(k) = S(k - 1) + nodes[inputs[k]].size
          /\ S(k) <= S(L)
      BY <1>4, <3>1 DEF Regions
    <3> QED BY <1>6, <3>1, <3>2
  <2>4. ASSUME NEW c \in C, NEW d \in C, c # d
        PROVE  at[c] + mb[c].size <= at[d] \/ at[d] + mb[d].size <= at[c]
    <3>1. PICK j \in 1..L : id(j) = c /\ at[c] = S(j - 1)
      BY <1>4 DEF Regions
    <3>2. PICK k \in 1..L : id(k) = d /\ at[d] = S(k - 1)
      BY <1>4 DEF Regions
    <3>3. /\ mb[c].size = nodes[inputs[j]].size /\ S(j) = S(j - 1) + nodes[inputs[j]].size
          /\ mb[d].size = nodes[inputs[k]].size /\ S(k) = S(k - 1) + nodes[inputs[k]].size
      BY <1>4, <3>1, <3>2 DEF Regions
    <3>4. at[c] + mb[c].size = S(j) /\ at[d] + mb[d].size = S(k)
      BY <3>1, <3>2, <3>3
    <3>5. j < k \/ k < j
      <4>1. j # k
        BY <2>4, <3>1, <3>2
      <4> QED BY ONLY <4>1, j \in 1..L, k \in 1..L
    <3>6. j < k => S(j) <= S(k - 1)
      BY <1>4 DEF Regions
    <3>7. k < j => S(k) <= S(j - 1)
      BY <1>4 DEF Regions
    <3> QED BY <3>1, <3>2, <3>4, <3>5, <3>6, <3>7
  <2>5. immutable_buffers' = immutable_buffers
    BY <1>7 DEF Merge
  <2>. HIDE DEF mb, mb2, C, at, new, size
  <2>6. /\ C \subseteq DOMAIN mb /\ at \in [C -> Nat]
        /\ DOMAIN mb2 \subseteq ((DOMAIN mb) \ C) \cup {new} /\ new \in DOMAIN mb2
    BY <1>5, <1>13
  <2>7. \A c \in C : mb2[new].end = here /\ mb2[new].start <= mb[c].start
                     /\ at[c] + mb[c].size <= mb2[new].size
    BY <1>14, <1>16, <2>3
  <2> QED BY <2>1, <2>2, <2>4, <2>5, <2>6, <2>7 DEF Rebuilt, mb, mb2, new
<1>18. Undisturbed
  BY <1>9, <1>11, <1>17, EarlierNodes DEF RootAdded
<1>19. TensorInv'
  <2>1. immutable_buffers' = immutable_buffers
    BY <1>7 DEF Merge
  <2>2. Roots = (DOMAIN mb) \cup immutable_buffers /\ (DOMAIN mb) \cap immutable_buffers = {}
    BY DEF TensorInv
  <2>3. Roots' = (Roots \ C) \cup {new}
    BY <1>11 DEF RootAdded
  <2>4. (DOMAIN mb2) \cup immutable_buffers' = Roots'
    <3>. HIDE DEF mb, mb2, C, new
    <3> QED BY <1>5, <1>13, <2>1, <2>2, <2>3
  <2>5. (DOMAIN mb2) \cap immutable_buffers' = {}
    <3>. HIDE DEF mb, mb2, C, new
    <3> QED BY <1>12, <1>13, <2>1, <2>2
  <2> QED BY <1>1, <1>9, <1>11, <1>17, <2>4, <2>5, TensorsStay
<1>20. Fits(n)
  <2>1. /\ nodes'[n].kind = "Concat" /\ nodes'[n].size = size /\ nodes'[n].inputs = inputs
        /\ n \in Nat \ {0}
    BY <1>1, <1>9 DEF Joined
  <2>2. tensor_names'[n] = new /\ Buffer(n)' = new /\ Offset(n)' = 0
    BY <1>11 DEF RootAdded
  <2>3. Placed(n)'
    <3>1. mb2[new].start <= n /\ 0 + size <= mb2[new].size
      BY <1>1, <1>6, <1>14, <1>15, <1>16
    <3> QED BY <1>16, <2>1, <2>2, <3>1 DEF Placed, IsKind
  <2>4. ASSUME NEW w \in Parts'[n]
        PROVE  /\ w[1] \in 1..n /\ w[2] \in Nat
               /\ IsKind(w[1], {"Parameter", "Constant", "Op"})'
               /\ ~AliasesMerged' => Buffer(w[1])' = new /\ Offset(w[1])' = 0 + w[2]
    <3>1. PICK k \in 1..L : \E v \in Parts[inputs[k]] : w = <<v[1], v[2] + S(k - 1)>>
      <4>1. n \in 1..Len(nodes')
        BY <1>1, <1>9, <2>1 DEF Joined
      <4>2. Made(nodes', Parts')
        BY <1>9 DEF Joined
      <4>3. Parts'[n] =
              UNION {{<<v[1], v[2] + SizeOf(nodes', inputs, j - 1)>> :
                        v \in Parts'[inputs[j]]} : j \in 1..L}
        <5>1. Parts'[n] =
                UNION {{<<v[1], v[2] + SizeOf(nodes', nodes'[n].inputs, j - 1)>> :
                        v \in Parts'[nodes'[n].inputs[j]]} : j \in 1..Len(nodes'[n].inputs)}
          BY <2>1, <4>1, <4>2 DEF Made
        <5>. HIDE DEF size, S
        <5> QED BY <2>1, <5>1
      <4>4. PICK j \in 1..L : \E v \in Parts'[inputs[j]] :
                w = <<v[1], v[2] + SizeOf(nodes', inputs, j - 1)>>
        BY <4>3
      <4>5. SizeOf(nodes', inputs, j - 1) = S(j - 1)
        <5>1. nodes \in Seq(Node) /\ nodes' \in Seq(Node)
          BY <1>9 DEF GraphInv, Graph
        <5>2. Extends(nodes', nodes)
          BY <1>9 DEF Joined, Extends, Here, here
        <5>3. SameSizes(nodes', nodes, inputs)
          BY <1>3, <5>1, <5>2, SizesKept
        <5>4. j - 1 \in 0..L
          BY ONLY <1>3, j \in 1..L
        <5> QED BY <5>3, <5>4 DEF SameSizes
      <4>6. Parts'[inputs[j]] = Parts[inputs[j]]
        BY <1>4, <1>9 DEF Regions, Joined
      <4> QED BY <4>4, <4>5, <4>6
    <3>2. PICK v \in Parts[inputs[k]] : w = <<v[1], v[2] + S(k - 1)>>
      BY <3>1
    <3>. DEFINE i == inputs[k]
                m == v[1]
    <3>3. /\ i \in Here /\ i \in Nat /\ i < n /\ Parts'[i] = Parts[i] /\ S(k - 1) \in Nat
          /\ w[1] = m /\ w[2] = v[2] + S(k - 1)
      BY <1>1, <1>4, <1>9, <3>2 DEF Regions, Joined
    <3>4. /\ m \in 1..i /\ v[2] \in Nat
          /\ IsKind(m, {"Parameter", "Constant", "Op"})'
          /\ ~AliasesMerged' => Buffer(m)' = Buffer(i)' /\ Offset(m)' = Offset(i)' + v[2]
      BY <1>18, <3>3 DEF Undisturbed, Whole
    <3>5. /\ id(k) \in C /\ id(k) \in Roots
      BY <1>5
    <3>6. Buffer(i) = id(k) /\ Offset(i) = 0
      BY <1>2, <3>3, <3>5 DEF Homes
    <3>7. Buffer(i)' = new /\ Offset(i)' = 0 + at[id(k)]
      BY <1>11, <3>3, <3>5, <3>6 DEF RootAdded, Changes
    <3>8. ASSUME ~AliasesMerged' PROVE at[id(k)] = S(k - 1)
      <4>1. IsInjective(TensorsOf(inputs)')
        <5>1. n \in 1..Len(nodes')
          BY <1>1, <1>9, <2>1 DEF Joined
        <5>2. IsKind(n, {"Concat"})'
          BY <2>1 DEF IsKind
        <5>3. IsInjective(TensorsOf(nodes[n].inputs)')
          BY <3>8, <5>1, <5>2 DEF AliasesMerged
        <5> QED BY <2>1, <5>3 DEF TensorsOf
      <4>2. PICK j \in 1..L : id(j) = id(k) /\ at[id(k)] = S(j - 1)
        BY <1>4, <3>5 DEF Regions
      <4>3. \A x \in 1..L : tensor_names'[inputs[x]] = id(x)
        BY <1>4, <1>11 DEF Regions, RootAdded, Changes
      <4>4. j = k
        <5>1. DOMAIN TensorsOf(inputs)' = 1..L
              /\ \A x \in 1..L : TensorsOf(inputs)'[x] = id(x)
          BY <1>3, <4>3 DEF TensorsOf
        <5> QED BY <4>1, <4>2, <5>1 DEF IsInjective
      <4> QED BY <4>2, <4>4
    <3>9. m \in 1..n /\ v[2] + S(k - 1) \in Nat
      <4>. HIDE DEF m, i, S
      <4> QED BY <2>1, <3>3, <3>4
    <3>10. ASSUME ~AliasesMerged'
           PROVE  Buffer(m)' = new /\ Offset(m)' = 0 + (v[2] + S(k - 1))
      <4>1. Offset(m)' = (0 + S(k - 1)) + v[2]
        BY <3>4, <3>7, <3>8, <3>10
      <4>2. (0 + S(k - 1)) + v[2] = 0 + (v[2] + S(k - 1))
        <5>1. S(k - 1) \in Nat /\ v[2] \in Nat
          BY <3>3, <3>4
        <5>. HIDE DEF S
        <5> QED BY ONLY <5>1
      <4>3. Buffer(m)' = new
        BY <3>4, <3>7, <3>10
      <4> QED BY <4>1, <4>2, <4>3
    <3> QED BY <3>3, <3>4, <3>9, <3>10
  <2>5. Whole(n)'
    BY <2>2, <2>4 DEF Whole
  <2>6. Kept(n)'
    BY <2>1 DEF Kept, IsKind
  <2>7. \A i \in Here : Apart(i, n)' /\ Apart(n, i)'
    BY <2>1 DEF Apart, IsKind
  <2> QED BY <2>3, <2>5, <2>6, <2>7 DEF Fits
<1>21. PlaceInv' /\ ApartInv' /\ PartsInv' /\ StableInv'
  BY <1>1, <1>7, <1>9, <1>18, <1>20, NodeFits DEF AddNode
<1>22. UseInv' /\ ReleaseInv'
  BY <1>7, NotYetRead DEF Merge, AddNode
<1> QED BY <1>9, <1>19, <1>21, <1>22

-----------------------------------------------------------------------------
(* Every step keeps the invariant.                                         *)

(* extractParameterTensors keeps the invariant.                            *)
LEMMA ParameterKeeps ==
  ASSUME ExtractorAssumption, PlanInv, NEW s \in Sizes, extractParameterTensors(s)
  PROVE  PlanInv'
<1>. DEFINE end == IF stable THEN TheEnd ELSE here
<1>1. s \in Nat
  BY DEF Sizes, ExtractorAssumption
<1>2. Reads(nodes, <<>>)
  BY DEF Reads
<1>3. Joins("Parameter", <<>>, s)
  BY <1>1, <1>2 DEF Joins, Kinds, extractParameterTensors, Here
<1>4. AddNode("Parameter", <<>>, s) /\ Fresh("Parameter", end, s)
  BY DEF extractParameterTensors, Fresh
<1>. HIDE DEF end
<1> QED BY <1>3, <1>4, FreshTensor

(* extractImmutableTensors keeps the invariant.                            *)
LEMMA ConstantKeeps ==
  ASSUME ExtractorAssumption, PlanInv, extractImmutableTensors
  PROVE  PlanInv'
<1>1. Reads(nodes, <<>>)
  BY DEF Reads
<1>2. Joins("Constant", <<>>, 1)
  BY <1>1 DEF Joins, Kinds
<1>3. AddNode("Constant", <<>>, 1) /\ Fresh("Constant", here, 1)
  BY DEF extractImmutableTensors, Fresh
<1> QED BY <1>2, <1>3, FreshTensor

(* extractMutableTensors keeps the invariant.                              *)
LEMMA OperationKeeps ==
  ASSUME ExtractorAssumption, PlanInv, NEW inputs \in Lists, NEW s \in Sizes,
         extractMutableTensors(inputs, s)
  PROVE  PlanInv'
<1>1. s \in Nat
  BY DEF Sizes, ExtractorAssumption
<1>2. Reads(nodes, inputs)
  BY ListsRead DEF PlanInv
<1>3. Joins("Op", inputs, s)
  BY <1>1, <1>2 DEF Joins, Kinds
<1>4. AddNode("Op", inputs, s) /\ Fresh("Op", here, s)
  BY DEF extractMutableTensors, Fresh
<1> QED BY <1>3, <1>4, FreshTensor

(* A step that leaves the graph and its tensors as they are.               *)
SameGraph ==
    UNCHANGED <<stable, nodes, tensor_names, tensors, immutable_buffers>>
Same ==
    /\ Here' = Here /\ Ids' = Ids /\ Roots' = Roots /\ Parts' = Parts
    /\ AliasesMerged' = AliasesMerged
    /\ \A i : Buffer(i)' = Buffer(i) /\ Offset(i)' = Offset(i)
    /\ \A b : UsersOf(b)' = UsersOf(b)
    /\ \A i, kinds : IsKind(i, kinds)' = IsKind(i, kinds)
    /\ TheEnd' = TheEnd

(* All that is computed from the graph is the same.                        *)
LEMMA GraphStays ==
  ASSUME SameGraph
  PROVE  Same
<1>1. /\ nodes' = nodes /\ tensor_names' = tensor_names /\ tensors' = tensors
  BY DEF SameGraph
<1>2. Here' = Here /\ Ids' = Ids /\ Roots' = Roots /\ Parts' = Parts /\ TheEnd' = TheEnd
  BY <1>1 DEF Here, Ids, Roots, Parts, TheEnd
<1>3. \A i : Buffer(i)' = Buffer(i) /\ Offset(i)' = Offset(i)
  BY <1>1 DEF Buffer, Offset, GetBuffer, GetOffset
<1>4. \A b : UsersOf(b)' = UsersOf(b)
  BY <1>1 DEF UsersOf, Buffer, GetBuffer, Inputs
<1>5. \A i, kinds : IsKind(i, kinds)' = IsKind(i, kinds)
  BY <1>1 DEF IsKind
<1>6. AliasesMerged' = AliasesMerged
  BY <1>1 DEF AliasesMerged, IsKind, TensorsOf
<1> QED BY <1>2, <1>3, <1>4, <1>5, <1>6 DEF Same

(* A graph that is refused stays as it is.                                 *)
LEMMA RefusalKeeps ==
  ASSUME PlanInv, Refuse
  PROVE  PlanInv'
<1>1. /\ phase = "extract" /\ phase' = "refused" /\ SameGraph
      /\ UNCHANGED <<mutable_buffers, release>>
  BY DEF Refuse, SameGraph
<1>2. Same
  BY <1>1, GraphStays
<1>3. GraphInv'
  BY <1>1, <1>2 DEF PlanInv, GraphInv, Phases, SameGraph, Same
<1>4. TensorInv'
  BY <1>1, <1>2 DEF PlanInv, TensorInv, SameGraph, Same
<1>5. PlaceInv' /\ ApartInv' /\ StableInv' /\ PartsInv'
  BY <1>1, <1>2 DEF PlanInv, PlaceInv, Placed, ApartInv, Apart, StableInv, Kept, PartsInv, Whole,
                    SameGraph, Same
<1>6. UseInv' /\ ReleaseInv'
  BY <1>1, NotYetRead DEF PlanInv
<1> QED BY <1>3, <1>4, <1>5, <1>6 DEF PlanInv

(* A buffer lives until its last user.                                     *)
Extended ==
    LET mb == mutable_buffers IN
    /\ DOMAIN mutable_buffers' = DOMAIN mb
    /\ \A b \in DOMAIN mb :
          /\ mutable_buffers'[b] \in Chunk
          /\ mutable_buffers'[b].start = mb[b].start /\ mutable_buffers'[b].size = mb[b].size
          /\ mb[b].end <= mutable_buffers'[b].end /\ mutable_buffers'[b].end <= TheEnd
          /\ \A k \in UsersOf(b) : k <= mutable_buffers'[b].end

(* Every end is that of the last user, or later.                           *)
LEMMA LifespansExtended ==
  ASSUME ExtractorAssumption, GraphInv, TensorInv, ExtendLifespans
  PROVE  Extended
<1>. DEFINE mb == mutable_buffers
            mb2 == mutable_buffers'
            T(b) == {mb[b].end} \cup UsersOf(b)
<1>1. mb2 = [b \in DOMAIN mb |-> [mb[b] EXCEPT !.end = Max(T(b))]]
  BY DEF ExtendLifespans
<1>2. NumNodes \in Nat /\ TheEnd \in Nat /\ TheEnd = NumNodes + 1
      /\ Len(nodes) \in Nat /\ Len(nodes) <= NumNodes
  BY DEF TheEnd, ExtractorAssumption, GraphInv, Graph
<1>3. \A b : \A k \in UsersOf(b) : k \in Nat /\ k <= TheEnd
  <2>1. \A k \in 1..Len(nodes) : k \in Nat /\ k <= TheEnd
    BY ONLY <1>2
  <2> QED BY <2>1 DEF UsersOf
<1>4. ASSUME NEW b \in DOMAIN mb
      PROVE  /\ mb2[b] \in Chunk /\ mb2[b].start = mb[b].start /\ mb2[b].size = mb[b].size
             /\ mb[b].end <= mb2[b].end /\ mb2[b].end <= TheEnd
             /\ \A k \in UsersOf(b) : k <= mb2[b].end
  <2>1. mb[b] \in Chunk /\ mb[b].end \in Nat /\ mb[b].end <= TheEnd
    BY DEF TensorInv, Chunk
  <2>2. T(b) \in SUBSET Nat /\ T(b) # {} /\ \A x \in T(b) : x <= TheEnd
    BY <1>3, <2>1
  <2>3. Max(T(b)) \in T(b) /\ \A y \in T(b) : y <= Max(T(b))
    <3>. HIDE DEF T
    <3> QED BY <1>2, <2>2, MaxFound
  <2>. DEFINE e == Max(T(b))
  <2>4. e \in Nat /\ e <= TheEnd /\ mb[b].end <= e /\ \A k \in UsersOf(b) : k <= e
    BY <2>2, <2>3
  <2>5. mb2[b] = [mb[b] EXCEPT !.end = e]
    BY <1>1
  <2>. HIDE DEF e, mb, mb2
  <2>6. mb2[b] \in Chunk /\ mb2[b].start = mb[b].start /\ mb2[b].size = mb[b].size
        /\ mb2[b].end = e
    BY <2>1, <2>4, <2>5 DEF Chunk
  <2> QED BY <2>4, <2>6
<1>5. DOMAIN mb2 = DOMAIN mb
  BY <1>1
<1>. HIDE DEF T
<1> QED BY <1>4, <1>5 DEF Extended

(* ExtendLifespans keeps the invariant.                                    *)
LEMMA LifespansKeep ==
  ASSUME ExtractorAssumption, PlanInv, ExtendLifespans
  PROVE  PlanInv'
<1>. USE DEF PlanInv
<1>. DEFINE mb == mutable_buffers
            mb2 == mutable_buffers'
<1>1. SameGraph /\ phase = "extend" /\ phase' = "schedule" /\ release' = release
  BY DEF ExtendLifespans, SameGraph
<1>2. Same /\ Extended
  BY <1>1, GraphStays, LifespansExtended
<1>3. DOMAIN mb2 = DOMAIN mb
  BY <1>2 DEF Extended
<1>4. \A b \in DOMAIN mb :
         /\ mb2[b] \in Chunk /\ mb2[b].start = mb[b].start /\ mb2[b].size = mb[b].size
         /\ mb[b].end <= mb2[b].end /\ mb2[b].end <= TheEnd
         /\ \A k \in UsersOf(b) : k <= mb2[b].end
         /\ mb[b].start \in Nat /\ mb[b].end \in Nat /\ mb2[b].end \in Nat
  BY <1>2 DEF Extended, TensorInv, Chunk
<1>. HIDE DEF mb, mb2
<1>5. GraphInv'
  BY <1>1, <1>2 DEF GraphInv, Phases, SameGraph, Same
<1>6. TensorInv'
  <2>1. ASSUME NEW b \in DOMAIN mb2
        PROVE  mb2[b] \in Chunk /\ 1 <= mb2[b].start /\ mb2[b].start <= mb2[b].end
               /\ mb2[b].end <= TheEnd
    <3>1. b \in DOMAIN mb /\ 1 <= mb[b].start /\ mb[b].start <= mb[b].end
      BY <1>3 DEF TensorInv, mb
    <3>2. mb2[b].start = mb[b].start /\ mb[b].end <= mb2[b].end
          /\ mb[b].start \in Nat /\ mb[b].end \in Nat /\ mb2[b].end \in Nat
      BY <1>4, <3>1
    <3>3. mb[b].start <= mb2[b].end
      BY ONLY <3>1, <3>2
    <3> QED BY <1>4, <3>1, <3>2, <3>3
  <2> QED BY <1>1, <1>2, <1>3, <2>1 DEF TensorInv, SameGraph, Same, mb, mb2
<1>7. PlaceInv'
  <2> SUFFICES ASSUME NEW i \in Here PROVE Placed(i)'
    BY <1>2 DEF PlaceInv, Same
  <2>1. Placed(i) /\ i \in Nat
    BY DEF PlaceInv, Here
  <2>2. ASSUME Buffer(i) \in DOMAIN mb, i <= mb[Buffer(i)].end
        PROVE  i <= mb2[Buffer(i)].end
    <3>1. mb[Buffer(i)].end <= mb2[Buffer(i)].end
          /\ mb[Buffer(i)].end \in Nat /\ mb2[Buffer(i)].end \in Nat
      BY <1>4, <2>2
    <3> QED BY ONLY <2>1, <2>2, <3>1
  <2> QED BY <1>1, <1>2, <1>3, <1>4, <2>1, <2>2 DEF Placed, SameGraph, Same, mb, mb2
<1>8. ApartInv' /\ PartsInv'
  BY <1>1, <1>2 DEF ApartInv, Apart, PartsInv, Whole, SameGraph, Same
<1>9. StableInv'
  <2> SUFFICES ASSUME stable, NEW i \in Here PROVE Kept(i)'
    BY <1>1, <1>2 DEF StableInv, SameGraph, Same
  <2>1. Kept(i) /\ TheEnd \in Nat
    BY DEF StableInv, TheEnd, ExtractorAssumption
  <2>2. ASSUME NEW b \in DOMAIN mb, mb[b].end = TheEnd PROVE mb2[b].end = TheEnd
    <3>1. mb[b].end <= mb2[b].end /\ mb2[b].end <= TheEnd /\ mb2[b].end \in Nat
      BY <1>4
    <3> QED BY ONLY <2>1, <2>2, <3>1
  <2> QED BY <1>1, <1>2, <1>3, <2>1, <2>2 DEF Kept, SameGraph, Same, mb, mb2
<1>10. UseInv'
  BY <1>2, <1>3, <1>4 DEF UseInv, Same, mb2
<1>11. ReleaseInv'
  BY <1>1 DEF ReleaseInv
<1> QED BY <1>5, <1>6, <1>7, <1>8, <1>9, <1>10, <1>11

(* createDynamicReleaseSchedule keeps the invariant.                       *)
LEMMA ScheduleKeeps ==
  ASSUME PlanInv, createDynamicReleaseSchedule
  PROVE  PlanInv'
<1>1. /\ SameGraph /\ mutable_buffers' = mutable_buffers
      /\ phase = "schedule" /\ phase' = "done"
      /\ release' = {<<b, mutable_buffers[b].end>> :
                        b \in {b \in DOMAIN mutable_buffers :
                                  /\ mutable_buffers[b].size = 0
                                  /\ mutable_buffers[b].end <= NumNodes
                                  /\ IsDynamicOp(mutable_buffers[b].end)}}
  BY DEF createDynamicReleaseSchedule, SameGraph
<1>2. Same
  BY <1>1, GraphStays
<1>3. GraphInv'
  BY <1>1, <1>2 DEF PlanInv, GraphInv, Phases, SameGraph, Same
<1>4. TensorInv'
  BY <1>1, <1>2 DEF PlanInv, TensorInv, SameGraph, Same
<1>5. PlaceInv' /\ ApartInv' /\ StableInv' /\ PartsInv'
  BY <1>1, <1>2 DEF PlanInv, PlaceInv, Placed, ApartInv, Apart, StableInv, Kept, PartsInv, Whole,
                    SameGraph, Same
<1>6. UseInv'
  BY <1>1, <1>2 DEF PlanInv, UseInv, Same
<1>7. ReleaseInv'
  BY <1>1 DEF ReleaseInv
<1> QED BY <1>3, <1>4, <1>5, <1>6, <1>7 DEF PlanInv

(* Before the first node there is nothing.                                 *)
LEMMA PlanInitially ==
  ASSUME ExtractorAssumption, InitPlan
  PROVE  PlanInv
<1>1. Here = {} /\ Ids = {} /\ Roots = {} /\ Len(nodes) = 0 /\ nodes = <<>>
  BY DEF InitPlan, Here, Ids, Roots
<1>2. GraphInv
  BY <1>1 DEF InitPlan, GraphInv, Graph, Phases, ExtractorAssumption
<1>3. DOMAIN mutable_buffers = {}
  BY DEF InitPlan
<1>4. TensorInv
  BY <1>1, <1>3 DEF InitPlan, TensorInv, Forest
<1>5. PlaceInv /\ ApartInv /\ PartsInv /\ StableInv
  BY <1>1 DEF PlaceInv, ApartInv, PartsInv, StableInv
<1>6. UseInv /\ ReleaseInv
  BY DEF InitPlan, UseInv, ReleaseInv
<1> QED BY <1>2, <1>4, <1>5, <1>6 DEF PlanInv

(* A stuttering step changes nothing.                                      *)
LEMMA PlanStutters ==
  ASSUME PlanInv, UNCHANGED planVars
  PROVE  PlanInv'
<1>1. SameGraph /\ UNCHANGED <<phase, mutable_buffers, release>>
  BY DEF planVars, SameGraph
<1>2. Same
  BY <1>1, GraphStays
<1>3. GraphInv' /\ TensorInv'
  BY <1>1, <1>2 DEF PlanInv, GraphInv, TensorInv, SameGraph, Same
<1>4. PlaceInv' /\ ApartInv' /\ StableInv' /\ PartsInv'
  BY <1>1, <1>2 DEF PlanInv, PlaceInv, Placed, ApartInv, Apart, StableInv, Kept, PartsInv, Whole,
                    SameGraph, Same
<1>5. UseInv' /\ ReleaseInv'
  BY <1>1, <1>2 DEF PlanInv, UseInv, ReleaseInv, Same
<1> QED BY <1>3, <1>4, <1>5 DEF PlanInv

(* PlanInv is inductive.                                                   *)
THEOREM PlanInvariance == PlanSpec => []PlanInv
<1>1. InitPlan => PlanInv
  BY PlanInitially, ExtractorAssumption
<1>2. PlanInv /\ [NextPlan]_planVars => PlanInv'
  <2> SUFFICES ASSUME PlanInv, [NextPlan]_planVars PROVE PlanInv'
    OBVIOUS
  <2>1. ASSUME NEW s \in Sizes, extractParameterTensors(s) PROVE PlanInv'
    BY <2>1, ParameterKeeps, ExtractorAssumption
  <2>2. CASE extractImmutableTensors
    BY <2>2, ConstantKeeps, ExtractorAssumption
  <2>3. ASSUME NEW inputs \in Lists, NEW s \in Sizes, extractMutableTensors(inputs, s)
        PROVE  PlanInv'
    BY <2>3, OperationKeeps, ExtractorAssumption
  <2>4. ASSUME NEW i \in Sources, extractReshapeTensors(i) PROVE PlanInv'
    BY <2>4, ReshapeKeeps, ExtractorAssumption
  <2>5. ASSUME NEW i \in Sources, extractResultTensors(i) PROVE PlanInv'
    BY <2>5, ResultKeeps, ExtractorAssumption
  <2>6. ASSUME NEW inputs \in Lists, mergeConcatMutableTensors(inputs) PROVE PlanInv'
    BY <2>6, MergeKeeps, ExtractorAssumption
  <2>7. CASE Refuse
    BY <2>7, RefusalKeeps
  <2>8. CASE ExtendLifespans
    BY <2>8, LifespansKeep, ExtractorAssumption
  <2>9. CASE createDynamicReleaseSchedule
    BY <2>9, ScheduleKeeps
  <2>10. CASE UNCHANGED planVars
    BY <2>10, PlanStutters
  <2> QED
    BY <2>1, <2>2, <2>3, <2>4, <2>5, <2>6, <2>7, <2>8, <2>9, <2>10 DEF NextPlan
<1> QED BY <1>1, <1>2, PTL DEF PlanSpec

(* A dynamic buffer is released only after its last reader: its lifespan,  *)
(* which ends with the release, was extended to all of them.               *)
THEOREM ReleaseSafe == PlanSpec => []ReleasedAfterLastRead
<1>1. PlanInv => ReleasedAfterLastRead
  BY DEF PlanInv, UseInv, ReleaseInv, ReleasedAfterLastRead
<1> QED BY <1>1, PlanInvariance, PTL

-----------------------------------------------------------------------------
(* What the invariant means for the nodes that read.                       *)

(* The buffers that are needed exist.                                      *)
LEMMA PlanTyped ==
  ASSUME ExtractorAssumption, PlanInv
  PROVE  PlanTypeOK
<1>. USE DEF PlanInv
<1>1. Homes
  BY HomesFound
<1>2. ASSUME NEW i \in 1..Len(nodes)
      PROVE  /\ Buffer(i) \in (DOMAIN mutable_buffers) \cup immutable_buffers
             /\ InBlock(i) => Offset(i) + nodes[i].size <= mutable_buffers[Buffer(i)].size
  BY <1>1 DEF Homes, TensorInv, PlaceInv, Placed, InBlock, Here
<1>3. ASSUME NEW b \in DOMAIN mutable_buffers
      PROVE  /\ tensors[b].parent = Null
             /\ 1 <= mutable_buffers[b].start
             /\ mutable_buffers[b].start <= mutable_buffers[b].end
             /\ mutable_buffers[b].end <= TheEnd
  BY DEF TensorInv, Roots
<1>4. phase \in Phases /\ Len(tensor_names) = Len(nodes)
  BY DEF GraphInv, TensorInv
<1> QED BY <1>2, <1>3, <1>4 DEF PlanTypeOK, Phases

(* Two nodes that write, or one that does and what the other made, do not  *)
(* collide: in one buffer they have places of their own, in two the        *)
(* lifespans have a node in common.                                        *)
LEMMA NoCollision ==
  ASSUME ExtractorAssumption, PlanInv, NEW i \in Here, NEW j \in Here, i # j,
         IsKind(i, {"Op", "Parameter"}), IsKind(j, {"Op", "Parameter", "Constant"}),
         NEW n \in Nat,
         InBlock(i) /\ InBlock(j) => \A k \in {i, j} :
             /\ mutable_buffers[Buffer(k)].start <= n
             /\ n <= mutable_buffers[Buffer(k)].end
  PROVE  ~Collide(i, j)
<1>. USE DEF PlanInv
<1>. DEFINE a == mutable_buffers[Buffer(i)]
            b == mutable_buffers[Buffer(j)]
<1>1. SUFFICES ASSUME InBlock(i), InBlock(j) PROVE ~Collide(i, j)
  BY DEF Collide
<1>2. Homes
  BY HomesFound
<1>3. CASE Buffer(i) = Buffer(j)
  <2>1. IsKind(j, {"Op", "Parameter"})
    <3>1. SUFFICES ASSUME nodes[j].kind = "Constant" PROVE FALSE
      BY DEF IsKind
    <3>2. tensor_names[j] \in immutable_buffers
      BY <3>1 DEF PlaceInv, Placed, IsKind
    <3>3. Buffer(j) \in immutable_buffers
      BY <1>2, <3>2 DEF Homes, TensorInv
    <3> QED BY <1>1, <3>3 DEF InBlock, TensorInv
  <2>2. \/ Offset(i) + nodes[i].size <= Offset(j)
        \/ Offset(j) + nodes[j].size <= Offset(i)
    BY <1>3, <2>1 DEF ApartInv, Apart
  <2>3. /\ Offset(i) \in Nat /\ Offset(j) \in Nat
        /\ nodes[i].size \in Nat /\ nodes[j].size \in Nat
    BY <1>2 DEF Homes
  <2>4. ~(Offset(i) < Offset(j) + nodes[j].size /\ Offset(j) < Offset(i) + nodes[i].size)
    BY <2>2, <2>3
  <2> QED BY <1>3, <2>4 DEF Collide
<1>4. CASE Buffer(i) # Buffer(j)
  <2>1. a.start <= n /\ n <= a.end /\ b.start <= n /\ n <= b.end
    BY <1>1
  <2>2. a.start \in Nat /\ a.end \in Nat /\ b.start \in Nat /\ b.end \in Nat
    BY <1>1 DEF InBlock, TensorInv, Chunk
  <2>3. ~(a.end < b.start \/ b.end < a.start)
    <3>. HIDE DEF a, b
    <3> QED BY ONLY <2>1, <2>2, n \in Nat
  <2> QED BY <1>4, <2>3 DEF Collide
<1> QED BY <1>3, <1>4

(* The reader is in the lifespan of what it reads, and so is whoever writes *)
(* before it.                                                              *)
LEMMA ReadersSurvive ==
  ASSUME ExtractorAssumption, PlanInv
  PROVE  TensorsSurviveUntilRead
<1>. USE DEF PlanInv
<1>1. SUFFICES ASSUME phase = "done", ~AliasesMerged, NEW i \in Here, NEW j \in Inputs(i),
                      NEW w \in Parts[j]
               PROVE  /\ Buffer(w[1]) = Buffer(j)
                      /\ Offset(w[1]) = Offset(j) + w[2]
                      /\ \A k \in Writers : w[1] < k /\ k <= i => ~Collide(k, w[1])
  BY DEF TensorsSurviveUntilRead, Ops, Here
<1>2. Len(nodes) \in Nat /\ i \in 1..Len(nodes)
  BY DEF GraphInv, Graph, Here
<1>3. j \in Here /\ j \in Nat
  <2>1. Reads(nodes, nodes[i].inputs)
    BY <1>2, InputsRead DEF GraphInv
  <2>2. PICK k \in 1..Len(nodes[i].inputs) : j = nodes[i].inputs[k]
    BY <2>1 DEF Inputs, ToSet, Reads
  <2> QED BY <2>1, <2>2 DEF Reads, Here
<1>. DEFINE v == w[1]
<1>4. /\ v \in 1..j /\ IsKind(v, {"Parameter", "Constant", "Op"})
      /\ Buffer(v) = Buffer(j) /\ Offset(v) = Offset(j) + w[2]
  BY <1>1, <1>3 DEF PartsInv, Whole
<1>5. v \in Here /\ v \in Nat
  <2>1. j \in 1..Len(nodes)
    BY <1>3 DEF Here
  <2>. HIDE DEF v
  <2> QED BY ONLY <1>2, <1>4, <2>1 DEF Here
<1>6. ASSUME NEW k \in Writers, v < k, k <= i PROVE ~Collide(k, v)
  <2>1. k \in Here /\ k \in Nat /\ IsKind(k, {"Op", "Parameter"}) /\ k # v
    <3>1. k \in 1..Len(nodes) /\ IsKind(k, {"Op", "Parameter"})
      BY DEF Writers, Ops, Parameters, IsKind
    <3> QED BY <1>5, <1>6, <3>1 DEF Here
  <2>2. ASSUME InBlock(k) PROVE mutable_buffers[Buffer(k)].start <= k
                                /\ k <= mutable_buffers[Buffer(k)].end
    BY <2>1, <2>2 DEF InBlock, PlaceInv, Placed
  <2>3. ASSUME InBlock(v) PROVE mutable_buffers[Buffer(v)].start <= k
                                /\ k <= mutable_buffers[Buffer(v)].end
    <3>. DEFINE b == mutable_buffers[Buffer(v)]
    <3>1. b.start <= v /\ b.start \in Nat /\ b.end \in Nat
      BY <1>5, <2>3 DEF InBlock, PlaceInv, Placed, TensorInv, Chunk
    <3>2. i <= b.end
      <4>1. i \in UsersOf(Buffer(v))
        BY <1>2, <1>4 DEF UsersOf
      <4> QED BY <1>1, <2>3, <4>1 DEF UseInv, InBlock
    <3>3. i \in Nat
      BY <1>2
    <3>. HIDE DEF b, v
    <3>4. b.start <= k /\ k <= b.end
      BY ONLY <1>5, <1>6, <2>1, <3>1, <3>2, <3>3
    <3> QED BY <3>4 DEF b
  <2>4. IsKind(v, {"Op", "Parameter", "Constant"})
    BY <1>4 DEF IsKind
  <2>. HIDE DEF v
  <2> QED BY <1>5, <2>1, <2>2, <2>3, <2>4, NoCollision
<1> QED BY <1>4, <1>6

(* What a loop body keeps lives to the end, where every lifespan that      *)
(* reaches it meets it.                                                    *)
LEMMA LoopSurvives ==
  ASSUME ExtractorAssumption, PlanInv
  PROVE  StableTensorsSurvive
<1>. USE DEF PlanInv
<1>1. SUFFICES ASSUME phase = "done", stable, ~AliasesMerged PROVE
        /\ \A p \in Parameters, k \in Ops : Merged(p) \/ ~Collide(p, k)
        /\ \A r \in 1..Len(nodes) : IsKind(r, {"Result"}) /\ ~Merged(r) =>
               \A w \in Parts[r] :
                   /\ \A k \in Ops : w[1] < k => ~Collide(k, w[1])
                   /\ \A p \in Parameters \ {w[1]} : Merged(p) \/ ~Collide(p, w[1])
  BY DEF StableTensorsSurvive
<1>2. Homes
  BY HomesFound
<1>3. /\ Len(nodes) \in Nat /\ Len(nodes) <= NumNodes /\ NumNodes \in Nat
      /\ TheEnd = NumNodes + 1 /\ TheEnd \in Nat
  BY DEF GraphInv, Graph, ExtractorAssumption, TheEnd
<1>4. \A i \in Here : i \in Nat /\ i <= TheEnd
  <2>1. \A i \in 1..Len(nodes) : i \in Nat /\ i <= TheEnd
    BY ONLY <1>3
  <2> QED BY <2>1 DEF Here
<1>5. \A p \in Parameters : p \in Here /\ IsKind(p, {"Op", "Parameter"})
                            /\ IsKind(p, {"Parameter", "Result"})
  BY DEF Parameters, Here, IsKind
<1>6. \A k \in Ops : k \in Here /\ IsKind(k, {"Op", "Parameter"})
  BY DEF Ops, Here, IsKind
<1>7. ASSUME NEW i \in Here, IsKind(i, {"Parameter", "Result"}), ~Merged(i),
             Buffer(i) \in DOMAIN mutable_buffers
      PROVE  mutable_buffers[Buffer(i)].end = TheEnd
  <2>1. Buffer(i) = tensor_names[i]
    BY <1>2, <1>7 DEF Merged, Homes, Roots
  <2> QED BY <1>1, <1>7, <2>1 DEF StableInv, Kept
<1>8. ASSUME NEW i \in Here, InBlock(i)
      PROVE  /\ Buffer(i) \in DOMAIN mutable_buffers
             /\ mutable_buffers[Buffer(i)].start \in Nat
             /\ mutable_buffers[Buffer(i)].end \in Nat
             /\ mutable_buffers[Buffer(i)].start <= i
             /\ IsKind(i, {"Op", "Parameter"}) => i <= mutable_buffers[Buffer(i)].end
  BY <1>8 DEF InBlock, PlaceInv, Placed, TensorInv, Chunk
<1>9. ASSUME NEW p \in Parameters, NEW k \in Ops, ~Merged(p) PROVE ~Collide(p, k)
  <2>1. p \in Here /\ k \in Here /\ p # k
    BY <1>5, <1>6 DEF Parameters, Ops, IsKind
  <2>2. p < k
    <3>1. ~(k < p)
      BY <2>1 DEF GraphInv, Parameters, Ops, IsKind
    <3>2. p \in Nat /\ k \in Nat
      BY <1>4, <2>1
    <3> QED BY ONLY <2>1, <3>1, <3>2
  <2>3. ASSUME InBlock(p)
        PROVE  /\ mutable_buffers[Buffer(p)].start <= k
               /\ k <= mutable_buffers[Buffer(p)].end
    <3>1. mutable_buffers[Buffer(p)].end = TheEnd
      BY <1>5, <1>7, <1>8, <1>9, <2>1, <2>3
    <3>2. mutable_buffers[Buffer(p)].start <= p /\ mutable_buffers[Buffer(p)].start \in Nat
      BY <1>8, <2>1, <2>3
    <3>3. p \in Nat /\ k \in Nat /\ k <= TheEnd
      BY <1>4, <2>1
    <3> QED BY <2>2, <3>1, <3>2, <3>3
  <2>4. ASSUME InBlock(k)
        PROVE  /\ mutable_buffers[Buffer(k)].start <= k
               /\ k <= mutable_buffers[Buffer(k)].end
    BY <1>6, <1>8, <2>1, <2>4
  <2>5. IsKind(k, {"Op", "Parameter", "Constant"}) /\ k \in Nat
    BY <1>4, <2>1 DEF Ops, IsKind
  <2> QED BY <1>5, <2>1, <2>3, <2>4, <2>5, NoCollision
<1>10. ASSUME NEW r \in 1..Len(nodes), IsKind(r, {"Result"}), ~Merged(r), NEW w \in Parts[r]
       PROVE  /\ \A k \in Ops : w[1] < k => ~Collide(k, w[1])
              /\ \A p \in Parameters \ {w[1]} : Merged(p) \/ ~Collide(p, w[1])
  <2>. DEFINE v == w[1]
  <2>1. r \in Here /\ IsKind(r, {"Parameter", "Result"})
    BY <1>10 DEF Here, IsKind
  <2>2. v \in 1..r /\ IsKind(v, {"Op", "Parameter", "Constant"}) /\ Buffer(v) = Buffer(r)
    BY <1>1, <2>1 DEF PartsInv, Whole, IsKind
  <2>3. v \in Here
    <3>. HIDE DEF v
    <3> QED BY ONLY <1>3, <2>2, r \in 1..Len(nodes) DEF Here
  <2>. HIDE DEF v
  <2>4. ASSUME InBlock(v) PROVE mutable_buffers[Buffer(v)].end = TheEnd
    BY <1>7, <1>8, <1>10, <2>1, <2>2, <2>3, <2>4
  <2>5. ASSUME NEW k \in Ops, v < k PROVE ~Collide(k, v)
    <3>1. k \in Here /\ k \in Nat /\ k <= TheEnd /\ v \in Nat /\ k # v
      BY <1>4, <1>6, <2>3, <2>5
    <3>2. ASSUME InBlock(k)
          PROVE  /\ mutable_buffers[Buffer(k)].start <= k
                 /\ k <= mutable_buffers[Buffer(k)].end
      BY <1>6, <1>8, <3>1, <3>2
    <3>3. ASSUME InBlock(v)
          PROVE  /\ mutable_buffers[Buffer(v)].start <= k
                 /\ k <= mutable_buffers[Buffer(v)].end
      <4>1. mutable_buffers[Buffer(v)].start <= v /\ mutable_buffers[Buffer(v)].start \in Nat
        BY <1>8, <2>3, <3>3
      <4> QED BY <2>4, <2>5, <3>1, <3>3, <4>1
    <3> QED BY <1>6, <2>2, <2>3, <3>1, <3>2, <3>3, NoCollision
  <2>6. ASSUME NEW p \in Parameters \ {v}, ~Merged(p) PROVE ~Collide(p, v)
    <3>1. p \in Here /\ p # v /\ p \in Parameters
      BY <1>5
    <3>2. ASSUME NEW i \in {p, v}, InBlock(i)
          PROVE  /\ mutable_buffers[Buffer(i)].start <= TheEnd
                 /\ TheEnd <= mutable_buffers[Buffer(i)].end
      <4>1. i \in Here /\ i \in Nat /\ i <= TheEnd
        BY <1>4, <2>3, <3>1
      <4>2. mutable_buffers[Buffer(i)].end = TheEnd
        BY <1>5, <1>7, <1>8, <2>4, <2>6, <3>1, <3>2
      <4>3. mutable_buffers[Buffer(i)].start <= i /\ mutable_buffers[Buffer(i)].start \in Nat
        BY <1>8, <3>2, <4>1
      <4> QED BY <1>3, <4>1, <4>2, <4>3
    <3> QED BY <1>3, <1>5, <2>2, <2>3, <3>1, <3>2, NoCollision
  <2> QED BY <2>5, <2>6 DEF v
<1> QED BY <1>9, <1>10

(* Every tensor has a buffer that holds it, with a lifespan in the graph.  *)
THEOREM PlanTypeCorrect == PlanSpec => []PlanTypeOK
<1>1. PlanInv => PlanTypeOK
  BY PlanTyped, ExtractorAssumption
<1> QED BY <1>1, PlanInvariance, PTL

(* Every part of a tensor is where its reader expects it and as it was     *)
(* made, whatever the graph: the sharing of memory, the merging of Concats *)
(* and the aliases of Reshape never lose data.                             *)
THEOREM SurviveUntilRead == PlanSpec => []TensorsSurviveUntilRead
<1>1. PlanInv => TensorsSurviveUntilRead
  BY ReadersSurvive, ExtractorAssumption
<1> QED BY <1>1, PlanInvariance, PTL

(* The parameters and the results of a loop body outlive the iteration.    *)
THEOREM StableSurvive == PlanSpec => []StableTensorsSurvive
<1>1. PlanInv => StableTensorsSurvive
  BY LoopSurvives, ExtractorAssumption
<1> QED BY <1>1, PlanInvariance, PTL
=============================================================================
