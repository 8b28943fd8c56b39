----------------------- MODULE DynamicOperationCache -----------------------
(***************************************************************************)
(* DynamicOperationCache (cuda_dynamic_operation.hpp) over LruCache        *)
(* (utils/lru_cache.hpp): the static variants of the dynamic operations of *)
(* a compiled model, shared by its infer requests.                         *)
(*                                                                         *)
(* An op is the address of a CachedOperation owned by shared_ptrs.  It is  *)
(* freed with its last owner and its address may then be used again, for   *)
(* another key.  One action is one critical section of mutex_, or a step   *)
(* outside of it.                                                          *)
(***************************************************************************)
EXTENDS Naturals, SequencesExt

CONSTANTS
    Requests,    \* infer requests, each executing one operation at a time
    Keys,        \* (operation, input shapes, input values)
    Ops,         \* addresses of CachedOperation objects
    Capacity,    \* capacity_
    None

ASSUME CacheAssumption ==
    /\ IsFiniteSet(Requests)
    /\ Capacity \in Nat \ {0}
    /\ None \notin Keys \union Ops

VARIABLES
    entries,    \* entries_: records [key, op], most recently used first
    pc,         \* pc[r]: where request r is in prepareCachedOperationContext
    key,        \* key[r]: the key it looks up
    made,       \* made[r]: op, the result of the factory, a local of getOrCreate
    held,       \* held[r]: what getOrCreate returned
    refs,       \* refs[o]: the number of shared_ptrs that own o
    madeFor,    \* madeFor[o]: the key o was created for, None when it is free
    recency     \* keys by the time of their last use, newest first (history)

vars == <<entries, pc, key, made, held, refs, madeFor, recency>>

Init ==
    /\ entries = <<>>
    /\ pc = [r \in Requests |-> "idle"]
    /\ key = [r \in Requests |-> None]
    /\ made = [r \in Requests |-> None]
    /\ held = [r \in Requests |-> None]
    /\ refs = [o \in Ops |-> 0]
    /\ madeFor = [o \in Ops |-> None]
    /\ recency = <<>>

-----------------------------------------------------------------------------
(* LruCache.                                                               *)

Cached(k) == \E i \in DOMAIN entries : entries[i].key = k

Position(k) == CHOOSE i \in DOMAIN entries : entries[i].key = k

Stored(k) == entries[Position(k)].op

(* promote: rotate the entry to the front, the others keep their order.    *)
Promoted(k) ==
    LET p == Position(k)
    IN  [i \in DOMAIN entries |->
            IF i = 1 THEN entries[p] ELSE IF i <= p THEN entries[i - 1] ELSE entries[i]]

IsFull == Len(entries) >= Capacity

(* k is used now: it comes first, the keys used since it move back.        *)
Used(k) ==
    LET n == Len(recency)
        known == \E i \in 1..n : recency[i] = k
        p == IF known THEN CHOOSE i \in 1..n : recency[i] = k ELSE n + 1
    IN  [i \in 1..(IF known THEN n ELSE n + 1) |->
            IF i = 1 THEN k ELSE IF i <= p THEN recency[i - 1] ELSE recency[i]]

(* The objects that lose an owner in lost, and gain one in gained.         *)
Own(gained, lost) ==
    LET count(o) == (refs[o] + (IF o \in gained THEN 1 ELSE 0))
                             - (IF o \in lost THEN 1 ELSE 0)
    IN  /\ refs' = [o \in Ops |-> count(o)]
        /\ madeFor' = [o \in Ops |-> IF o \in lost /\ count(o) = 0
                                       THEN None ELSE madeFor[o]]

-----------------------------------------------------------------------------
(* A request that executes dynamic operations.                             *)

Call(r, k) ==
    /\ pc[r] = "idle"
    /\ key' = [key EXCEPT ![r] = k]
    /\ pc' = [pc EXCEPT ![r] = "looking"]
    /\ UNCHANGED <<entries, made, held, refs, madeFor, recency>>

(* Mutant of FindHit: the entry is returned, its owner is not counted (a   *)
(* reference to the stored shared_ptr that is copied after the unlock).    *)
Mut_HitWithoutOwner(r) ==
    /\ pc[r] = "looking"
    /\ Cached(key[r])
    /\ entries' = Promoted(key[r])
    /\ recency' = Used(key[r])
    /\ held' = [held EXCEPT ![r] = Stored(key[r])]
    /\ pc' = [pc EXCEPT ![r] = "executing"]
    /\ UNCHANGED <<key, made, refs, madeFor>>

(* Mutant of FindHit: a hit does not count as a use.                       *)
Mut_HitWithoutPromotion(r) ==
    /\ pc[r] = "looking"
    /\ Cached(key[r])
    /\ recency' = Used(key[r])
    /\ held' = [held EXCEPT ![r] = Stored(key[r])]
    /\ Own({Stored(key[r])}, {})
    /\ pc' = [pc EXCEPT ![r] = "executing"]
    /\ UNCHANGED <<entries, key, made>>

(* The first lookup finds the key; the result is copied under the lock.    *)
FindHit(r) ==
    /\ pc[r] = "looking"
    /\ Cached(key[r])
    /\ entries' = Promoted(key[r])
    /\ recency' = Used(key[r])
    /\ held' = [held EXCEPT ![r] = Stored(key[r])]
    /\ Own({Stored(key[r])}, {})
    /\ pc' = [pc EXCEPT ![r] = "executing"]
    /\ UNCHANGED <<key, made>>

FindMiss(r) ==
    /\ pc[r] = "looking"
    /\ ~Cached(key[r])
    /\ pc' = [pc EXCEPT ![r] = "creating"]
    /\ UNCHANGED <<entries, key, made, held, refs, madeFor, recency>>

(* factory(), without the lock.                                            *)
Create(r) ==
    /\ pc[r] = "creating"
    /\ \E o \in Ops :
        /\ madeFor[o] = None
        /\ made' = [made EXCEPT ![r] = o]
        /\ refs' = [refs EXCEPT ![o] = 1]
        /\ madeFor' = [madeFor EXCEPT ![o] = key[r]]
    /\ pc' = [pc EXCEPT ![r] = "inserting"]
    /\ UNCHANGED <<entries, key, held, recency>>

(* factory() throws: the exception leaves getOrCreate and Execute.         *)
FailCreate(r) ==
    /\ pc[r] = "creating"
    /\ key' = [key EXCEPT ![r] = None]
    /\ pc' = [pc EXCEPT ![r] = "idle"]
    /\ UNCHANGED <<entries, made, held, refs, madeFor, recency>>

(* Mutant of AdoptStored: no second find, so insert() takes its branch for *)
(* a key that is there and replaces the value others already got.          *)
Mut_ReplaceStored(r) ==
    /\ pc[r] = "inserting"
    /\ Cached(key[r])
    /\ entries' = [Promoted(key[r]) EXCEPT ![1].op = made[r]]
    /\ recency' = Used(key[r])
    /\ held' = [held EXCEPT ![r] = made[r]]
    /\ made' = [made EXCEPT ![r] = None]
    /\ Own({made[r]}, {Stored(key[r])})
    /\ pc' = [pc EXCEPT ![r] = "executing"]
    /\ UNCHANGED key

(* The second lookup: another request was faster, its object is returned.  *)
AdoptStored(r) ==
    /\ pc[r] = "inserting"
    /\ Cached(key[r])
    /\ entries' = Promoted(key[r])
    /\ recency' = Used(key[r])
    /\ held' = [held EXCEPT ![r] = Stored(key[r])]
    /\ Own({Stored(key[r])}, {})
    /\ pc' = [pc EXCEPT ![r] = "discarding"]
    /\ UNCHANGED <<key, made>>

(* The second lookup fails too: evict the last entry if the cache is full, *)
(* move the new object to the front.                                       *)
Insert(r) ==
    /\ pc[r] = "inserting"
    /\ ~Cached(key[r])
    /\ entries' = <<[key |-> key[r], op |-> made[r]]>>
                     \o (IF IsFull THEN Front(entries) ELSE entries)
    /\ recency' = Used(key[r])
    /\ held' = [held EXCEPT ![r] = made[r]]
    /\ made' = [made EXCEPT ![r] = None]
    /\ Own({made[r]}, IF IsFull THEN {Last(entries).op} ELSE {})
    /\ pc' = [pc EXCEPT ![r] = "executing"]
    /\ UNCHANGED key

(* Mutant of Discard: the object that came too late is leaked.             *)
Mut_LeakLoser(r) ==
    /\ pc[r] = "discarding"
    /\ made' = [made EXCEPT ![r] = None]
    /\ pc' = [pc EXCEPT ![r] = "executing"]
    /\ UNCHANGED <<entries, key, held, refs, madeFor, recency>>

(* The local op ends, after the lock was released.                         *)
Discard(r) ==
    /\ pc[r] = "discarding"
    /\ Own({}, {made[r]})
    /\ made' = [made EXCEPT ![r] = None]
    /\ pc' = [pc EXCEPT ![r] = "executing"]
    /\ UNCHANGED <<entries, key, held, recency>>

(* Execute is over and its CachedOperationContext ends.                    *)
Finish(r) ==
    /\ pc[r] = "executing"
    /\ Own({}, {held[r]})
    /\ held' = [held EXCEPT ![r] = None]
    /\ key' = [key EXCEPT ![r] = None]
    /\ pc' = [pc EXCEPT ![r] = "idle"]
    /\ UNCHANGED <<entries, made, recency>>

Next ==
    \E r \in Requests :
        \/ \E k \in Keys : Call(r, k)
        \/ FindHit(r)
        \/ FindMiss(r)
        \/ Create(r)
        \/ FailCreate(r)
        \/ AdoptStored(r)
        \/ Insert(r)
        \/ Discard(r)
        \/ Finish(r)

Spec == Init /\ [][Next]_vars

-----------------------------------------------------------------------------
(* Every variable has its type; the cache never grows beyond its capacity, *)
(* which its vector has reserved, and holds a key once.                    *)
TypeOK ==
    /\ entries \in Seq([key : Keys, op : Ops])
    /\ Len(entries) <= Capacity
    /\ \A i, j \in DOMAIN entries : entries[i].key = entries[j].key => i = j
    /\ pc \in [Requests -> {"idle", "looking", "creating", "inserting",
                            "discarding", "executing"}]
    /\ key \in [Requests -> Keys \union {None}]
    /\ made \in [Requests -> Ops \union {None}]
    /\ held \in [Requests -> Ops \union {None}]
    /\ refs \in [Ops -> Nat]
    /\ madeFor \in [Ops -> Keys \union {None}]

(* A request executes an operation that exists and was prepared for the    *)
(* shapes and values it has, however often the entry was evicted and its   *)
(* address used again since the lookup; so does the cache.                 *)
OpsMatchTheirKeys ==
    /\ \A r \in Requests : held[r] # None => madeFor[held[r]] = key[r]
    /\ \A r \in Requests : made[r] # None => madeFor[made[r]] = key[r]
    /\ \A i \in DOMAIN entries : madeFor[entries[i].op] = entries[i].key

(* An object is owned by the cache and by the requests that hold it, by    *)
(* nothing else, and freed with its last owner: what two requests create   *)
(* for one key at the same time is not leaked, nor what is evicted.        *)
OwnersAreCounted ==
    \A o \in Ops :
        /\ refs[o] = Cardinality({i \in DOMAIN entries : entries[i].op = o})
                     + Cardinality({r \in Requests : held[r] = o})
                     + Cardinality({r \in Requests : made[r] = o})
        /\ refs[o] = 0 <=> madeFor[o] = None

(* LRU: the cache holds the Capacity keys that were used last, in that     *)
(* order, and a key leaves it for no other reason.                         *)
HoldsMostRecentlyUsed ==
    [i \in DOMAIN entries |-> entries[i].key]
        = SubSeq(recency, 1, IF Len(recency) < Capacity THEN Len(recency) ELSE Capacity)

(* Requests that race to create the operation of one key agree: the object *)
(* the cache has for a key is replaced only after an eviction, and every   *)
(* lookup returns the object that is in the cache when it ends.            *)
RacersAgree ==
    [][/\ \A k \in Keys : Cached(k) /\ Cached(k)' => Stored(k)' = Stored(k)
       /\ \A r \in Requests :
            held[r] = None /\ held[r]' # None =>
                Cached(key[r])' /\ held[r]' = Stored(key[r])']_vars
=============================================================================
