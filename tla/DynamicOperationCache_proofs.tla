-------------------- MODULE DynamicOperationCache_proofs --------------------
(***************************************************************************)
(* Proofs about DynamicOperationCache, for every finite set of requests    *)
(* and every capacity: types, that nobody executes an operation of another *)
(* key, that the owners of every object are counted, that racing requests  *)
(* agree, and that the least recently used entry is the one that leaves.   *)
(***************************************************************************)
EXTENDS DynamicOperationCache, FiniteSetTheorems, SequenceTheorems, TLAPS

(* The cache as a set of entries.                                          *)
Has(s, e) == \E i \in DOMAIN s : s[i] = e

Entry == [key : Keys, op : Ops]

(* What an LRU list is: it fits, and holds a key once.                     *)
IsList(s) ==
    /\ s \in Seq(Entry) /\ Len(s) <= Capacity
    /\ \A i, j \in DOMAIN s : s[i].key = s[j].key => i = j

CacheOwns(s, o) == IF \E e : Has(s, e) /\ e.op = o THEN 1 ELSE 0

Owned(f, o) == Cardinality({r \in Requests : f[r] = o})

(* Where a request is tells what it has in its locals.                     *)
LocalsInv ==
    \A r \in Requests :
        /\ key[r] # None <=> pc[r] # "idle"
        /\ made[r] # None <=> pc[r] \in {"inserting", "discarding"}
        /\ held[r] # None <=> pc[r] \in {"discarding", "executing"}

(* OwnersAreCounted, with what uniqueness of the keys says of the cache.   *)
CountInv ==
    \A o \in Ops :
        /\ refs[o] = CacheOwns(entries, o) + Owned(held, o) + Owned(made, o)
        /\ refs[o] = 0 <=> madeFor[o] = None

(* OpsMatchTheirKeys, entry by entry.                                      *)
MatchInv ==
    /\ \A r \in Requests : held[r] # None => madeFor[held[r]] = key[r]
    /\ \A r \in Requests : made[r] # None => madeFor[made[r]] = key[r]
    /\ \A e : Has(entries, e) => madeFor[e.op] = e.key

IInv == TypeOK /\ LocalsInv /\ MatchInv /\ CountInv

-----------------------------------------------------------------------------
(* The lists.                                                              *)

LEMMA TypeIsList == TypeOK => IsList(entries)
  BY DEF TypeOK, IsList, Entry

LEMMA EntryTypes ==
  ASSUME NEW s, IsList(s), NEW e, Has(s, e)
  PROVE  e \in Entry /\ e.op \in Ops /\ e.key \in Keys
<1>1. PICK i \in DOMAIN s : s[i] = e
  BY DEF Has
<1>2. DOMAIN s = 1..Len(s) /\ s \in Seq(Entry)
  BY DEF IsList
<1>3. e \in Entry
  BY <1>1, <1>2
<1> QED BY <1>3 DEF Entry

(* An entry is found at its position.                                      *)
LEMMA Found ==
  ASSUME NEW k, Cached(k)
  PROVE  /\ Position(k) \in DOMAIN entries
         /\ entries[Position(k)].key = k
  BY DEF Cached, Position

(* std::rotate moves entries and neither loses nor duplicates one.         *)
LEMMA Rotated ==
  ASSUME IsList(entries), NEW k, Cached(k)
  PROVE  /\ IsList(Promoted(k))
         /\ \A e : Has(Promoted(k), e) <=> Has(entries, e)
<1>. DEFINE n == Len(entries)
            p == Position(k)
            s == Promoted(k)
            from(i) == IF i = 1 THEN p ELSE IF i <= p THEN i - 1 ELSE i
            to(i) == IF i = p THEN 1 ELSE IF i < p THEN i + 1 ELSE i
<1>1. n \in Nat /\ DOMAIN entries = 1..n /\ p \in 1..n
  BY Found DEF IsList
<1>2. \A i \in 1..n : from(i) \in 1..n /\ to(i) \in 1..n /\ from(to(i)) = i /\ to(from(i)) = i
  BY <1>1
<1>3. \A i \in 1..n : s[i] = entries[from(i)]
  BY <1>1 DEF Promoted
<1>4. DOMAIN s = 1..n /\ s = [i \in 1..n |-> s[i]]
  BY <1>1 DEF Promoted
<1>. HIDE DEF n, p, s, from, to
<1>5. \A i \in 1..n : entries[i] \in Entry
  BY <1>1 DEF IsList, n
<1>6. \A i \in 1..n : s[i] \in Entry
  BY <1>2, <1>3, <1>5
<1>7. s \in Seq(Entry) /\ Len(s) = n
  <2>1. s \in [1..n -> Entry]
    BY <1>4, <1>6
  <2> QED BY <2>1, <1>1
<1>8. \A i, j \in 1..n : s[i].key = s[j].key => i = j
  <2> SUFFICES ASSUME NEW i \in 1..n, NEW j \in 1..n, s[i].key = s[j].key
               PROVE  i = j
    OBVIOUS
  <2>1. from(i) = from(j)
    BY <1>1, <1>2, <1>3 DEF IsList
  <2> QED BY <2>1, <1>2
<1>9. IsList(s)
  BY <1>1, <1>4, <1>7, <1>8 DEF IsList, n
<1>10. \A e : Has(s, e) <=> Has(entries, e)
  <2>1. ASSUME NEW e, Has(s, e) PROVE Has(entries, e)
    BY <2>1, <1>1, <1>2, <1>3, <1>4 DEF Has
  <2>2. ASSUME NEW e, Has(entries, e) PROVE Has(s, e)
    <3>1. PICK i \in 1..n : entries[i] = e
      BY <2>2, <1>1 DEF Has
    <3>2. to(i) \in 1..n /\ s[to(i)] = e
      BY <3>1, <1>2, <1>3
    <3> QED BY <3>2, <1>4 DEF Has
  <2> QED BY <2>1, <2>2
<1> QED BY <1>9, <1>10 DEF s

(* e comes first, the entries behind it.                                   *)
InFront(e, s) == s[1] = e /\ \A i \in 2..Len(s) : s[i] = entries[i - 1]

(* insert evicts the last entry when the list is full.                     *)
LEMMA Inserted ==
  ASSUME IsList(entries), CacheAssumption, NEW e \in Entry, ~Cached(e.key),
         NEW s, s = <<e>> \o (IF IsFull THEN Front(entries) ELSE entries)
  PROVE  /\ IsList(s)
         /\ Len(s) = IF IsFull THEN Len(entries) ELSE Len(entries) + 1
         /\ InFront(e, s)
         /\ IsFull => Has(entries, Last(entries)) /\ Last(entries) \in Entry
         /\ \A x : Has(s, x) <=> \/ x = e
                                 \/ Has(entries, x) /\ (IsFull => x # Last(entries))
<1>. DEFINE n == Len(entries)
            m == IF IsFull THEN n - 1 ELSE n
            kept == IF IsFull THEN Front(entries) ELSE entries
<1>1. n \in Nat /\ n <= Capacity /\ DOMAIN entries = 1..n
      /\ Capacity \in Nat \ {0} /\ entries \in Seq(Entry)
  BY DEF IsList, CacheAssumption
<1>. HIDE DEF n
<1>2. m \in Nat /\ m <= n /\ m + 1 <= Capacity /\ (IsFull => n >= 1 /\ m = n - 1) /\ (~IsFull => m = n)
  <2>1. IsFull <=> n >= Capacity
    BY DEF IsFull, n
  <2>2. CASE IsFull
    BY <2>1, <2>2, <1>1
  <2>3. CASE ~IsFull
    BY <2>1, <2>3, <1>1
  <2> QED BY <2>2, <2>3
<1>. HIDE DEF m
<1>3. kept \in Seq(Entry) /\ Len(kept) = m /\ \A i \in 1..m : kept[i] = entries[i]
  <2>1. CASE IsFull
    <3>1. kept = SubSeq(entries, 1, n - 1)
      BY <2>1 DEF Front, n
    <3>2. n - 1 \in 0..n /\ m = n - 1
      BY <2>1, <1>1, <1>2
    <3>3. SubSeq(entries, 1, n - 1) \in Seq(Entry) /\ Len(SubSeq(entries, 1, n - 1)) = n - 1
          /\ \A i \in 1..(n - 1) : SubSeq(entries, 1, n - 1)[i] = entries[i]
      BY <3>2, <1>1 DEF n
    <3> QED BY <3>1, <3>2, <3>3
  <2>2. CASE ~IsFull
    BY <2>2, <1>1, <1>2 DEF n
  <2> QED BY <2>1, <2>2
<1>4. /\ s \in Seq(Entry) /\ Len(s) = m + 1 /\ DOMAIN s = 1..(m + 1)
      /\ s[1] = e /\ \A i \in 2..(m + 1) : s[i] = entries[i - 1]
  <2>. HIDE DEF kept
  <2>1. s = <<e>> \o kept
    BY DEF kept
  <2>. DEFINE one == <<e>>
  <2>2. one \in Seq(Entry) /\ Len(one) = 1 /\ one[1] = e
    OBVIOUS
  <2>3. s = one \o kept
    BY <2>1
  <2>. HIDE DEF one
  <2>4. /\ s \in Seq(Entry) /\ Len(s) = 1 + m
        /\ \A i \in 1..(1 + m) : s[i] = IF i <= 1 THEN one[i] ELSE kept[i - 1]
    <3>1. /\ one \o kept \in Seq(Entry) /\ Len(one \o kept) = Len(one) + Len(kept)
          /\ \A i \in 1..(Len(one) + Len(kept)) :
                (one \o kept)[i] = IF i <= Len(one) THEN one[i] ELSE kept[i - Len(one)]
      BY <2>2, <1>3, ConcatProperties, ZenonT(30)
    <3> QED BY <3>1, <2>2, <2>3, <1>3
  <2>5. DOMAIN s = 1..(m + 1)
    BY <2>4, <1>2
  <2>6. s[1] = e
    BY <2>2, <2>4, <1>2
  <2>7. ASSUME NEW i \in 2..(m + 1) PROVE s[i] = kept[i - 1] /\ i - 1 \in 1..m
    BY <2>4, <1>2
  <2> QED BY <2>4, <2>5, <2>6, <2>7, <1>2, <1>3
<1>. HIDE DEF kept
<1>first. s[1] = e
  BY <1>4
<1>5. \A i \in 1..n : entries[i].key # e.key
  BY <1>1 DEF Cached
<1>6. \A i, j \in 1..(m + 1) : s[i].key = s[j].key => i = j
  <2> SUFFICES ASSUME NEW i \in 1..(m + 1), NEW j \in 1..(m + 1), s[i].key = s[j].key
               PROVE  i = j
    OBVIOUS
  <2>1. \A h \in 2..(m + 1) : h - 1 \in 1..n /\ s[h].key = entries[h - 1].key /\ s[h].key # e.key
    BY <1>1, <1>2, <1>4, <1>5
  <2>2. CASE i = 1 \/ j = 1
    BY <2>1, <2>2, <1>2, <1>4
  <2>3. CASE i # 1 /\ j # 1
    <3>1. i \in 2..(m + 1) /\ j \in 2..(m + 1)
      BY <2>3, <1>2
    <3>2. i - 1 \in 1..n /\ j - 1 \in 1..n /\ entries[i - 1].key = entries[j - 1].key
      BY <2>1, <3>1
    <3>3. i - 1 = j - 1
      BY <3>2, <1>1 DEF IsList
    <3> QED BY <3>3, <1>2
  <2> QED BY <2>2, <2>3
<1>7. IsList(s)
  BY <1>1, <1>2, <1>4, <1>6 DEF IsList
<1>8. IsFull => n \in 1..n /\ Last(entries) = entries[n] /\ Has(entries, Last(entries)) /\ Last(entries) \in Entry
  BY <1>1, <1>2, SMTT(30) DEF Last, Has
<1>9. ASSUME NEW x, Has(s, x)
      PROVE  x = e \/ (Has(entries, x) /\ (IsFull => x # Last(entries)))
  <2>1. PICK i \in 1..(m + 1) : s[i] = x
    BY <1>9, <1>4 DEF Has
  <2>2. CASE i = 1
    BY <2>1, <2>2, <1>first
  <2>3. CASE i # 1
    <3>1. i - 1 \in 1..m /\ i - 1 \in 1..n /\ x = entries[i - 1]
      BY <2>1, <2>3, <1>1, <1>2, <1>4
    <3>2. IsFull => i - 1 # n
      BY <3>1, <1>1, <1>2
    <3>3. IsFull => x # Last(entries)
      BY <3>1, <3>2, <1>1, <1>8 DEF IsList
    <3> QED BY <3>1, <3>3, <1>1 DEF Has
  <2> QED BY <2>2, <2>3
<1>10. Has(s, e)
  <2>1. 1 \in 1..(m + 1)
    BY <1>2
  <2> QED BY <2>1, <1>4 DEF Has
<1>11. ASSUME NEW x, Has(entries, x), IsFull => x # Last(entries)
       PROVE  Has(s, x)
  <2>1. PICK i \in 1..n : entries[i] = x
    BY <1>11, <1>1 DEF Has
  <2>2. i \in 1..m
    BY <2>1, <1>2, <1>8, <1>11
  <2>3. i + 1 \in 2..(m + 1) /\ (i + 1) - 1 = i /\ i + 1 \in 1..(m + 1)
    BY <2>2, <1>2
  <2>4. s[i + 1] = x
    BY <2>1, <2>3, <1>4
  <2> QED BY <2>3, <2>4, <1>4 DEF Has
<1>12. Len(s) = IF IsFull THEN n ELSE n + 1
  <2>1. Len(s) = m + 1
    BY <1>4
  <2> QED BY <2>1, <1>1, <1>2
<1>13. InFront(e, s)
  BY <1>4 DEF InFront
<1> QED BY <1>7, <1>8, <1>9, <1>10, <1>11, <1>12, <1>13 DEF n


-----------------------------------------------------------------------------
(* The owners.                                                             *)

(* A request that changes its local f into g changes the owners of what    *)
(* was there and of what is there now.                                     *)
LEMMA OwnedUpdated ==
  ASSUME CacheAssumption, NEW f \in [Requests -> Ops \cup {None}],
         NEW g \in [Requests -> Ops \cup {None}],
         NEW r \in Requests, NEW o \in Ops,
         \A q \in Requests : q # r => g[q] = f[q]
  PROVE  Owned(g, o) = (Owned(f, o) + (IF g[r] = o THEN 1 ELSE 0)) - (IF f[r] = o THEN 1 ELSE 0)
<1>. DEFINE S == {q \in Requests : f[q] = o}
            T == {q \in Requests : g[q] = o}
<1>1. IsFiniteSet(Requests) /\ S \in SUBSET Requests /\ T \in SUBSET Requests
  BY DEF CacheAssumption
<1>2. IsFiniteSet(S) /\ IsFiniteSet(T) /\ Cardinality(S) \in Nat /\ Cardinality(T) \in Nat
  BY <1>1, FS_Subset, FS_CardinalityType
<1>3. Cardinality(T) = (Cardinality(S) + (IF g[r] = o THEN 1 ELSE 0)) - (IF f[r] = o THEN 1 ELSE 0)
  <2>1. CASE g[r] = o
    <3>1. T = S \cup {r} /\ (r \in S <=> f[r] = o)
      BY <2>1
    <3>2. Cardinality(T) = IF r \in S THEN Cardinality(S) ELSE Cardinality(S) + 1
      BY <3>1, <1>2, FS_AddElement
    <3> QED BY <2>1, <3>1, <3>2, <1>2
  <2>2. CASE g[r] # o
    <3>1. T = S \ {r} /\ (r \in S <=> f[r] = o)
      BY <2>2
    <3>2. Cardinality(S \ {r}) = IF r \in S THEN Cardinality(S) - 1 ELSE Cardinality(S)
      BY <1>2, FS_RemoveElement
    <3>3. Cardinality(T) = Cardinality(S \ {r})
      BY <3>1
    <3>. HIDE DEF S, T
    <3> QED BY <2>2, <3>1, <3>2, <3>3, <1>2
  <2> QED BY <2>1, <2>2
<1> QED BY <1>3 DEF Owned

LEMMA OwnedTypes ==
  ASSUME CacheAssumption, NEW f \in [Requests -> Ops \cup {None}], NEW o \in Ops
  PROVE  /\ Owned(f, o) \in Nat
         /\ \A q \in Requests : f[q] = o => Owned(f, o) >= 1
<1>. DEFINE S == {q \in Requests : f[q] = o}
<1>1. IsFiniteSet(S) /\ Cardinality(S) \in Nat
  BY FS_Subset, FS_CardinalityType DEF CacheAssumption
<1>2. S # {} => Cardinality(S) # 0
  BY <1>1, FS_EmptySet
<1>3. ASSUME NEW q \in Requests, f[q] = o PROVE Cardinality(S) >= 1
  <2>1. q \in S
    BY <1>3
  <2> QED BY <2>1, <1>1, <1>2
<1> QED BY <1>1, <1>3 DEF Owned

(* Counting the owners up and down: an object is freed with its last one,  *)
(* and no other object changes.                                            *)
LEMMA Counted ==
  ASSUME TypeOK, CacheAssumption,
         \A o \in Ops : refs[o] = 0 <=> madeFor[o] = None,
         NEW gained \in SUBSET Ops, NEW lost \in SUBSET Ops, Own(gained, lost),
         \A o \in gained \cup lost : refs[o] >= 1
  PROVE  /\ refs' \in [Ops -> Nat] /\ madeFor' \in [Ops -> Keys \cup {None}]
         /\ \A o \in Ops :
              /\ refs'[o] = (refs[o] + (IF o \in gained THEN 1 ELSE 0))
                                     - (IF o \in lost THEN 1 ELSE 0)
              /\ refs'[o] = 0 <=> madeFor'[o] = None
              /\ refs'[o] # 0 => madeFor'[o] = madeFor[o]
<1>. DEFINE c(o) == (refs[o] + (IF o \in gained THEN 1 ELSE 0)) - (IF o \in lost THEN 1 ELSE 0)
<1>1. \A o \in Ops : refs[o] \in Nat /\ c(o) \in Nat
  BY DEF TypeOK
<1>2. refs' = [o \in Ops |-> c(o)]
      /\ madeFor' = [o \in Ops |-> IF o \in lost /\ c(o) = 0 THEN None ELSE madeFor[o]]
  BY DEF Own
<1>3. refs' \in [Ops -> Nat] /\ madeFor' \in [Ops -> Keys \cup {None}]
  BY <1>1, <1>2 DEF TypeOK
<1>4. ASSUME NEW o \in Ops
      PROVE  /\ refs'[o] = c(o)
             /\ refs'[o] = 0 <=> madeFor'[o] = None
             /\ refs'[o] # 0 => madeFor'[o] = madeFor[o]
  <2>1. refs'[o] = c(o) /\ madeFor'[o] = IF o \in lost /\ c(o) = 0 THEN None ELSE madeFor[o]
    BY <1>2
  <2>2. refs[o] \in Nat /\ (o \in gained \cup lost => refs[o] >= 1)
    BY <1>1
  <2>3. c(o) = 0 => o \in lost \/ refs[o] = 0
    BY <2>2
  <2>4. refs[o] = 0 => c(o) = 0
    BY <2>2
  <2> QED BY <2>1, <2>3, <2>4
<1> QED BY <1>3, <1>4

(* What is owned afterwards keeps its key.                                 *)
LEMMA Survives ==
  ASSUME TypeOK, CacheAssumption, CountInv,
         NEW gained \in SUBSET Ops, NEW lost \in SUBSET Ops, Own(gained, lost),
         \A o \in gained \cup lost : refs[o] >= 1,
         IsList(entries'),
         held' \in [Requests -> Ops \cup {None}], made' \in [Requests -> Ops \cup {None}],
         \A o \in Ops : (refs[o] + (IF o \in gained THEN 1 ELSE 0)) - (IF o \in lost THEN 1 ELSE 0)
                          = CacheOwns(entries', o) + Owned(held', o) + Owned(made', o)
  PROVE  /\ refs' \in [Ops -> Nat] /\ madeFor' \in [Ops -> Keys \cup {None}]
         /\ CountInv'
         /\ \A e : Has(entries', e) => madeFor'[e.op] = madeFor[e.op]
         /\ \A q \in Requests : held'[q] # None => madeFor'[held'[q]] = madeFor[held'[q]]
         /\ \A q \in Requests : made'[q] # None => madeFor'[made'[q]] = madeFor[made'[q]]
<1>1. /\ refs' \in [Ops -> Nat] /\ madeFor' \in [Ops -> Keys \cup {None}]
      /\ \A o \in Ops :
           /\ refs'[o] = (refs[o] + (IF o \in gained THEN 1 ELSE 0)) - (IF o \in lost THEN 1 ELSE 0)
           /\ refs'[o] = 0 <=> madeFor'[o] = None
           /\ refs'[o] # 0 => madeFor'[o] = madeFor[o]
  <2>1. \A o \in Ops : refs[o] = 0 <=> madeFor[o] = None
    BY DEF CountInv
  <2> QED BY <2>1, Counted
<1>2. CountInv'
  BY <1>1 DEF CountInv
<1>3. \A o \in Ops : /\ Owned(held', o) \in Nat /\ Owned(made', o) \in Nat
                     /\ \A q \in Requests : held'[q] = o => Owned(held', o) >= 1
                     /\ \A q \in Requests : made'[q] = o => Owned(made', o) >= 1
  BY OwnedTypes
<1>4. \A o \in Ops : CacheOwns(entries', o) \in {0, 1}
  BY DEF CacheOwns
<1>5. \A o \in Ops : refs'[o] = CacheOwns(entries', o) + Owned(held', o) + Owned(made', o)
  BY <1>1
<1>6. ASSUME NEW q \in Requests, held'[q] # None
      PROVE  madeFor'[held'[q]] = madeFor[held'[q]]
  <2>1. held'[q] \in Ops
    BY <1>6
  <2>2. refs'[held'[q]] # 0
    BY <2>1, <1>3, <1>4, <1>5
  <2> QED BY <2>1, <2>2, <1>1
<1>7. ASSUME NEW q \in Requests, made'[q] # None
      PROVE  madeFor'[made'[q]] = madeFor[made'[q]]
  <2>1. made'[q] \in Ops
    BY <1>7
  <2>2. refs'[made'[q]] # 0
    BY <2>1, <1>3, <1>4, <1>5
  <2> QED BY <2>1, <2>2, <1>1
<1>8. ASSUME NEW e, Has(entries', e)
      PROVE  madeFor'[e.op] = madeFor[e.op]
  <2>1. e.op \in Ops
    BY <1>8, EntryTypes
  <2>2. CacheOwns(entries', e.op) = 1
    BY <1>8 DEF CacheOwns
  <2>3. refs'[e.op] # 0
    BY <2>1, <2>2, <1>3, <1>5
  <2> QED BY <2>1, <2>3, <1>1
<1> QED BY <1>1, <1>2, <1>6, <1>7, <1>8

-----------------------------------------------------------------------------
(* The steps.                                                              *)

(* What the request that looks k up finds: an object with an owner, made   *)
(* for k.                                                                  *)
LEMMA StoredIsOwned ==
  ASSUME IInv, CacheAssumption, NEW k, Cached(k)
  PROVE  /\ Stored(k) \in Ops /\ Stored(k) # None /\ madeFor[Stored(k)] = k
         /\ refs[Stored(k)] >= 1
<1>. DEFINE e == entries[Position(k)]
<1>1. IsList(entries)
  BY TypeIsList DEF IInv
<1>2. Has(entries, e) /\ e.key = k
  BY Found DEF Has
<1>3. e.op \in Ops /\ madeFor[e.op] = k
  BY <1>1, <1>2, EntryTypes DEF IInv, MatchInv
<1>4. CacheOwns(entries, e.op) = 1
  BY <1>2 DEF CacheOwns
<1>5. Owned(held, e.op) \in Nat /\ Owned(made, e.op) \in Nat
  <2>1. IsFiniteSet(Requests)
    BY DEF CacheAssumption
  <2>2. \A S \in SUBSET Requests : Cardinality(S) \in Nat
    BY <2>1, FS_Subset, FS_CardinalityType
  <2> QED BY <2>2 DEF Owned
<1>6. refs[e.op] >= 1
  BY <1>3, <1>4, <1>5 DEF IInv, CountInv
<1>7. e.op # None
  BY <1>3 DEF CacheAssumption
<1> QED BY <1>3, <1>6, <1>7 DEF Stored

(* A hit at the first or the second lookup: the list is rotated, and the   *)
(* object gains the request as an owner.                                   *)
LEMMA HitStep ==
  ASSUME IInv, CacheAssumption, NEW r \in Requests, Cached(key[r]),
         held[r] = None, entries' = Promoted(key[r]),
         held' = [held EXCEPT ![r] = Stored(key[r])],
         Own({Stored(key[r])}, {}), UNCHANGED <<key, made>>,
         key[r] # None,
         NEW next \in {"discarding", "executing"}, pc' = [pc EXCEPT ![r] = next],
         made[r] # None <=> next = "discarding"
  PROVE  IInv'
<1>. DEFINE o1 == Stored(key[r])
<1>1. o1 \in Ops /\ o1 # None /\ madeFor[o1] = key[r] /\ refs[o1] >= 1
  BY StoredIsOwned
<1>2. IsList(entries') /\ \A e : Has(entries', e) <=> Has(entries, e)
  BY TypeIsList, Rotated DEF IInv
<1>3. /\ held \in [Requests -> Ops \cup {None}] /\ made \in [Requests -> Ops \cup {None}]
      /\ held' \in [Requests -> Ops \cup {None}] /\ made' = made
  BY <1>1 DEF IInv, TypeOK
<1>. HIDE DEF o1
<1>4. \A o \in Ops : (refs[o] + (IF o \in {o1} THEN 1 ELSE 0)) - (IF o \in {} THEN 1 ELSE 0)
                       = CacheOwns(entries', o) + Owned(held', o) + Owned(made', o)
  <2> SUFFICES ASSUME NEW o \in Ops
               PROVE  (refs[o] + (IF o \in {o1} THEN 1 ELSE 0)) - (IF o \in {} THEN 1 ELSE 0)
                        = CacheOwns(entries', o) + Owned(held', o) + Owned(made', o)
    OBVIOUS
  <2>1. CacheOwns(entries', o) = CacheOwns(entries, o) /\ CacheOwns(entries, o) \in {0, 1}
    BY <1>2 DEF CacheOwns
  <2>2. Owned(held', o) = (Owned(held, o) + (IF o1 = o THEN 1 ELSE 0)) - (IF held[r] = o THEN 1 ELSE 0)
        /\ Owned(held, o) \in Nat
    <3>1. held'[r] = o1 /\ \A q \in Requests : q # r => held'[q] = held[q]
      BY <1>3 DEF o1
    <3>2. Owned(held', o) = (Owned(held, o) + (IF held'[r] = o THEN 1 ELSE 0))
                                            - (IF held[r] = o THEN 1 ELSE 0)
      <4>. DEFINE f == held
                  g == held'
      <4>1. f \in [Requests -> Ops \cup {None}] /\ g \in [Requests -> Ops \cup {None}]
            /\ \A q \in Requests : q # r => g[q] = f[q]
        BY <3>1, <1>3
      <4>. HIDE DEF f, g
      <4>2. Owned(g, o) = (Owned(f, o) + (IF g[r] = o THEN 1 ELSE 0)) - (IF f[r] = o THEN 1 ELSE 0)
        BY <4>1, OwnedUpdated
      <4> QED BY <4>2 DEF f, g
    <3>3. Owned(held, o) \in Nat
      BY <1>3, OwnedTypes
    <3> QED BY <3>1, <3>2, <3>3
  <2>3. held[r] # o
    BY DEF CacheAssumption
  <2>4. Owned(made', o) = Owned(made, o) /\ Owned(made, o) \in Nat
    BY <1>3, OwnedTypes
  <2>5. refs[o] = CacheOwns(entries, o) + Owned(held, o) + Owned(made, o)
    BY DEF IInv, CountInv
  <2> QED BY <2>1, <2>2, <2>3, <2>4, <2>5
<1>5. /\ refs' \in [Ops -> Nat] /\ madeFor' \in [Ops -> Keys \cup {None}]
      /\ CountInv'
      /\ \A e : Has(entries', e) => madeFor'[e.op] = madeFor[e.op]
      /\ \A q \in Requests : held'[q] # None => madeFor'[held'[q]] = madeFor[held'[q]]
      /\ \A q \in Requests : made'[q] # None => madeFor'[made'[q]] = madeFor[made'[q]]
  <2>. DEFINE gained == {o1}
              lost == {}
  <2>1. gained \in SUBSET Ops /\ lost \in SUBSET Ops /\ Own(gained, lost)
        /\ \A o \in gained \cup lost : refs[o] >= 1
    BY <1>1 DEF o1
  <2>2. \A o \in Ops : (refs[o] + (IF o \in gained THEN 1 ELSE 0)) - (IF o \in lost THEN 1 ELSE 0)
                          = CacheOwns(entries', o) + Owned(held', o) + Owned(made', o)
    BY <1>4
  <2>3. TypeOK /\ CountInv /\ made' \in [Requests -> Ops \cup {None}]
    BY <1>3 DEF IInv
  <2>. HIDE DEF gained, lost
  <2> QED BY <2>1, <2>2, <2>3, <1>2, <1>3, Survives, ZenonT(30)
<1>6. TypeOK'
  BY <1>2, <1>3, <1>5 DEF IInv, TypeOK, IsList, Entry
<1>7. LocalsInv'
  BY <1>1, <1>3 DEF IInv, LocalsInv, TypeOK, o1
<1>8. MatchInv'
  <2>1. \A q \in Requests : held'[q] # None => madeFor[held'[q]] = key[q]
    BY <1>1, <1>3 DEF IInv, MatchInv, o1
  <2>2. \A q \in Requests : made'[q] # None => madeFor[made'[q]] = key[q]
    BY <1>3 DEF IInv, MatchInv
  <2>3. \A e : Has(entries', e) => madeFor[e.op] = e.key
    BY <1>2 DEF IInv, MatchInv
  <2> QED BY <2>1, <2>2, <2>3, <1>5 DEF MatchInv
<1> QED BY <1>5, <1>6, <1>7, <1>8 DEF IInv

(* The object that a request made is stored, and the list may lose its     *)
(* last entry.                                                             *)
LEMMA InsertStep ==
  ASSUME IInv, CacheAssumption, NEW r \in Requests, Insert(r)
  PROVE  IInv'
<1>. DEFINE o1 == made[r]
            e1 == [key |-> key[r], op |-> made[r]]
            gained == {made[r]}
            lost == IF IsFull THEN {Last(entries).op} ELSE {}
<1>1. /\ pc[r] = "inserting" /\ ~Cached(key[r]) /\ Own(gained, lost)
      /\ entries' = <<e1>> \o (IF IsFull THEN Front(entries) ELSE entries)
      /\ held' = [held EXCEPT ![r] = o1] /\ made' = [made EXCEPT ![r] = None]
      /\ pc' = [pc EXCEPT ![r] = "executing"] /\ key' = key
  BY DEF Insert
<1>2. /\ o1 \in Ops /\ o1 # None /\ key[r] \in Keys /\ madeFor[o1] = key[r]
      /\ held[r] = None /\ key[r] # None
  BY <1>1 DEF IInv, TypeOK, LocalsInv, MatchInv
<1>3. /\ held \in [Requests -> Ops \cup {None}] /\ made \in [Requests -> Ops \cup {None}]
      /\ held' \in [Requests -> Ops \cup {None}] /\ made' \in [Requests -> Ops \cup {None}]
  BY <1>1, <1>2 DEF IInv, TypeOK
<1>4. /\ e1 \in Entry /\ e1.key = key[r] /\ e1.op = o1
  BY <1>2 DEF Entry
<1>. HIDE DEF e1, o1
<1>5. /\ IsList(entries')
      /\ IsFull => Has(entries, Last(entries)) /\ Last(entries) \in Entry
      /\ \A x : Has(entries', x) <=> \/ x = e1
                                     \/ Has(entries, x) /\ (IsFull => x # Last(entries))
  <2>1. IsList(entries) /\ ~Cached(e1.key)
    BY <1>1, <1>4, TypeIsList DEF IInv
  <2> QED BY <2>1, <1>1, <1>4, Inserted
<1>6. \A e : Has(entries, e) => e \in Entry /\ e.op \in Ops /\ madeFor[e.op] = e.key /\ e.key # key[r] /\ e.op # o1
  <2> SUFFICES ASSUME NEW e, Has(entries, e)
               PROVE  e \in Entry /\ e.op \in Ops /\ madeFor[e.op] = e.key /\ e.key # key[r] /\ e.op # o1
    OBVIOUS
  <2>1. e \in Entry /\ e.op \in Ops
    BY TypeIsList, EntryTypes DEF IInv
  <2>2. madeFor[e.op] = e.key
    BY DEF IInv, MatchInv
  <2>3. e.key # key[r]
    BY <1>1 DEF Cached, Has
  <2> QED BY <2>1, <2>2, <2>3, <1>2
<1>7. IsFull => Last(entries).op \in Ops /\ Last(entries).op # o1
                /\ CacheOwns(entries, Last(entries).op) = 1
  BY <1>5, <1>6 DEF CacheOwns
<1>8. \A o \in Ops : /\ Owned(held, o) \in Nat /\ Owned(made, o) \in Nat
                     /\ Owned(held', o) = Owned(held, o) + (IF o1 = o THEN 1 ELSE 0)
                     /\ Owned(made', o) = Owned(made, o) - (IF o1 = o THEN 1 ELSE 0)
                     /\ o1 = o => Owned(made, o) >= 1
  <2> SUFFICES ASSUME NEW o \in Ops
               PROVE  /\ Owned(held, o) \in Nat /\ Owned(made, o) \in Nat
                      /\ Owned(held', o) = Owned(held, o) + (IF o1 = o THEN 1 ELSE 0)
                      /\ Owned(made', o) = Owned(made, o) - (IF o1 = o THEN 1 ELSE 0)
                      /\ o1 = o => Owned(made, o) >= 1
    OBVIOUS
  <2>1. Owned(held, o) \in Nat
        /\ Owned(held', o)
             = (Owned(held, o) + (IF o1 = o THEN 1 ELSE 0)) - (IF held[r] = o THEN 1 ELSE 0)
    <3>1. held'[r] = o1 /\ \A q \in Requests : q # r => held'[q] = held[q]
      BY <1>1, <1>3
    <3> QED BY <3>1, <1>3, OwnedUpdated, OwnedTypes
  <2>2. Owned(made, o) \in Nat
        /\ (\A q \in Requests : made[q] = o => Owned(made, o) >= 1)
        /\ Owned(made', o)
             = (Owned(made, o) + (IF None = o THEN 1 ELSE 0)) - (IF made[r] = o THEN 1 ELSE 0)
    <3>1. made'[r] = None /\ \A q \in Requests : q # r => made'[q] = made[q]
      BY <1>1, <1>3
    <3> QED BY <3>1, <1>3, OwnedUpdated, OwnedTypes
  <2>3. None # o /\ held[r] # o /\ made[r] = o1
    BY <1>2 DEF CacheAssumption, o1
  <2> QED BY <2>1, <2>2, <2>3
<1>9. \A o \in Ops : refs[o] = CacheOwns(entries, o) + Owned(held, o) + Owned(made, o)
                     /\ CacheOwns(entries, o) \in {0, 1} /\ refs[o] \in Nat
  BY DEF IInv, CountInv, CacheOwns, TypeOK
<1>10. \A o \in Ops : o \in gained <=> o = o1
  BY DEF o1
<1>11. \A o \in Ops : o \in lost <=> IsFull /\ o = Last(entries).op
  OBVIOUS
<1>12. gained \in SUBSET Ops /\ lost \in SUBSET Ops /\ \A o \in gained \cup lost : refs[o] >= 1
  <2>1. refs[o1] >= 1
    BY <1>2, <1>8, <1>9
  <2>2. IsFull => refs[Last(entries).op] >= 1
    BY <1>7, <1>8, <1>9
  <2> QED BY <2>1, <2>2, <1>2, <1>7 DEF o1
<1>. HIDE DEF gained, lost
<1>13. \A o \in Ops : CacheOwns(entries', o)
          = (CacheOwns(entries, o) + (IF o \in gained THEN 1 ELSE 0)) - (IF o \in lost THEN 1 ELSE 0)
  <2> SUFFICES ASSUME NEW o \in Ops
               PROVE  CacheOwns(entries', o)
                        = (CacheOwns(entries, o) + (IF o \in gained THEN 1 ELSE 0)) - (IF o \in lost THEN 1 ELSE 0)
    OBVIOUS
  <2>1. CASE o = o1
    <3>1. CacheOwns(entries', o) = 1
      BY <2>1, <1>4, <1>5 DEF CacheOwns
    <3>2. CacheOwns(entries, o) = 0
      BY <2>1, <1>6 DEF CacheOwns
    <3>3. o \in gained /\ o \notin lost
      BY <2>1, <1>7, <1>10, <1>11
    <3> QED BY <3>1, <3>2, <3>3
  <2>2. CASE o \in lost
    <3>1. IsFull /\ o = Last(entries).op /\ o # o1
      BY <2>2, <1>7, <1>11
    <3>2. CacheOwns(entries, o) = 1
      BY <3>1, <1>7
    <3>3. ASSUME NEW x, Has(entries', x), x.op = o
          PROVE  FALSE
      <4>1. Has(entries, x) /\ x # Last(entries) /\ Has(entries, Last(entries))
        BY <3>1, <3>3, <1>4, <1>5
      <4>2. x.key = Last(entries).key
        BY <4>1, <3>1, <3>3, <1>6
      <4> QED BY <4>1, <4>2, TypeIsList DEF Has, IsList, IInv
    <3>4. CacheOwns(entries', o) = 0
      BY <3>3 DEF CacheOwns
    <3> QED BY <3>1, <3>2, <3>4, <2>2, <1>10
  <2>3. CASE o # o1 /\ o \notin lost
    <3>1. \A x : x.op = o => (Has(entries', x) <=> Has(entries, x))
      BY <2>3, <1>4, <1>5, <1>11
    <3>2. CacheOwns(entries', o) = CacheOwns(entries, o)
      BY <3>1 DEF CacheOwns
    <3> QED BY <3>2, <2>3, <1>9, <1>10
  <2> QED BY <2>1, <2>2, <2>3
<1>14. \A o \in Ops : (refs[o] + (IF o \in gained THEN 1 ELSE 0)) - (IF o \in lost THEN 1 ELSE 0)
                       = CacheOwns(entries', o) + Owned(held', o) + Owned(made', o)
  BY <1>8, <1>9, <1>10, <1>13
<1>15. /\ refs' \in [Ops -> Nat] /\ madeFor' \in [Ops -> Keys \cup {None}]
       /\ CountInv'
       /\ \A e : Has(entries', e) => madeFor'[e.op] = madeFor[e.op]
       /\ \A q \in Requests : held'[q] # None => madeFor'[held'[q]] = madeFor[held'[q]]
       /\ \A q \in Requests : made'[q] # None => madeFor'[made'[q]] = madeFor[made'[q]]
  <2>1. TypeOK /\ CountInv
    BY DEF IInv
  <2>2. Own(gained, lost) /\ IsList(entries')
    BY <1>1, <1>5
  <2>3. held' \in [Requests -> Ops \cup {None}] /\ made' \in [Requests -> Ops \cup {None}]
    BY <1>3
  <2> QED BY <2>1, <2>2, <2>3, <1>12, <1>14, Survives
<1>16. TypeOK'
  BY <1>1, <1>3, <1>5, <1>15 DEF IInv, TypeOK, IsList, Entry
<1>17. LocalsInv'
  BY <1>1, <1>2 DEF IInv, LocalsInv, TypeOK
<1>18. MatchInv'
  <2>1. \A q \in Requests : held'[q] # None => madeFor[held'[q]] = key[q]
    BY <1>1, <1>2, <1>3 DEF IInv, MatchInv
  <2>2. \A q \in Requests : made'[q] # None => madeFor[made'[q]] = key[q]
    BY <1>1, <1>3 DEF IInv, MatchInv
  <2>3. \A e : Has(entries', e) => madeFor[e.op] = e.key
    BY <1>2, <1>4, <1>5, <1>6
  <2> QED BY <2>1, <2>2, <2>3, <1>1, <1>15, ZenonT(30) DEF MatchInv
<1> QED BY <1>15, <1>16, <1>17, <1>18 DEF IInv

(* What a request holds or has made has an owner.                          *)
LEMMA LocalsAreOwned ==
  ASSUME IInv, CacheAssumption, NEW q \in Requests
  PROVE  /\ held[q] # None => held[q] \in Ops /\ refs[held[q]] >= 1
         /\ made[q] # None => made[q] \in Ops /\ refs[made[q]] >= 1
<1>1. held \in [Requests -> Ops \cup {None}] /\ made \in [Requests -> Ops \cup {None}]
  BY DEF IInv, TypeOK
<1>2. \A o \in Ops : refs[o] = CacheOwns(entries, o) + Owned(held, o) + Owned(made, o)
                     /\ CacheOwns(entries, o) \in {0, 1}
  BY DEF IInv, CountInv, CacheOwns
<1>3. ASSUME NEW o \in Ops, held[q] = o \/ made[q] = o
      PROVE  refs[o] >= 1
  <2>1. Owned(held, o) \in Nat /\ (held[q] = o => Owned(held, o) >= 1)
    BY <1>1, OwnedTypes
  <2>2. Owned(made, o) \in Nat /\ (made[q] = o => Owned(made, o) >= 1)
    BY <1>1, OwnedTypes
  <2> QED BY <2>1, <2>2, <1>2, <1>3
<1>4. (held[q] # None => held[q] \in Ops) /\ (made[q] # None => made[q] \in Ops)
  BY <1>1
<1> QED BY <1>3, <1>4

(* The request that came too late drops the object it made.                *)
LEMMA DiscardStep ==
  ASSUME IInv, CacheAssumption, NEW r \in Requests, Discard(r)
  PROVE  IInv'
<1>. DEFINE lost == {made[r]}
            gained == {}
<1>1. /\ pc[r] = "discarding" /\ Own(gained, lost)
      /\ made' = [made EXCEPT ![r] = None] /\ pc' = [pc EXCEPT ![r] = "executing"]
      /\ entries' = entries /\ key' = key /\ held' = held
  BY DEF Discard
<1>2. made[r] \in Ops /\ refs[made[r]] >= 1 /\ made[r] # None
  BY <1>1, LocalsAreOwned DEF IInv, LocalsInv
<1>3. /\ made \in [Requests -> Ops \cup {None}] /\ made' \in [Requests -> Ops \cup {None}]
      /\ held' \in [Requests -> Ops \cup {None}] /\ IsList(entries')
      /\ made'[r] = None /\ \A q \in Requests : q # r => made'[q] = made[q]
  BY <1>1, TypeIsList DEF IInv, TypeOK
<1>4. \A o \in Ops : Owned(made', o) = Owned(made, o) - (IF made[r] = o THEN 1 ELSE 0)
                     /\ Owned(made, o) \in Nat /\ Owned(held, o) \in Nat
  <2> SUFFICES ASSUME NEW o \in Ops
               PROVE  Owned(made', o) = Owned(made, o) - (IF made[r] = o THEN 1 ELSE 0)
                      /\ Owned(made, o) \in Nat /\ Owned(held, o) \in Nat
    OBVIOUS
  <2>. DEFINE f == made
              g == made'
  <2>1. f \in [Requests -> Ops \cup {None}] /\ g \in [Requests -> Ops \cup {None}]
        /\ \A q \in Requests : q # r => g[q] = f[q]
    BY <1>3
  <2>. HIDE DEF f, g
  <2>2. Owned(g, o) = (Owned(f, o) + (IF g[r] = o THEN 1 ELSE 0)) - (IF f[r] = o THEN 1 ELSE 0)
    BY <2>1, OwnedUpdated
  <2>3. g[r] # o
    BY <1>3 DEF g, CacheAssumption
  <2>4. Owned(f, o) \in Nat
    BY <2>1, OwnedTypes
  <2>5. Owned(held, o) \in Nat
    BY <1>1, <1>3, OwnedTypes
  <2>6. Owned(g, o) = Owned(f, o) - (IF f[r] = o THEN 1 ELSE 0)
    BY <2>2, <2>3, <2>4
  <2> QED BY <2>4, <2>5, <2>6 DEF f, g
<1>5. \A o \in gained \cup lost : refs[o] >= 1
  BY <1>2
<1>6. gained \in SUBSET Ops /\ lost \in SUBSET Ops
  BY <1>2
<1>7. \A o \in Ops : (refs[o] + (IF o \in gained THEN 1 ELSE 0)) - (IF o \in lost THEN 1 ELSE 0)
                       = CacheOwns(entries', o) + Owned(held', o) + Owned(made', o)
  <2>1. \A o \in Ops : refs[o] = CacheOwns(entries, o) + Owned(held, o) + Owned(made, o)
                       /\ CacheOwns(entries, o) \in {0, 1}
    BY DEF IInv, CountInv, CacheOwns
  <2>2. ASSUME NEW o \in Ops
        PROVE  (refs[o] + (IF o \in gained THEN 1 ELSE 0)) - (IF o \in lost THEN 1 ELSE 0)
                 = CacheOwns(entries, o) + Owned(held', o) + Owned(made', o)
    <3>1. o \notin gained /\ (o \in lost <=> made[r] = o)
      OBVIOUS
    <3>. HIDE DEF gained, lost
    <3>2. Owned(made, o) \in Nat /\ Owned(held, o) \in Nat /\ Owned(made', o) = Owned(made, o) - (IF made[r] = o THEN 1 ELSE 0)
      BY <1>4
    <3>3. Owned(held', o) = Owned(held, o)
      BY <1>1
    <3> QED BY <2>1, <3>1, <3>2, <3>3
  <2> QED BY <2>2, <1>1
<1>. HIDE DEF gained, lost
<1>8. /\ refs' \in [Ops -> Nat] /\ madeFor' \in [Ops -> Keys \cup {None}]
      /\ CountInv'
      /\ \A e : Has(entries', e) => madeFor'[e.op] = madeFor[e.op]
      /\ \A q \in Requests : held'[q] # None => madeFor'[held'[q]] = madeFor[held'[q]]
      /\ \A q \in Requests : made'[q] # None => madeFor'[made'[q]] = madeFor[made'[q]]
  <2>1. TypeOK /\ CountInv /\ Own(gained, lost)
    BY <1>1 DEF IInv
  <2> QED BY <2>1, <1>3, <1>5, <1>6, <1>7, Survives, ZenonT(30)
<1>9. TypeOK'
  BY <1>1, <1>3, <1>8 DEF IInv, TypeOK
<1>10. LocalsInv'
  BY <1>1, <1>3 DEF IInv, LocalsInv, TypeOK
<1>11. MatchInv'
  BY <1>1, <1>3, <1>8 DEF IInv, MatchInv
<1> QED BY <1>8, <1>9, <1>10, <1>11 DEF IInv

(* The request that is done drops the object it executed.                  *)
LEMMA FinishStep ==
  ASSUME IInv, CacheAssumption, NEW r \in Requests, Finish(r)
  PROVE  IInv'
<1>. DEFINE lost == {held[r]}
            gained == {}
<1>1. /\ pc[r] = "executing" /\ Own(gained, lost)
      /\ held' = [held EXCEPT ![r] = None] /\ pc' = [pc EXCEPT ![r] = "idle"]
      /\ key' = [key EXCEPT ![r] = None]
      /\ entries' = entries /\ made' = made
  BY DEF Finish
<1>2. held[r] \in Ops /\ refs[held[r]] >= 1 /\ held[r] # None /\ made[r] = None
  BY <1>1, LocalsAreOwned DEF IInv, LocalsInv
<1>3. /\ held \in [Requests -> Ops \cup {None}] /\ held' \in [Requests -> Ops \cup {None}]
      /\ made' \in [Requests -> Ops \cup {None}] /\ IsList(entries')
      /\ held'[r] = None /\ \A q \in Requests : q # r => held'[q] = held[q]
  BY <1>1, TypeIsList DEF IInv, TypeOK
<1>4. \A o \in Ops : Owned(held', o) = Owned(held, o) - (IF held[r] = o THEN 1 ELSE 0)
                     /\ Owned(held, o) \in Nat /\ Owned(made, o) \in Nat
  <2> SUFFICES ASSUME NEW o \in Ops
               PROVE  Owned(held', o) = Owned(held, o) - (IF held[r] = o THEN 1 ELSE 0)
                      /\ Owned(held, o) \in Nat /\ Owned(made, o) \in Nat
    OBVIOUS
  <2>. DEFINE f == held
              g == held'
  <2>1. f \in [Requests -> Ops \cup {None}] /\ g \in [Requests -> Ops \cup {None}]
        /\ \A q \in Requests : q # r => g[q] = f[q]
    BY <1>3
  <2>. HIDE DEF f, g
  <2>2. Owned(g, o) = (Owned(f, o) + (IF g[r] = o THEN 1 ELSE 0)) - (IF f[r] = o THEN 1 ELSE 0)
    BY <2>1, OwnedUpdated
  <2>3. g[r] # o
    BY <1>3 DEF g, CacheAssumption
  <2>4. Owned(f, o) \in Nat
    BY <2>1, OwnedTypes
  <2>5. Owned(made, o) \in Nat
    BY <1>1, <1>3, OwnedTypes
  <2>6. Owned(g, o) = Owned(f, o) - (IF f[r] = o THEN 1 ELSE 0)
    BY <2>2, <2>3, <2>4
  <2> QED BY <2>4, <2>5, <2>6 DEF f, g
<1>5. \A o \in gained \cup lost : refs[o] >= 1
  BY <1>2
<1>6. gained \in SUBSET Ops /\ lost \in SUBSET Ops
  BY <1>2
<1>7. \A o \in Ops : (refs[o] + (IF o \in gained THEN 1 ELSE 0)) - (IF o \in lost THEN 1 ELSE 0)
                       = CacheOwns(entries', o) + Owned(held', o) + Owned(made', o)
  <2>1. \A o \in Ops : refs[o] = CacheOwns(entries, o) + Owned(held, o) + Owned(made, o)
                       /\ CacheOwns(entries, o) \in {0, 1}
    BY DEF IInv, CountInv, CacheOwns
  <2>2. ASSUME NEW o \in Ops
        PROVE  (refs[o] + (IF o \in gained THEN 1 ELSE 0)) - (IF o \in lost THEN 1 ELSE 0)
                 = CacheOwns(entries, o) + Owned(held', o) + Owned(made', o)
    <3>1. o \notin gained /\ (o \in lost <=> held[r] = o)
      OBVIOUS
    <3>. HIDE DEF gained, lost
    <3>2. Owned(made, o) \in Nat /\ Owned(held, o) \in Nat /\ Owned(held', o) = Owned(held, o) - (IF held[r] = o THEN 1 ELSE 0)
      BY <1>4
    <3>3. Owned(made', o) = Owned(made, o)
      BY <1>1
    <3> QED BY <2>1, <3>1, <3>2, <3>3
  <2> QED BY <2>2, <1>1
<1>. HIDE DEF gained, lost
<1>8. /\ refs' \in [Ops -> Nat] /\ madeFor' \in [Ops -> Keys \cup {None}]
      /\ CountInv'
      /\ \A e : Has(entries', e) => madeFor'[e.op] = madeFor[e.op]
      /\ \A q \in Requests : held'[q] # None => madeFor'[held'[q]] = madeFor[held'[q]]
      /\ \A q \in Requests : made'[q] # None => madeFor'[made'[q]] = madeFor[made'[q]]
  <2>1. TypeOK /\ CountInv /\ Own(gained, lost)
    BY <1>1 DEF IInv
  <2> QED BY <2>1, <1>3, <1>5, <1>6, <1>7, Survives, ZenonT(30)
<1>9. TypeOK'
  BY <1>1, <1>3, <1>8 DEF IInv, TypeOK
<1>10. LocalsInv'
  BY <1>1, <1>2, <1>3 DEF IInv, LocalsInv, TypeOK
<1>11. MatchInv'
  <2>1. \A q \in Requests : q # r => key'[q] = key[q]
    BY <1>1 DEF IInv, TypeOK
  <2> QED BY <2>1, <1>1, <1>2, <1>3, <1>8 DEF IInv, MatchInv
<1> QED BY <1>8, <1>9, <1>10, <1>11 DEF IInv

(* The factory: a free address gets its first owner.                       *)
LEMMA CreateStep ==
  ASSUME IInv, CacheAssumption, NEW r \in Requests, Create(r)
  PROVE  IInv'
<1>1. PICK o1 \in Ops :
        /\ madeFor[o1] = None /\ made' = [made EXCEPT ![r] = o1]
        /\ refs' = [refs EXCEPT ![o1] = 1] /\ madeFor' = [madeFor EXCEPT ![o1] = key[r]]
  BY DEF Create
<1>2. /\ pc[r] = "creating" /\ pc' = [pc EXCEPT ![r] = "inserting"]
      /\ entries' = entries /\ key' = key /\ held' = held
  BY DEF Create
<1>3. /\ refs[o1] = 0 /\ made[r] = None /\ key[r] \in Keys /\ key[r] # None /\ o1 # None
  BY <1>1, <1>2 DEF IInv, TypeOK, LocalsInv, CountInv, CacheAssumption
<1>4. TypeOK'
  BY <1>1, <1>2, <1>3 DEF IInv, TypeOK
<1>5. LocalsInv'
  BY <1>1, <1>2, <1>3 DEF IInv, LocalsInv, TypeOK
<1>6. /\ made \in [Requests -> Ops \cup {None}] /\ made' \in [Requests -> Ops \cup {None}]
      /\ held \in [Requests -> Ops \cup {None}]
      /\ made'[r] = o1 /\ \A q \in Requests : q # r => made'[q] = made[q]
  BY <1>1, <1>4 DEF IInv, TypeOK
<1>7. CountInv'
  <2> SUFFICES ASSUME NEW o \in Ops
               PROVE  /\ refs'[o] = CacheOwns(entries, o) + Owned(held, o) + Owned(made', o)
                      /\ refs'[o] = 0 <=> madeFor'[o] = None
    BY <1>2 DEF CountInv
  <2>. DEFINE f == made
              g == made'
  <2>1. f \in [Requests -> Ops \cup {None}] /\ g \in [Requests -> Ops \cup {None}]
        /\ \A q \in Requests : q # r => g[q] = f[q]
    BY <1>6
  <2>. HIDE DEF f, g
  <2>2. Owned(g, o) = (Owned(f, o) + (IF g[r] = o THEN 1 ELSE 0)) - (IF f[r] = o THEN 1 ELSE 0)
    BY <2>1, OwnedUpdated
  <2>3. g[r] = o1 /\ f[r] # o
    BY <1>3, <1>6 DEF f, g, CacheAssumption
  <2>4. Owned(f, o) \in Nat /\ Owned(held, o) \in Nat
    BY <2>1, <1>6, OwnedTypes
  <2>5. Owned(g, o) = Owned(f, o) + (IF o1 = o THEN 1 ELSE 0)
    BY <2>2, <2>3, <2>4
  <2>6. /\ refs[o] = CacheOwns(entries, o) + Owned(held, o) + Owned(f, o)
        /\ refs[o] = 0 <=> madeFor[o] = None
        /\ CacheOwns(entries, o) \in {0, 1}
    BY DEF IInv, CountInv, CacheOwns, f
  <2>7. /\ refs'[o] = IF o = o1 THEN 1 ELSE refs[o]
        /\ madeFor'[o] = IF o = o1 THEN key[r] ELSE madeFor[o]
    BY <1>1 DEF IInv, TypeOK
  <2>8. refs'[o] = CacheOwns(entries, o) + Owned(held, o) + Owned(g, o)
    BY <2>4, <2>5, <2>6, <2>7, <1>3
  <2>9. refs'[o] = 0 <=> madeFor'[o] = None
    BY <2>6, <2>7, <1>3
  <2> QED BY <2>8, <2>9 DEF g
<1>8. MatchInv'
  <2>1. \A o \in Ops : refs[o] >= 1 => madeFor'[o] = madeFor[o]
    BY <1>1, <1>3 DEF IInv, TypeOK
  <2>2. ASSUME NEW q \in Requests, held[q] # None
        PROVE  madeFor'[held[q]] = key[q]
    <3>1. madeFor[held[q]] = key[q]
      BY <2>2 DEF IInv, MatchInv
    <3> QED BY <3>1, <2>1, <2>2, LocalsAreOwned
  <2>3. ASSUME NEW q \in Requests, made'[q] # None
        PROVE  madeFor'[made'[q]] = key[q]
    <3>1. CASE q = r
      BY <3>1, <1>1, <1>6 DEF IInv, TypeOK
    <3>2. CASE q # r
      <4>1. made'[q] = made[q] /\ madeFor[made[q]] = key[q]
        BY <3>2, <2>3, <1>6 DEF IInv, MatchInv
      <4> QED BY <4>1, <2>1, <2>3, LocalsAreOwned
    <3> QED BY <3>1, <3>2
  <2>4. ASSUME NEW e, Has(entries, e)
        PROVE  madeFor'[e.op] = e.key
    <3>1. e.op \in Ops /\ e.key \in Keys /\ madeFor[e.op] = e.key
      BY <2>4, TypeIsList, EntryTypes DEF IInv, MatchInv
    <3>2. e.op # o1
      BY <3>1, <1>1 DEF CacheAssumption
    <3> QED BY <3>1, <3>2, <1>1 DEF IInv, TypeOK
  <2> QED BY <2>2, <2>3, <2>4, <1>2 DEF MatchInv
<1> QED BY <1>4, <1>5, <1>7, <1>8 DEF IInv

LEMMA Step ==
  ASSUME IInv, CacheAssumption, [Next]_vars
  PROVE  IInv'
<1>1. CASE UNCHANGED vars
  BY <1>1 DEF vars, IInv, TypeOK, LocalsInv, MatchInv, CountInv
<1>2. ASSUME NEW r \in Requests, NEW k \in Keys, Call(r, k)
      PROVE  IInv'
  <2>1. /\ pc[r] = "idle" /\ key' = [key EXCEPT ![r] = k] /\ pc' = [pc EXCEPT ![r] = "looking"]
        /\ entries' = entries /\ made' = made /\ held' = held /\ refs' = refs /\ madeFor' = madeFor
    BY <1>2 DEF Call
  <2>2. k # None /\ made[r] = None /\ held[r] = None
    BY <2>1 DEF CacheAssumption, IInv, LocalsInv
  <2>3. TypeOK' /\ LocalsInv'
    BY <2>1, <2>2 DEF IInv, TypeOK, LocalsInv
  <2>4. MatchInv' /\ CountInv'
    BY <2>1, <2>2 DEF IInv, TypeOK, MatchInv, CountInv
  <2> QED BY <2>3, <2>4 DEF IInv
<1>3. ASSUME NEW r \in Requests, FindHit(r)
      PROVE  IInv'
  <2>1. /\ pc[r] = "looking" /\ Cached(key[r]) /\ entries' = Promoted(key[r])
        /\ held' = [held EXCEPT ![r] = Stored(key[r])] /\ Own({Stored(key[r])}, {})
        /\ pc' = [pc EXCEPT ![r] = "executing"] /\ UNCHANGED <<key, made>>
    BY <1>3 DEF FindHit
  <2>2. held[r] = None /\ key[r] # None /\ made[r] = None
    BY <2>1 DEF IInv, LocalsInv
  <2> QED BY <2>1, <2>2, HitStep
<1>4. ASSUME NEW r \in Requests, FindMiss(r)
      PROVE  IInv'
  BY <1>4 DEF FindMiss, IInv, TypeOK, LocalsInv, MatchInv, CountInv
<1>5. ASSUME NEW r \in Requests, FailCreate(r)
      PROVE  IInv'
  <2>1. /\ pc[r] = "creating" /\ key' = [key EXCEPT ![r] = None] /\ pc' = [pc EXCEPT ![r] = "idle"]
        /\ entries' = entries /\ made' = made /\ held' = held /\ refs' = refs /\ madeFor' = madeFor
    BY <1>5 DEF FailCreate
  <2>2. made[r] = None /\ held[r] = None
    BY <2>1 DEF IInv, LocalsInv
  <2>3. TypeOK' /\ LocalsInv'
    BY <2>1, <2>2 DEF IInv, TypeOK, LocalsInv
  <2>4. MatchInv' /\ CountInv'
    BY <2>1, <2>2 DEF IInv, TypeOK, MatchInv, CountInv
  <2> QED BY <2>3, <2>4 DEF IInv
<1>6. ASSUME NEW r \in Requests, AdoptStored(r)
      PROVE  IInv'
  <2>1. /\ pc[r] = "inserting" /\ Cached(key[r]) /\ entries' = Promoted(key[r])
        /\ held' = [held EXCEPT ![r] = Stored(key[r])] /\ Own({Stored(key[r])}, {})
        /\ pc' = [pc EXCEPT ![r] = "discarding"] /\ UNCHANGED <<key, made>>
    BY <1>6 DEF AdoptStored
  <2>2. held[r] = None /\ key[r] # None /\ made[r] # None
    BY <2>1 DEF IInv, LocalsInv
  <2> QED BY <2>1, <2>2, HitStep
<1> QED
  BY <1>1, <1>2, <1>3, <1>4, <1>5, <1>6, CreateStep, InsertStep, DiscardStep, FinishStep DEF Next

LEMMA Start ==
  ASSUME Init, CacheAssumption
  PROVE  IInv
<1>1. /\ entries = <<>> /\ \A e : ~Has(entries, e)
      /\ entries \in Seq(Entry) /\ Len(entries) = 0
  BY DEF Init, Has
<1>2. TypeOK
  BY <1>1 DEF Init, TypeOK, Entry, CacheAssumption
<1>3. LocalsInv /\ MatchInv
  BY <1>1 DEF Init, LocalsInv, MatchInv
<1>4. CountInv
  <2> SUFFICES ASSUME NEW o \in Ops
               PROVE  refs[o] = CacheOwns(entries, o) + Owned(held, o) + Owned(made, o)
                      /\ (refs[o] = 0 <=> madeFor[o] = None)
    BY DEF CountInv
  <2>1. CacheOwns(entries, o) = 0
    BY <1>1 DEF CacheOwns
  <2>2. {q \in Requests : held[q] = o} = {} /\ {q \in Requests : made[q] = o} = {}
    BY DEF Init, CacheAssumption
  <2>3. Owned(held, o) = 0 /\ Owned(made, o) = 0
    BY <2>2, FS_EmptySet DEF Owned
  <2>4. refs[o] = 0 /\ madeFor[o] = None
    BY DEF Init
  <2> QED BY <2>1, <2>3, <2>4
<1> QED BY <1>2, <1>3, <1>4 DEF IInv

(* The inductive invariant holds in every reachable state.                 *)
THEOREM Inductive == Spec => []IInv
<1>1. Init => IInv
  BY CacheAssumption, Start
<1>2. IInv /\ [Next]_vars => IInv'
  BY CacheAssumption, Step
<1> QED BY <1>1, <1>2, PTL DEF Spec

(* The cache stays within its capacity and holds a key once.               *)
THEOREM TypeCorrect == Spec => []TypeOK
<1>1. IInv => TypeOK
  BY DEF IInv
<1> QED BY <1>1, Inductive, PTL

(* getOrCreate: nobody executes an operation that was prepared for other   *)
(* shapes or values, whatever was evicted and created since.               *)
THEOREM OpsMatch == Spec => []OpsMatchTheirKeys
<1>1. IInv => OpsMatchTheirKeys
  BY DEF IInv, MatchInv, OpsMatchTheirKeys, Has
<1> QED BY <1>1, Inductive, PTL

(* The shared_ptrs: every object is owned by exactly those that refer to   *)
(* it, and freed with the last of them.                                    *)
THEOREM OwnersCounted == Spec => []OwnersAreCounted
<1>1. ASSUME IInv PROVE OwnersAreCounted
  <2> SUFFICES ASSUME NEW o \in Ops
               PROVE  Cardinality({i \in DOMAIN entries : entries[i].op = o}) = CacheOwns(entries, o)
    BY <1>1 DEF OwnersAreCounted, IInv, CountInv, Owned
  <2>. DEFINE S == {i \in DOMAIN entries : entries[i].op = o}
  <2>1. CASE S = {}
    <3>1. CacheOwns(entries, o) = 0
      BY <2>1 DEF CacheOwns, Has
    <3>2. Cardinality(S) = 0
      BY <2>1, FS_EmptySet
    <3> QED BY <3>1, <3>2
  <2>2. CASE S # {}
    <3>1. PICK i \in S : TRUE
      BY <2>2
    <3>2. Has(entries, entries[i]) /\ entries[i].op = o
      BY <3>1 DEF Has
    <3>3. CacheOwns(entries, o) = 1
      BY <3>2 DEF CacheOwns
    <3>4. ASSUME NEW j \in S PROVE j = i
      <4>1. Has(entries, entries[j])
        BY <3>4 DEF Has
      <4>2. madeFor[o] = entries[j].key /\ madeFor[o] = entries[i].key
        BY <4>1, <3>2, <3>4, <1>1 DEF IInv, MatchInv
      <4> QED BY <4>2, <3>1, <3>4, <1>1 DEF IInv, TypeOK
    <3>5. S = {i}
      BY <3>1, <3>4
    <3>6. Cardinality(S) = 1
      BY <3>5, FS_Singleton
    <3> QED BY <3>3, <3>6
  <2> QED BY <2>1, <2>2
<1> QED BY <1>1, Inductive, PTL

(* An entry is what a lookup of its key returns.                           *)
LEMMA Unique ==
  IsList(entries) => \A e : Has(entries, e) => Cached(e.key) /\ Stored(e.key) = e.op
<1> SUFFICES ASSUME IsList(entries), NEW e, Has(entries, e)
             PROVE  Cached(e.key) /\ Stored(e.key) = e.op
  OBVIOUS
<1>1. PICK i \in DOMAIN entries : entries[i] = e
  BY DEF Has
<1>2. Cached(e.key)
  BY <1>1 DEF Cached
<1>3. Position(e.key) \in DOMAIN entries /\ entries[Position(e.key)].key = e.key
  BY <1>2, Found
<1>4. Position(e.key) = i
  BY <1>1, <1>3 DEF IsList
<1> QED BY <1>1, <1>2, <1>4 DEF Stored

(* A step brings no other object for a key that is in the cache.           *)
LEMMA NothingReplaced ==
  ASSUME IInv, CacheAssumption, [Next]_vars, NEW e, Has(entries', e), Cached(e.key)
  PROVE  Has(entries, e)
<1>1. IsList(entries)
  BY TypeIsList DEF IInv
<1>2. CASE entries' = entries
  BY <1>2
<1>3. ASSUME NEW r \in Requests, Cached(key[r]), entries' = Promoted(key[r])
      PROVE  Has(entries, e)
  BY <1>1, <1>3, Rotated
<1>4. ASSUME NEW r \in Requests, Insert(r)
      PROVE  Has(entries, e)
  <2>. DEFINE e1 == [key |-> key[r], op |-> made[r]]
  <2>1. /\ pc[r] = "inserting" /\ ~Cached(e1.key)
        /\ entries' = <<e1>> \o (IF IsFull THEN Front(entries) ELSE entries)
    BY <1>4 DEF Insert
  <2>2. key[r] \in Keys /\ made[r] \in Ops
    BY <2>1 DEF IInv, LocalsInv, TypeOK
  <2>3. e1 \in Entry
    BY <2>2 DEF Entry
  <2>. HIDE DEF e1
  <2>4. e = e1 \/ Has(entries, e)
    BY <1>1, <2>1, <2>3, Inserted
  <2> QED BY <2>1, <2>4
<1> QED
  BY <1>2, <1>3, <1>4
     DEF Next, vars, Call, FindHit, FindMiss, Create, FailCreate, AdoptStored, Discard, Finish

(* What a lookup returns is in the cache when it ends.                     *)
LEMMA ReturnsStored ==
  ASSUME IInv, CacheAssumption, [Next]_vars, NEW r \in Requests,
         held[r] = None, held'[r] # None
  PROVE  /\ key' = key
         /\ Has(entries', [key |-> key[r], op |-> held'[r]])
<1>. DEFINE out == [key |-> key[r], op |-> held'[r]]
<1>1. IsList(entries) /\ held \in [Requests -> Ops \cup {None}]
  BY TypeIsList DEF IInv, TypeOK
<1>2. ASSUME NEW q \in Requests, FindHit(q) \/ AdoptStored(q)
      PROVE  key' = key /\ Has(entries', out)
  <2>1. /\ Cached(key[q]) /\ entries' = Promoted(key[q]) /\ key' = key
        /\ held' = [held EXCEPT ![q] = Stored(key[q])]
    BY <1>2 DEF FindHit, AdoptStored
  <2>2. q = r /\ held'[r] = Stored(key[r])
    BY <1>1, <2>1
  <2>3. Position(key[r]) \in DOMAIN entries /\ entries[Position(key[r])].key = key[r]
    BY <2>1, <2>2, Found
  <2>4. entries[Position(key[r])] \in Entry
    BY <2>3, <1>1, EntryTypes DEF Has
  <2>5. entries[Position(key[r])] = out
    BY <2>2, <2>3, <2>4 DEF Stored, Entry
  <2>6. Has(entries, out)
    BY <2>3, <2>5 DEF Has
  <2>. HIDE DEF out
  <2> QED BY <1>1, <2>1, <2>2, <2>6, Rotated
<1>3. ASSUME NEW q \in Requests, Insert(q)
      PROVE  key' = key /\ Has(entries', out)
  <2>. DEFINE e1 == [key |-> key[q], op |-> made[q]]
  <2>1. /\ pc[q] = "inserting" /\ ~Cached(e1.key) /\ key' = key
        /\ held' = [held EXCEPT ![q] = made[q]]
        /\ entries' = <<e1>> \o (IF IsFull THEN Front(entries) ELSE entries)
    BY <1>3 DEF Insert
  <2>2. key[q] \in Keys /\ made[q] \in Ops
    BY <2>1 DEF IInv, LocalsInv, TypeOK
  <2>3. e1 \in Entry
    BY <2>2 DEF Entry
  <2>4. q = r /\ out = e1
    BY <1>1, <2>1
  <2>. HIDE DEF e1, out
  <2>5. Has(entries', e1)
    BY <1>1, <2>1, <2>3, Inserted
  <2> QED BY <2>1, <2>4, <2>5
<1>4. ASSUME NEW q \in Requests, Finish(q)
      PROVE  FALSE
  BY <1>1, <1>4 DEF Finish
<1> QED
  BY <1>2, <1>3, <1>4
     DEF Next, vars, Call, FindMiss, Create, FailCreate, Discard

(* Requests that race to create the operation of one key agree, and no     *)
(* lookup returns an object the cache does not have.                       *)
THEOREM Agreement == Spec => RacersAgree
<1>1. ASSUME IInv, IInv', CacheAssumption, [Next]_vars
      PROVE  /\ \A k \in Keys : Cached(k) /\ Cached(k)' => Stored(k)' = Stored(k)
             /\ \A r \in Requests :
                  held[r] = None /\ held[r]' # None =>
                      Cached(key[r])' /\ held[r]' = Stored(key[r])'
  <2>1. IsList(entries) /\ IsList(entries')
    <3>1. (TypeOK => IsList(entries))'
      BY TypeIsList, PTL
    <3> QED BY <1>1, <3>1, TypeIsList DEF IInv
  <2>2. \A e : Has(entries', e) => Cached(e.key)' /\ Stored(e.key)' = e.op
    <3>1. (IsList(entries) => \A e : Has(entries, e) => Cached(e.key) /\ Stored(e.key) = e.op)'
      BY Unique, PTL
    <3> QED BY <3>1, <2>1
  <2>3. ASSUME NEW k \in Keys, Cached(k), Cached(k)'
        PROVE  Stored(k)' = Stored(k)
    <3>. DEFINE e == entries[Position(k)]'
    <3>1. Position(k)' \in DOMAIN entries' /\ e.key = k
      BY <2>3 DEF Cached, Position
    <3>2. Has(entries', e)
      BY <3>1 DEF Has
    <3>3. Has(entries, e)
      BY <1>1, <2>3, <3>1, <3>2, NothingReplaced
    <3>4. Stored(k) = e.op
      BY <2>1, <3>1, <3>3, Unique
    <3> QED BY <3>4 DEF Stored
  <2>4. ASSUME NEW r \in Requests, held[r] = None, held[r]' # None
        PROVE  Cached(key[r])' /\ held[r]' = Stored(key[r])'
    <3>1. key' = key /\ Has(entries', [key |-> key[r], op |-> held'[r]])
      BY <1>1, <2>4, ReturnsStored
    <3> QED BY <3>1, <2>2
  <2> QED BY <2>3, <2>4
<1>2. IInv /\ IInv' /\ [Next]_vars =>
        [/\ \A k \in Keys : Cached(k) /\ Cached(k)' => Stored(k)' = Stored(k)
         /\ \A r \in Requests :
              held[r] = None /\ held[r]' # None =>
                  Cached(key[r])' /\ held[r]' = Stored(key[r])']_vars
  BY <1>1, CacheAssumption
<1> QED BY <1>2, Inductive, PTL DEF Spec, RacersAgree

-----------------------------------------------------------------------------
(* The order of the entries.                                               *)

(* recency has every key that was used once, and the entries are the first *)
(* Capacity of them, or all of them when there are fewer.                  *)
RecencyInv ==
    /\ recency \in Seq(Keys)
    /\ \A i, j \in 1..Len(recency) : recency[i] = recency[j] => i = j
    /\ Len(entries) = IF Len(recency) < Capacity THEN Len(recency) ELSE Capacity
    /\ \A i \in 1..Len(entries) : entries[i].key = recency[i]

(* A use moves a key to the front and loses none.                          *)
LEMMA UsedShape ==
  ASSUME RecencyInv, NEW k \in Keys, NEW p \in Nat \ {0},
         LET n == Len(recency) IN
           \/ p \in 1..n /\ recency[p] = k
           \/ p = n + 1 /\ \A i \in 1..n : recency[i] # k
  PROVE  LET n == Len(recency)
             m == IF p <= n THEN n ELSE n + 1
             u == Used(k)
         IN  /\ u \in Seq(Keys) /\ Len(u) = m
             /\ \A i \in 1..m : u[i] = IF i = 1 THEN k ELSE IF i <= p THEN recency[i - 1]
                                                       ELSE recency[i]
             /\ \A i, j \in 1..m : u[i] = u[j] => i = j
<1>. DEFINE n == Len(recency)
            m == IF p <= n THEN n ELSE n + 1
            u == Used(k)
<1>1. n \in Nat /\ p \in 1..(n + 1) /\ m \in Nat /\ m >= 1
  BY DEF RecencyInv
<1>2. \A i \in 1..n : recency[i] \in Keys
  BY DEF RecencyInv
<1>3. \A i, j \in 1..n : recency[i] = recency[j] => i = j
  BY DEF RecencyInv
<1>4. u = [i \in 1..m |-> IF i = 1 THEN k ELSE IF i <= p THEN recency[i - 1] ELSE recency[i]]
  <2>. DEFINE known == \E i \in 1..n : recency[i] = k
              q == IF known THEN CHOOSE i \in 1..n : recency[i] = k ELSE n + 1
  <2>1. u = [i \in 1..(IF known THEN n ELSE n + 1) |->
               IF i = 1 THEN k ELSE IF i <= q THEN recency[i - 1] ELSE recency[i]]
    BY DEF Used
  <2>2. CASE p \in 1..n /\ recency[p] = k
    <3>1. known
      BY <2>2
    <3>2. q \in 1..n /\ recency[q] = k
      BY <3>1
    <3>3. q = p /\ p <= n
      BY <3>2, <2>2, <1>1, <1>3
    <3> QED BY <2>1, <3>1, <3>3
  <2>3. CASE p = n + 1 /\ \A i \in 1..n : recency[i] # k
    <3>1. ~known
      BY <2>3
    <3>2. q = p /\ ~(p <= n)
      BY <3>1, <2>3, <1>1
    <3> QED BY <2>1, <3>1, <3>2
  <2> QED BY <2>2, <2>3
<1>5. recency[p] = k \/ p = n + 1
  OBVIOUS
<1>6. \A i \in 1..n : recency[i] = k => i = p
  BY <1>1, <1>3
<1>. HIDE DEF n, u
<1>7. \A i \in 1..m : i # 1 => (IF i <= p THEN i - 1 ELSE i) \in 1..n
  BY <1>1
<1>8. \A i \in 1..m : u[i] = IF i = 1 THEN k ELSE recency[IF i <= p THEN i - 1 ELSE i]
  BY <1>4
<1>9. \A i \in 1..m : u[i] \in Keys
  BY <1>2, <1>7, <1>8
<1>10. u \in Seq(Keys) /\ Len(u) = m
  <2>1. u \in [1..m -> Keys]
    BY <1>4, <1>9
  <2> QED BY <2>1, <1>1
<1>11. \A i, j \in 1..m : u[i] = u[j] => i = j
  <2> SUFFICES ASSUME NEW i \in 1..m, NEW j \in 1..m, u[i] = u[j] PROVE i = j
    OBVIOUS
  <2>. DEFINE from(h) == IF h <= p THEN h - 1 ELSE h
  <2>1. \A h \in 1..m : h # 1 => from(h) \in 1..n /\ from(h) # p /\ u[h] = recency[from(h)]
    BY <1>1, <1>7, <1>8
  <2>2. \A h \in 1..m : h # 1 => u[h] # k
    BY <2>1, <1>6
  <2>3. 1 \in 1..m /\ u[1] = k
    BY <1>1, <1>8
  <2>4. CASE i = 1 \/ j = 1
    BY <2>2, <2>3, <2>4
  <2>5. CASE i # 1 /\ j # 1
    <3>1. from(i) = from(j)
      BY <2>1, <2>5, <1>3
    <3> QED BY <3>1, <2>5, <1>1
  <2> QED BY <2>4, <2>5
<1> QED BY <1>4, <1>10, <1>11 DEF n, u

(* A lookup that finds its key: both lists are rotated alike.              *)
LEMMA HitKeepsOrder ==
  ASSUME IInv, CacheAssumption, RecencyInv, NEW k \in Keys, Cached(k),
         entries' = Promoted(k), recency' = Used(k)
  PROVE  RecencyInv'
<1>. DEFINE n == Len(recency)
            c == Len(entries)
            p == Position(k)
<1>1. /\ n \in Nat /\ c \in Nat /\ c = IF n < Capacity THEN n ELSE Capacity
      /\ Capacity \in Nat /\ DOMAIN entries = 1..c
  BY TypeIsList DEF RecencyInv, CacheAssumption, IInv, IsList
<1>2. p \in 1..c /\ entries[p].key = k
  BY <1>1, Found
<1>3. p \in 1..n /\ recency[p] = k /\ p \in Nat \ {0} /\ p <= n
  BY <1>1, <1>2 DEF RecencyInv
<1>4. /\ recency' \in Seq(Keys) /\ Len(recency') = n
      /\ \A i \in 1..n : recency'[i] = IF i = 1 THEN k ELSE IF i <= p THEN recency[i - 1]
                                                         ELSE recency[i]
      /\ \A i, j \in 1..n : recency'[i] = recency'[j] => i = j
  BY <1>3, UsedShape
<1>5. entries' = [i \in 1..c |-> IF i = 1 THEN entries[p] ELSE IF i <= p THEN entries[i - 1]
                                                          ELSE entries[i]]
  BY <1>1 DEF Promoted
<1>6. Len(entries') = c
  BY <1>1, <1>5
<1>7. ASSUME NEW i \in 1..c PROVE entries'[i].key = recency'[i]
  <2>1. \A j \in 1..c : entries[j].key = recency[j]
    BY DEF RecencyInv
  <2>2. i \in 1..n
    BY <1>1
  <2>. HIDE DEF n, c, p
  <2>3. entries'[i] = IF i = 1 THEN entries[p] ELSE IF i <= p THEN entries[i - 1] ELSE entries[i]
    BY <1>5
  <2>4. i # 1 => i - 1 \in 1..c
    BY <1>1
  <2> QED BY <2>1, <2>2, <2>3, <2>4, <1>2, <1>4
<1>. HIDE DEF n, c, p
<1> QED BY <1>1, <1>4, <1>6, <1>7 DEF RecencyInv

(* An insertion: the last entry is evicted for the new one.                *)
LEMMA InsertKeepsOrder ==
  ASSUME IInv, CacheAssumption, RecencyInv, NEW r \in Requests, Insert(r)
  PROVE  RecencyInv'
<1>. DEFINE n == Len(recency)
            c == Len(entries)
            k == key[r]
            e == [key |-> key[r], op |-> made[r]]
            kept == IF IsFull THEN Front(entries) ELSE entries
<1>1. /\ pc[r] = "inserting" /\ ~Cached(k) /\ e.key = k
      /\ entries' = <<e>> \o kept /\ recency' = Used(k)
  BY DEF Insert
<1>2. k \in Keys /\ made[r] \in Ops /\ e \in Entry
  BY <1>1 DEF IInv, LocalsInv, TypeOK, Entry
<1>3. IsList(entries)
  BY TypeIsList DEF IInv
<1>4. /\ n \in Nat /\ c \in Nat /\ c = (IF n < Capacity THEN n ELSE Capacity)
      /\ Capacity \in Nat \ {0} /\ DOMAIN entries = 1..c /\ (IsFull <=> c >= Capacity)
  BY <1>3 DEF RecencyInv, CacheAssumption, IsList, IsFull
<1>5. \A j \in 1..c : entries[j].key = recency[j] /\ recency[j] # k
  BY <1>1, <1>4 DEF RecencyInv, Cached
<1>6. PICK p \in Nat \ {0} : \/ p \in 1..n /\ recency[p] = k
                             \/ p = n + 1 /\ \A i \in 1..n : recency[i] # k
  <2>1. CASE \E i \in 1..n : recency[i] = k
    <3>1. PICK i \in 1..n : recency[i] = k
      BY <2>1
    <3>2. i \in Nat \ {0} /\ i \in 1..n /\ recency[i] = k
      BY <3>1, <1>4
    <3>. HIDE DEF n, k
    <3> QED BY <3>2, Zenon
  <2>2. CASE \A i \in 1..n : recency[i] # k
    <3>1. n + 1 \in Nat \ {0} /\ \A i \in 1..n : recency[i] # k
      BY <2>2, <1>4
    <3>. HIDE DEF n, k
    <3> QED BY <3>1, Zenon
  <2> QED BY <2>1, <2>2
<1>7. p > c
  BY <1>4, <1>5, <1>6
<1>. HIDE DEF e, kept
<1>8. /\ Len(entries') = IF IsFull THEN c ELSE c + 1
      /\ entries'[1] = e /\ \A i \in 2..Len(entries') : entries'[i] = entries[i - 1]
  <2>1. ~Cached(e.key)
    BY <1>1
  <2>2. entries' = <<e>> \o (IF IsFull THEN Front(entries) ELSE entries)
    BY <1>1 DEF kept
  <2>. HIDE DEF k
  <2>3. e \in Entry
    BY <1>2
  <2>. HIDE DEF n, c
  <2>4. Len(entries') = IF IsFull THEN Len(entries) ELSE Len(entries) + 1
    BY ONLY CacheAssumption, <2>1, <2>2, <2>3, <1>3, Inserted
  <2>5. InFront(e, entries')
    BY ONLY CacheAssumption, <2>1, <2>2, <2>3, <1>3, Inserted
  <2> QED BY <2>4, <2>5 DEF c, InFront
<1>. DEFINE m == IF p <= n THEN n ELSE n + 1
<1>9. /\ recency' \in Seq(Keys) /\ Len(recency') = m
      /\ \A i \in 1..m : recency'[i] = IF i = 1 THEN k ELSE IF i <= p THEN recency[i - 1]
                                                         ELSE recency[i]
      /\ \A i, j \in 1..m : recency'[i] = recency'[j] => i = j
  <2>. HIDE DEF k
  <2> QED BY <1>1, <1>2, <1>6, UsedShape
<1>. HIDE DEF n, c, k
<1>10. Len(entries') = IF m < Capacity THEN m ELSE Capacity
  BY <1>4, <1>6, <1>7, <1>8
<1>11. ASSUME NEW i \in 1..Len(entries') PROVE entries'[i].key = recency'[i]
  <2>1. i \in 1..m /\ i <= p /\ i <= c + 1
    BY <1>4, <1>6, <1>7, <1>8, <1>10
  <2>2. CASE i = 1
    BY <2>1, <2>2, <1>1, <1>8, <1>9
  <2>3. CASE i # 1
    <3>1. i - 1 \in 1..c /\ i \in 2..Len(entries')
      BY <2>1, <2>3, <1>4
    <3> QED BY <2>1, <2>3, <3>1, <1>5, <1>8, <1>9
  <2> QED BY <2>2, <2>3
<1>. HIDE DEF m
<1> QED BY <1>9, <1>10, <1>11 DEF RecencyInv

(* The eviction order: the cache holds the Capacity keys that were used    *)
(* last, in the order of their last use.                                   *)
THEOREM LeastRecentlyUsedLeaves == Spec => []HoldsMostRecentlyUsed
<1>1. Init => RecencyInv
  BY CacheAssumption DEF Init, RecencyInv, CacheAssumption
<1>2. ASSUME IInv, RecencyInv, CacheAssumption, [Next]_vars PROVE RecencyInv'
  <2>1. ASSUME UNCHANGED <<entries, recency>> PROVE RecencyInv'
    BY <2>1, <1>2 DEF RecencyInv
  <2>2. ASSUME NEW r \in Requests, FindHit(r) \/ AdoptStored(r) PROVE RecencyInv'
    <3>1. /\ Cached(key[r]) /\ entries' = Promoted(key[r]) /\ recency' = Used(key[r])
          /\ pc[r] # "idle"
      BY <2>2 DEF FindHit, AdoptStored
    <3>2. key[r] \in Keys
      BY <3>1, <1>2 DEF IInv, LocalsInv, TypeOK
    <3> QED BY <3>1, <3>2, <1>2, HitKeepsOrder
  <2>3. ASSUME NEW r \in Requests, Insert(r) PROVE RecencyInv'
    BY <2>3, <1>2, InsertKeepsOrder
  <2>4. CASE UNCHANGED vars
    BY <2>1, <2>4 DEF vars
  <2>5. CASE Next
    BY <2>1, <2>2, <2>3, <2>5
       DEF Next, Call, FindMiss, Create, FailCreate, Discard, Finish
  <2> QED BY <1>2, <2>4, <2>5
<1>3. ASSUME RecencyInv, IInv, CacheAssumption PROVE HoldsMostRecentlyUsed
  <2>. DEFINE n == Len(recency)
              c == Len(entries)
  <2>1. /\ n \in Nat /\ c \in Nat /\ c <= n /\ DOMAIN entries = 1..c
        /\ c = IF n < Capacity THEN n ELSE Capacity
    BY <1>3, TypeIsList DEF RecencyInv, CacheAssumption, IInv, IsList
  <2>2. SubSeq(recency, 1, c) = [i \in 1..c |-> recency[i]]
    BY <2>1, <1>3 DEF RecencyInv
  <2>3. \A i \in 1..c : entries[i].key = recency[i]
    BY <1>3 DEF RecencyInv
  <2>4. [i \in DOMAIN entries |-> entries[i].key] = [i \in 1..c |-> recency[i]]
    BY <2>1, <2>3
  <2> QED BY <2>1, <2>2, <2>4 DEF HoldsMostRecentlyUsed
<1> QED BY <1>1, <1>2, <1>3, CacheAssumption, Inductive, PTL DEF Spec
=============================================================================
