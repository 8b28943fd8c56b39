-------------------------- MODULE InputCache_proofs --------------------------
(***************************************************************************)
(* Proofs about InputCache, for every capacity, number of slots, context   *)
(* length that fits, batch size and prompts: the types, that every input   *)
(* of a slot has one cell, with the right data as long as no two moves of  *)
(* a defragmentation are merged, that the ranges cover the cells, and that *)
(* a batch always finds a contiguous place.                                *)
(*                                                                         *)
(* The parts: what keeps a cache sound (Sound) and what it then holds of a *)
(* sequence (Holds, Follows, EndsAt); CopyPrefix and Remove; defrag, which *)
(* only permutes the cells (Moving); the place of a batch, by counting the *)
(* pairs of a slot and a position; StartForward and Put; the loop that     *)
(* assembles a batch (Ready); the slot of a request; the invariant IInv.   *)
(***************************************************************************)
EXTENDS InputCache, FiniteSetTheorems, WellFoundedInduction, TLAPS

-----------------------------------------------------------------------------
(* What a cache is at every moment: its free locations hold nothing, its   *)
(* ranges cover the cells of their sequences, and no sequence has two      *)
(* cells for one position.                                                 *)
Cell == [pos : 0..numCtx - 1, sequences : SUBSET Slots]
Datum == [token : Tokens \cup {Blank}, pos : Int]
Spans == [min : Nat, max : Int]
Caches == [cells : [Locs -> Cell], data : [Locs -> Datum],
           ranges : [Slots -> Spans], merged : BOOLEAN]

Filled(k) ==
    \A l \in Locs : IsFree(k.cells, l) => k.cells[l] = FreeCell /\ k.data[l] = FreeData
Covered(r, L) ==
    /\ r.min = MaxInt \/ (r.min \in Locs /\ r.max \in Locs)
    /\ \A l \in L : r.min <= l /\ l <= r.max
Distinct(k) ==
    \A s \in Slots : \A l, m \in LocsOf(k.cells, s) : k.cells[l].pos = k.cells[m].pos => l = m

Sound(k) ==
    /\ k \in Caches /\ Filled(k) /\ Distinct(k)
    /\ \A s \in Slots : Covered(k.ranges[s], LocsOf(k.cells, s))

(* The cache k has the inputs h for sequence s: a cell for each of them,   *)
(* the data of which is that input, rotated to its place; nothing else.    *)
Holds(k, s, h) ==
    \A p \in 0..Len(h) - 1 : \E l \in LocsOf(k.cells, s) : k.cells[l].pos = p
Follows(k, s, h) ==
    \A l \in LocsOf(k.cells, s) : k.cells[l].pos < Len(h) =>
        k.data[l] = [token |-> h[k.cells[l].pos + 1], pos |-> k.cells[l].pos]
EndsAt(k, s, n) == \A l \in LocsOf(k.cells, s) : k.cells[l].pos < n

(* Nothing changes for sequence s.                                         *)
SameFor(k, r, s) ==
    /\ LocsOf(r.cells, s) = LocsOf(k.cells, s)
    /\ \A l \in LocsOf(k.cells, s) : r.cells[l].pos = k.cells[l].pos /\ r.data[l] = k.data[l]

-----------------------------------------------------------------------------
(* The sizes the constants give.                                           *)
LEMMA Sizes ==
  ASSUME CausalAssumption, InputCacheAssumption
  PROVE  /\ numSlots \in Nat \ {0} /\ numCtx \in Nat \ {0}
         /\ Capacity \in Nat \ {0} /\ MaxInt \in Nat /\ Capacity <= MaxInt
         /\ numSlots * numCtx <= Capacity /\ numCtx <= Capacity
         /\ IsFiniteSet(Slots) /\ Slots = 0..numSlots - 1
<1>1. numSlots \in Nat /\ numSlots # 0
  BY FS_CardinalityType, FS_EmptySet DEF CausalAssumption, InputCacheAssumption, numSlots
<1>2. Capacity \in Nat \ {0} /\ MaxInt \in Nat /\ Capacity <= MaxInt
  BY DEF CausalAssumption
<1>3. \A c \in Nat, n \in Nat \ {0} : c \div n \in Nat /\ n * (c \div n) <= c
  OBVIOUS
<1>4. numCtx \in Nat /\ numSlots * numCtx <= Capacity /\ numCtx >= 1
  BY <1>1, <1>2, <1>3 DEF numCtx, InputCacheAssumption
<1>5. \A n \in Nat \ {0}, c \in Nat : c <= n * c /\ n * c \in Nat
  OBVIOUS
<1>7. numCtx <= Capacity
  BY <1>1, <1>2, <1>4, <1>5
<1> QED
  BY <1>1, <1>2, <1>4, <1>7 DEF CausalAssumption, InputCacheAssumption

(* Every non-empty set of natural numbers has a least element, and every   *)
(* bounded one a greatest.                                                 *)
LEMMA Least ==
  ASSUME NEW T \in SUBSET Nat, T # {}
  PROVE  \E x \in T : \A y \in T : x <= y
<1>. DEFINE R == OpToRel(<, Nat)
<1>1. IsWellFoundedOn(R, Nat)
  BY NatLessThanWellFounded
<1>2. \A x, y \in Nat : <<x, y>> \in R <=> x < y
  BY DEF OpToRel
<1>. HIDE DEF R
<1>3. PICK x \in T : \A y \in T : <<y, x>> \notin R
  BY <1>1, WFMin
<1>4. ASSUME NEW y \in T PROVE x <= y
  <2>1. x \in Nat /\ y \in Nat /\ ~(y < x)
    BY <1>2, <1>3
  <2> QED BY ONLY <2>1
<1> QED BY <1>4

LEMMA Greatest ==
  ASSUME NEW T \in SUBSET Nat, T # {}, NEW n \in Nat, \A x \in T : x <= n
  PROVE  \E x \in T : \A y \in T : y <= x
<1>. DEFINE U == {n - x : x \in T}
<1>1. U \in SUBSET Nat /\ U # {}
  <2>1. \A x \in T : x \in Nat /\ n - x \in Nat
    <3> SUFFICES ASSUME NEW x \in T PROVE x \in Nat /\ n - x \in Nat
      OBVIOUS
    <3>1. x \in Nat /\ x <= n
      OBVIOUS
    <3> QED BY ONLY <3>1, n \in Nat
  <2> QED BY <2>1
<1>2. PICK u \in U : \A v \in U : u <= v
  <2>. HIDE DEF U
  <2> QED BY <1>1, Least
<1>3. PICK x \in T : u = n - x
  OBVIOUS
<1>4. ASSUME NEW y \in T PROVE y <= x
  <2>1. n - x <= n - y
    BY <1>2, <1>3
  <2>2. x \in Nat /\ y \in Nat
    OBVIOUS
  <2> QED BY ONLY <2>1, <2>2, n \in Nat
<1> QED BY <1>4

(* The range that covers a set of locations begins and ends in it.         *)
LEMMA CoversIt ==
  ASSUME CausalAssumption, NEW L \in SUBSET Locs
  PROVE  /\ Covering(L) \in Spans /\ Covered(Covering(L), L)
         /\ L # {} => Covering(L).min \in L /\ Covering(L).max \in L
         /\ L = {} => Covering(L) = newRange
<1>. USE DEF CausalAssumption, Spans
<1>1. CASE L = {}
  <2>1. Covering(L) = [min |-> MaxInt, max |-> 0]
    BY <1>1 DEF Covering, newRange
  <2> QED BY <1>1, <2>1 DEF Covered, newRange
<1>2. CASE L # {}
  <2>1. L \in SUBSET Nat /\ \A x \in L : x <= Capacity
    BY DEF Locs
  <2>2. \E x \in L : \A y \in L : x <= y
    BY <2>1, <1>2, Least
  <2>3. \E x \in L : \A y \in L : x >= y
    <3>1. \E x \in L : \A y \in L : y <= x
      BY <2>1, <1>2, Greatest
    <3> QED BY <3>1, <2>1
  <2>. DEFINE lo == CHOOSE l \in L : \A k \in L : l <= k
              hi == CHOOSE l \in L : \A k \in L : l >= k
  <2>8. lo \in L /\ \A y \in L : lo <= y
    BY <2>2
  <2>9. hi \in L /\ \A y \in L : hi >= y
    BY <2>3
  <2>4. Covering(L) = [min |-> lo, max |-> hi]
    BY <1>2 DEF Covering
  <2>. HIDE DEF lo, hi
  <2>5. /\ Covering(L).min \in L /\ \A y \in L : Covering(L).min <= y
        /\ Covering(L).max \in L /\ \A y \in L : Covering(L).max >= y
    BY <2>4, <2>8, <2>9
  <2>6. Covering(L) \in Spans
    BY <2>1, <2>4, <2>8, <2>9
  <2>7. Covered(Covering(L), L)
    BY <2>1, <2>5 DEF Covered
  <2> QED BY <1>2, <2>5, <2>6, <2>7
<1> QED BY <1>1, <1>2

(* Tidy changes nothing that is in use.                                    *)
LEMMA Tidied ==
  ASSUME CausalAssumption, InputCacheAssumption, NEW k \in Caches
  PROVE  /\ Tidy(k) \in Caches /\ Filled(Tidy(k))
         /\ Tidy(k).ranges = k.ranges /\ Tidy(k).merged = k.merged
         /\ \A s : LocsOf(Tidy(k).cells, s) = LocsOf(k.cells, s)
         /\ \A l \in Locs : ~IsFree(k.cells, l) =>
                Tidy(k).cells[l] = k.cells[l] /\ Tidy(k).data[l] = k.data[l]
         /\ \A l \in Locs : IsFree(Tidy(k).cells, l) <=> IsFree(k.cells, l)
<1>. DEFINE r == Tidy(k)
<1>1. k = [cells |-> k.cells, data |-> k.data, ranges |-> k.ranges, merged |-> k.merged]
      /\ k.cells \in [Locs -> Cell] /\ k.data \in [Locs -> Datum]
      /\ k.ranges \in [Slots -> Spans] /\ k.merged \in BOOLEAN
  BY DEF Caches
<1>2. /\ r.cells = [l \in Locs |-> IF IsFree(k.cells, l) THEN FreeCell ELSE k.cells[l]]
      /\ r.data = [l \in Locs |-> IF IsFree(k.cells, l) THEN FreeData ELSE k.data[l]]
      /\ r.ranges = k.ranges /\ r.merged = k.merged
      /\ r = [cells |-> r.cells, data |-> r.data, ranges |-> r.ranges, merged |-> r.merged]
  <2>1. r = [k EXCEPT
              !.cells = [l \in Locs |-> IF IsFree(k.cells, l) THEN FreeCell ELSE k.cells[l]],
              !.data = [l \in Locs |-> IF IsFree(k.cells, l) THEN FreeData ELSE k.data[l]]]
    BY DEF Tidy
  <2>. HIDE DEF r
  <2> QED BY <2>1, <1>1
<1>. HIDE DEF r
<1>3. FreeCell \in Cell /\ FreeCell.sequences = {}
  BY Sizes DEF FreeCell, Cell
<1>9. FreeData \in Datum
  BY DEF FreeData, Datum
<1>4. r.cells \in [Locs -> Cell] /\ r.data \in [Locs -> Datum]
  BY <1>1, <1>2, <1>3, <1>9
<1>5. r \in Caches
  BY <1>1, <1>2, <1>4 DEF Caches
<1>6. \A l \in Locs : IsFree(r.cells, l) <=> IsFree(k.cells, l)
  BY <1>2, <1>3 DEF IsFree
<1>7. Filled(r)
  BY <1>2, <1>6 DEF Filled
<1>8. \A s : LocsOf(r.cells, s) = LocsOf(k.cells, s)
  BY <1>2, <1>3 DEF LocsOf, IsFree
<1> QED BY <1>2, <1>5, <1>6, <1>7, <1>8 DEF r

(* Nothing changes for a sequence with the same cells.                     *)
LEMMA SameHolds ==
  ASSUME NEW k, NEW r, NEW s, SameFor(k, r, s), NEW h, NEW n
  PROVE  /\ Holds(k, s, h) => Holds(r, s, h)
         /\ Follows(k, s, h) => Follows(r, s, h)
         /\ EndsAt(k, s, n) => EndsAt(r, s, n)
<1>1. LocsOf(r.cells, s) = LocsOf(k.cells, s)
      /\ \A l \in LocsOf(k.cells, s) : r.cells[l].pos = k.cells[l].pos /\ r.data[l] = k.data[l]
  BY DEF SameFor
<1>. HIDE DEF LocsOf
<1> QED BY <1>1 DEF Holds, Follows, EndsAt

(* One sequence gets other cells, and the cache is tidied.                 *)
LEMMA Changed ==
  ASSUME CausalAssumption, InputCacheAssumption,
         NEW k, Sound(k), NEW x \in Caches, NEW s \in Slots,
         \A t \in Slots \ {s} : SameFor(k, x, t) /\ x.ranges[t] = k.ranges[t],
         Covered(x.ranges[s], LocsOf(x.cells, s)),
         \A l, m \in LocsOf(x.cells, s) : x.cells[l].pos = x.cells[m].pos => l = m
  PROVE  /\ Sound(Tidy(x)) /\ Tidy(x).merged = x.merged
         /\ \A t \in Slots \ {s} : SameFor(k, Tidy(x), t)
         /\ SameFor(x, Tidy(x), s)
<1>. DEFINE r == Tidy(x)
<1>1. /\ r \in Caches /\ Filled(r) /\ r.ranges = x.ranges /\ r.merged = x.merged
      /\ \A t : LocsOf(r.cells, t) = LocsOf(x.cells, t)
      /\ \A l \in Locs : ~IsFree(x.cells, l) => r.cells[l] = x.cells[l] /\ r.data[l] = x.data[l]
  BY Tidied
<1>. HIDE DEF r
<1>2. \A t, l : l \in LocsOf(x.cells, t) =>
         l \in Locs /\ r.cells[l] = x.cells[l] /\ r.data[l] = x.data[l]
  BY <1>1 DEF LocsOf, IsFree
<1>3. \A t : SameFor(x, r, t)
  BY <1>1, <1>2 DEF SameFor
<1>4. \A t \in Slots \ {s} : SameFor(k, r, t)
  BY <1>3 DEF SameFor
<1>5. \A t \in Slots : Covered(r.ranges[t], LocsOf(r.cells, t))
  <2> SUFFICES ASSUME NEW t \in Slots PROVE Covered(r.ranges[t], LocsOf(r.cells, t))
    OBVIOUS
  <2>1. CASE t = s
    BY <2>1, <1>1
  <2>2. CASE t # s
    <3>1. LocsOf(r.cells, t) = LocsOf(k.cells, t) /\ r.ranges[t] = k.ranges[t]
      BY <2>2, <1>1, <1>4 DEF SameFor
    <3> QED BY <3>1 DEF Sound
  <2> QED BY <2>1, <2>2
<1>6. Distinct(r)
  <2> SUFFICES ASSUME NEW t \in Slots, NEW l \in LocsOf(r.cells, t), NEW m \in LocsOf(r.cells, t),
                      r.cells[l].pos = r.cells[m].pos
               PROVE  l = m
    BY DEF Distinct
  <2>1. CASE t = s
    BY <2>1, <1>1, <1>2
  <2>2. CASE t # s
    <3>1. LocsOf(r.cells, t) = LocsOf(k.cells, t)
          /\ \A i \in LocsOf(k.cells, t) : r.cells[i].pos = k.cells[i].pos
      BY <2>2, <1>4 DEF SameFor
    <3> QED BY <3>1 DEF Sound, Distinct
  <2> QED BY <2>1, <2>2
<1>7. Sound(r)
  BY <1>1, <1>5, <1>6 DEF Sound
<1> QED BY <1>1, <1>3, <1>4, <1>7 DEF r

(* A cell with another position or other sequences.                        *)
LEMMA CellMoved ==
  ASSUME NEW c \in Cell, NEW v \in 0..numCtx - 1, NEW x, x = [c EXCEPT !.pos = v]
  PROVE  x.pos = v /\ x.sequences = c.sequences /\ x \in Cell
<1>1. c = [pos |-> c.pos, sequences |-> c.sequences] /\ c.sequences \in SUBSET Slots
  BY DEF Cell
<1>2. x.pos = v /\ x.sequences = c.sequences /\ x = [pos |-> x.pos, sequences |-> x.sequences]
  BY <1>1
<1>. HIDE DEF numCtx
<1> QED BY <1>1, <1>2 DEF Cell

(* The same, when only its sequences change.                               *)
LEMMA CellShared ==
  ASSUME NEW c \in Cell, NEW x, NEW v, x = [c EXCEPT !.sequences = v], v \in SUBSET Slots
  PROVE  x.pos = c.pos /\ x.sequences = v /\ x \in Cell
<1>1. c = [pos |-> c.pos, sequences |-> c.sequences] /\ c.pos \in 0..numCtx - 1
  BY DEF Cell
<1>2. x.pos = c.pos /\ x.sequences = v /\ x = [pos |-> x.pos, sequences |-> x.sequences]
  BY <1>1
<1>. HIDE DEF numCtx
<1> QED BY <1>1, <1>2 DEF Cell

(* r is k with dst attending to the first len tokens of src.               *)
IsCopied(k, r, src, dst, len) ==
    /\ Sound(r) /\ r.merged = k.merged
    /\ \A t \in Slots \ {dst} : SameFor(k, r, t)
    /\ LocsOf(r.cells, dst) = {l \in LocsOf(k.cells, src) : k.cells[l].pos < len}
    /\ \A l \in LocsOf(r.cells, dst) :
           r.cells[l].pos = k.cells[l].pos /\ r.data[l] = k.data[l]

(* CopyPrefix gives dst the cells of the first len inputs of src.          *)
LEMMA Copied ==
  ASSUME CausalAssumption, InputCacheAssumption,
         NEW k, Sound(k), NEW src \in Slots, NEW dst \in Slots, src # dst, NEW len \in Nat
  PROVE  IsCopied(k, CopyPrefix(k, src, dst, len), src, dst, len)
<1>. DEFINE copied(l) == src \in k.cells[l].sequences /\ k.cells[l].pos < len
            cells == [l \in Locs |-> [k.cells[l] EXCEPT !.sequences =
                         (@ \ {dst}) \union (IF copied(l) THEN {dst} ELSE {})]]
            x == [k EXCEPT !.cells = cells, !.ranges[dst] = Covering(LocsOf(cells, dst))]
<1>0. k = [cells |-> k.cells, data |-> k.data, ranges |-> k.ranges, merged |-> k.merged]
  BY DEF Sound, Caches
<1>1. /\ k.cells \in [Locs -> Cell] /\ k.data \in [Locs -> Datum]
      /\ k.ranges \in [Slots -> Spans] /\ k.merged \in BOOLEAN
  BY DEF Sound, Caches
<1>2. CopyPrefix(k, src, dst, len) = Tidy(x)
  BY DEF CopyPrefix
<1>3. \A l \in Locs : /\ cells[l].pos = k.cells[l].pos
                      /\ cells[l].sequences = (k.cells[l].sequences \ {dst})
                                                 \cup (IF copied(l) THEN {dst} ELSE {})
                      /\ cells[l] \in Cell
  <2> SUFFICES ASSUME NEW l \in Locs
               PROVE  /\ cells[l].pos = k.cells[l].pos
                      /\ cells[l].sequences = (k.cells[l].sequences \ {dst})
                                                 \cup (IF copied(l) THEN {dst} ELSE {})
                      /\ cells[l] \in Cell
    OBVIOUS
  <2>. DEFINE v == (k.cells[l].sequences \ {dst}) \cup (IF copied(l) THEN {dst} ELSE {})
  <2>1. cells[l] = [k.cells[l] EXCEPT !.sequences = v]
    OBVIOUS
  <2>2. k.cells[l] \in Cell /\ v \in SUBSET Slots
    BY <1>1 DEF Cell
  <2>. HIDE DEF cells, v
  <2>3. cells[l].pos = k.cells[l].pos /\ cells[l].sequences = v /\ cells[l] \in Cell
    BY <2>1, <2>2, CellShared
  <2> QED BY <2>3 DEF v
<1>4. LocsOf(cells, dst) \in SUBSET Locs
  BY DEF LocsOf
<1>6. cells \in [Locs -> Cell]
  BY <1>3
<1>10. Covering(LocsOf(cells, dst)) \in Spans
       /\ Covered(Covering(LocsOf(cells, dst)), LocsOf(cells, dst))
  BY <1>4, CoversIt
<1>5. /\ x \in Caches /\ x.cells = cells /\ x.data = k.data /\ x.merged = k.merged
      /\ x.ranges[dst] = Covering(LocsOf(cells, dst))
      /\ \A t \in Slots \ {dst} : x.ranges[t] = k.ranges[t]
  <2>. DEFINE span == Covering(LocsOf(cells, dst))
  <2>1. x = [k EXCEPT !.cells = cells, !.ranges[dst] = span]
    OBVIOUS
  <2>. HIDE DEF cells, x, span
  <2>2. /\ x.cells = cells /\ x.data = k.data /\ x.merged = k.merged
        /\ x.ranges = [k.ranges EXCEPT ![dst] = span]
    BY <2>1, <1>0
  <2>6. x = [cells |-> x.cells, data |-> x.data, ranges |-> x.ranges, merged |-> x.merged]
    BY <2>1, <1>0
  <2>3. span \in Spans
    BY <1>10 DEF span
  <2>4. x.ranges \in [Slots -> Spans] /\ x.ranges[dst] = span
        /\ \A t \in Slots \ {dst} : x.ranges[t] = k.ranges[t]
    BY <2>2, <2>3, <1>1
  <2>5. x \in Caches
    BY <2>2, <2>4, <2>6, <1>1, <1>6 DEF Caches
  <2> QED BY <2>2, <2>4, <2>5 DEF span
<1>. HIDE DEF cells, x
<1>8. \A t \in Slots \ {dst} : SameFor(k, x, t) /\ x.ranges[t] = k.ranges[t]
  <2> SUFFICES ASSUME NEW t \in Slots \ {dst} PROVE SameFor(k, x, t) /\ x.ranges[t] = k.ranges[t]
    OBVIOUS
  <2>1. \A l \in Locs : t \in cells[l].sequences <=> t \in k.cells[l].sequences
    BY <1>3
  <2>2. LocsOf(cells, t) = LocsOf(k.cells, t)
    BY <2>1 DEF LocsOf
  <2>3. \A l \in LocsOf(k.cells, t) : cells[l].pos = k.cells[l].pos
    BY <1>3 DEF LocsOf
  <2> QED BY <2>2, <2>3, <1>1, <1>5 DEF SameFor
<1>9. LocsOf(cells, dst) = {l \in LocsOf(k.cells, src) : k.cells[l].pos < len}
  <2>1. \A l \in Locs : dst \in cells[l].sequences <=> copied(l)
    BY <1>3
  <2> QED BY <2>1 DEF LocsOf
<1>11. \A l, m \in LocsOf(x.cells, dst) : x.cells[l].pos = x.cells[m].pos => l = m
  <2>1. \A l \in LocsOf(cells, dst) : l \in LocsOf(k.cells, src) /\ cells[l].pos = k.cells[l].pos
    BY <1>3, <1>4, <1>9
  <2> QED BY <2>1, <1>5 DEF Sound, Distinct
<1>13. /\ Sound(Tidy(x)) /\ Tidy(x).merged = x.merged
       /\ \A t \in Slots \ {dst} : SameFor(k, Tidy(x), t)
       /\ SameFor(x, Tidy(x), dst)
  BY <1>5, <1>8, <1>10, <1>11, Changed
<1>14. LocsOf(Tidy(x).cells, dst) = LocsOf(cells, dst)
  BY <1>5, <1>13 DEF SameFor
<1>15. \A l \in LocsOf(Tidy(x).cells, dst) :
          Tidy(x).cells[l].pos = k.cells[l].pos /\ Tidy(x).data[l] = k.data[l]
  BY <1>3, <1>4, <1>5, <1>13, <1>14 DEF SameFor
<1>16. IsCopied(k, Tidy(x), src, dst, len)
  BY <1>5, <1>9, <1>13, <1>14, <1>15 DEF IsCopied
<1>. HIDE DEF x
<1> QED BY <1>2, <1>16

(* r is k with the cells of s from b to e gone, those behind moved up.      *)
IsRemoved(k, r, s, b, e) ==
    /\ Sound(r) /\ r.merged = k.merged
    /\ \A t \in Slots \ {s} : SameFor(k, r, t)
    /\ LocsOf(r.cells, s) = {l \in LocsOf(k.cells, s) : k.cells[l].pos < b \/ k.cells[l].pos >= e}
    /\ \A l \in LocsOf(r.cells, s) :
          /\ r.cells[l].pos = IF k.cells[l].pos >= e THEN k.cells[l].pos - (e - b)
                              ELSE k.cells[l].pos
          /\ r.data[l] = IF k.cells[l].pos >= e
                         THEN [token |-> k.data[l].token, pos |-> k.data[l].pos - (e - b)]
                         ELSE k.data[l]

(* Remove cuts the inputs from b to e out of sequence s; those behind move *)
(* up.                                                                     *)
LEMMA Removed ==
  ASSUME CausalAssumption, InputCacheAssumption,
         NEW k, Sound(k), NEW s \in Slots, NEW b \in Nat, NEW e \in Nat, b <= e,
         ~RemoveFails(k, s, e)
  PROVE  IsRemoved(k, RemoveTokens(k, s, b, e), s, b, e)
<1>. DEFINE offset == b - e
            removed(l) == s \in k.cells[l].sequences
                          /\ k.cells[l].pos >= b /\ k.cells[l].pos < e
            behind(l) == l \in Behind(k, s, e)
            cells == [l \in Locs |->
                        IF removed(l) THEN [k.cells[l] EXCEPT !.sequences = @ \ {s}]
                        ELSE IF behind(l) THEN [k.cells[l] EXCEPT !.pos = @ + offset]
                        ELSE k.cells[l]]
            data == [l \in Locs |-> IF behind(l) THEN [k.data[l] EXCEPT !.pos = @ + offset]
                                    ELSE k.data[l]]
            left == LocsOf(cells, s)
            span == IF left = {} THEN noRange ELSE Covering(left)
            x == [k EXCEPT !.cells = cells, !.ranges[s] = span, !.data = data]
<1>0. k = [cells |-> k.cells, data |-> k.data, ranges |-> k.ranges, merged |-> k.merged]
  BY DEF Sound, Caches
<1>1. /\ k.cells \in [Locs -> Cell] /\ k.data \in [Locs -> Datum]
      /\ k.ranges \in [Slots -> Spans] /\ k.merged \in BOOLEAN
  BY DEF Sound, Caches
<1>2. RemoveTokens(k, s, b, e) = Tidy(x)
  <2>1. x = [k EXCEPT !.cells = cells, !.ranges[s] = span,
                      !.data = [l \in Locs |-> IF l \in Behind(k, s, e)
                                   THEN [k.data[l] EXCEPT !.pos = @ + offset] ELSE k.data[l]]]
    OBVIOUS
  <2>2. RemoveTokens(k, s, b, e) =
          Tidy([k EXCEPT !.cells = cells, !.ranges[s] = span,
                         !.data = [l \in Locs |-> IF l \in Behind(k, s, e)
                                      THEN [k.data[l] EXCEPT !.pos = @ + offset] ELSE k.data[l]]])
    BY DEF RemoveTokens
  <2> QED BY <2>1, <2>2
<1>3. numCtx \in Nat
      /\ \A l \in Locs : /\ k.cells[l] \in Cell /\ k.cells[l].pos \in Nat
                          /\ k.cells[l].pos \in 0..numCtx - 1
                          /\ k.cells[l].sequences \in SUBSET Slots
  <2>1. numCtx \in Nat
    BY Sizes
  <2>. HIDE DEF numCtx
  <2> QED BY <2>1, <1>1 DEF Cell
<1>4. \A l \in Locs : behind(l) <=> s \in k.cells[l].sequences /\ k.cells[l].pos >= e
  BY DEF Behind, LocsOf
<1>5. \A l \in Locs : behind(l) => k.cells[l].sequences = {s}
  BY DEF RemoveFails
<1>6. \A l \in Locs : /\ cells[l].pos = IF behind(l) THEN k.cells[l].pos - (e - b) ELSE k.cells[l].pos
                      /\ cells[l].sequences = IF removed(l) THEN k.cells[l].sequences \ {s}
                                              ELSE k.cells[l].sequences
                      /\ cells[l] \in Cell
  <2> SUFFICES ASSUME NEW l \in Locs
               PROVE  /\ cells[l].pos = IF behind(l) THEN k.cells[l].pos - (e - b) ELSE k.cells[l].pos
                      /\ cells[l].sequences = IF removed(l) THEN k.cells[l].sequences \ {s}
                                              ELSE k.cells[l].sequences
                      /\ cells[l] \in Cell
    OBVIOUS
  <2>. DEFINE p == k.cells[l].pos
              q == k.cells[l].sequences
  <2>1. p \in 0..numCtx - 1 /\ q \in SUBSET Slots /\ k.cells[l] \in Cell
    BY <1>3
  <2>2. behind(l) <=> s \in q /\ p >= e
    BY <1>4
  <2>3. removed(l) <=> s \in q /\ p >= b /\ p < e
    OBVIOUS
  <2>4. ~(removed(l) /\ behind(l))
    BY <2>1, <2>2, <2>3
  <2>5. cells[l] = IF removed(l) THEN [k.cells[l] EXCEPT !.sequences = @ \ {s}]
                   ELSE IF behind(l) THEN [k.cells[l] EXCEPT !.pos = @ + offset]
                   ELSE k.cells[l]
    OBVIOUS
  <2>. HIDE DEF cells, removed, behind, p, q
  <2>6. CASE removed(l)
    <3>1. cells[l] = [k.cells[l] EXCEPT !.sequences = q \ {s}]
      BY <2>5, <2>6 DEF q
    <3>2. q \ {s} \in SUBSET Slots
      BY <2>1
    <3>3. cells[l].pos = p /\ cells[l].sequences = q \ {s} /\ cells[l] \in Cell
      BY <2>1, <3>1, <3>2, CellShared DEF p
    <3> QED BY <2>4, <2>6, <3>3 DEF p, q
  <2>7. CASE behind(l)
    <3>1. cells[l] = [k.cells[l] EXCEPT !.pos = p + offset]
      BY <2>4, <2>5, <2>7 DEF p
    <3>2. p + offset = p - (e - b) /\ p + offset \in 0..numCtx - 1
      BY <2>1, <2>2, <2>7, <1>3
    <3>3. cells[l].pos = p + offset /\ cells[l].sequences = q /\ cells[l] \in Cell
      BY <2>1, <3>1, <3>2, CellMoved DEF q
    <3> QED BY <2>4, <2>7, <3>2, <3>3 DEF p, q
  <2>8. CASE ~removed(l) /\ ~behind(l)
    BY <2>1, <2>5, <2>8 DEF p, q
  <2> QED BY <2>6, <2>7, <2>8
<1>7. \A l \in Locs : /\ data[l] \in Datum
                      /\ data[l] = IF behind(l)
                                   THEN [token |-> k.data[l].token, pos |-> k.data[l].pos - (e - b)]
                                   ELSE k.data[l]
  <2> SUFFICES ASSUME NEW l \in Locs
               PROVE  /\ data[l] \in Datum
                      /\ data[l] = IF behind(l)
                                   THEN [token |-> k.data[l].token, pos |-> k.data[l].pos - (e - b)]
                                   ELSE k.data[l]
    OBVIOUS
  <2>1. data[l] = IF behind(l) THEN [k.data[l] EXCEPT !.pos = @ + offset] ELSE k.data[l]
    OBVIOUS
  <2>2. /\ k.data[l] \in Datum
        /\ k.data[l].token \in Tokens \cup {Blank} /\ k.data[l].pos \in Int
        /\ k.data[l] = [token |-> k.data[l].token, pos |-> k.data[l].pos]
    BY <1>1 DEF Datum
  <2>. HIDE DEF data, behind
  <2>5. CASE behind(l)
    <3>1. data[l] = [token |-> k.data[l].token, pos |-> k.data[l].pos + offset]
      BY <2>1, <2>2, <2>5
    <3>2. k.data[l].pos + offset = k.data[l].pos - (e - b) /\ k.data[l].pos + offset \in Int
      BY <2>2
    <3> QED BY <2>2, <2>5, <3>1, <3>2 DEF Datum
  <2>6. CASE ~behind(l)
    BY <2>1, <2>2, <2>6
  <2> QED BY <2>5, <2>6
<1>8. left \in SUBSET Locs
  BY DEF LocsOf
<1>10. cells \in [Locs -> Cell] /\ data \in [Locs -> Datum]
  <2>1. cells = [l \in Locs |-> cells[l]] /\ data = [l \in Locs |-> data[l]]
    OBVIOUS
  <2>. HIDE DEF cells, data
  <2> QED BY <2>1, <1>6, <1>7
<1>11. span \in Spans /\ Covered(span, left)
  <2>1. CASE left = {}
    <3>1. span = [min |-> MaxInt, max |-> -1] /\ MaxInt \in Nat
      BY <2>1, Sizes DEF noRange
    <3>2. span \in Spans /\ span.min = MaxInt
      BY <3>1 DEF Spans
    <3> QED BY <2>1, <3>2 DEF Covered
  <2>2. CASE left # {}
    BY <2>2, <1>8, CoversIt
  <2> QED BY <2>1, <2>2
<1>9. /\ x \in Caches /\ x.cells = cells /\ x.data = data /\ x.merged = k.merged
      /\ x.ranges[s] = span /\ \A t \in Slots \ {s} : x.ranges[t] = k.ranges[t]
  <2>1. x = [k EXCEPT !.cells = cells, !.ranges[s] = span, !.data = data]
    OBVIOUS
  <2>. HIDE DEF cells, data, span, x
  <2>2. /\ x.cells = cells /\ x.data = data /\ x.merged = k.merged
        /\ x.ranges = [k.ranges EXCEPT ![s] = span]
    BY <2>1, <1>0
  <2>5. x = [cells |-> x.cells, data |-> x.data, ranges |-> x.ranges, merged |-> x.merged]
    BY <2>1, <1>0
  <2>3. x.ranges \in [Slots -> Spans] /\ x.ranges[s] = span
        /\ \A t \in Slots \ {s} : x.ranges[t] = k.ranges[t]
    BY <2>2, <1>1, <1>11
  <2>4. x \in Caches
    BY <2>2, <2>3, <2>5, <1>1, <1>10 DEF Caches
  <2> QED BY <2>2, <2>3, <2>4
<1>. HIDE DEF cells, data, span, x
<1>13. \A t \in Slots \ {s} : SameFor(k, x, t) /\ x.ranges[t] = k.ranges[t]
  <2> SUFFICES ASSUME NEW t \in Slots \ {s} PROVE SameFor(k, x, t) /\ x.ranges[t] = k.ranges[t]
    OBVIOUS
  <2>1. \A l \in Locs : t \in cells[l].sequences <=> t \in k.cells[l].sequences
    BY <1>6
  <2>2. LocsOf(cells, t) = LocsOf(k.cells, t)
    BY <2>1 DEF LocsOf
  <2>3. \A l \in LocsOf(k.cells, t) : ~behind(l) /\ l \in Locs
    BY <1>5 DEF LocsOf
  <2>4. \A l \in LocsOf(k.cells, t) : cells[l].pos = k.cells[l].pos /\ data[l] = k.data[l]
    BY <2>3, <1>6, <1>7
  <2> QED BY <2>2, <2>4, <1>1, <1>9 DEF SameFor
<1>14. left = {l \in LocsOf(k.cells, s) : k.cells[l].pos < b \/ k.cells[l].pos >= e}
  <2>1. \A l \in Locs : s \in cells[l].sequences
                          <=> s \in k.cells[l].sequences /\ (k.cells[l].pos < b \/ k.cells[l].pos >= e)
    <3> SUFFICES ASSUME NEW l \in Locs
                 PROVE  s \in cells[l].sequences
                          <=> s \in k.cells[l].sequences /\ (k.cells[l].pos < b \/ k.cells[l].pos >= e)
      OBVIOUS
    <3>1. k.cells[l].pos \in 0..numCtx - 1
      BY <1>3
    <3>2. cells[l].sequences = IF removed(l) THEN k.cells[l].sequences \ {s}
                               ELSE k.cells[l].sequences
      BY <1>6
    <3>3. removed(l) <=> s \in k.cells[l].sequences
                            /\ ~(k.cells[l].pos < b \/ k.cells[l].pos >= e)
      BY <3>1
    <3>. HIDE DEF removed
    <3> QED BY <3>2, <3>3
  <2> QED BY <2>1 DEF LocsOf
<1>15. \A l \in left : /\ l \in Locs /\ (behind(l) <=> k.cells[l].pos >= e)
                       /\ k.cells[l].pos \in Nat
                       /\ (k.cells[l].pos < b \/ k.cells[l].pos >= e)
  <2> SUFFICES ASSUME NEW l \in left
               PROVE  /\ l \in Locs /\ (behind(l) <=> k.cells[l].pos >= e)
                      /\ k.cells[l].pos \in Nat
                      /\ (k.cells[l].pos < b \/ k.cells[l].pos >= e)
    OBVIOUS
  <2>1. l \in LocsOf(k.cells, s) /\ (k.cells[l].pos < b \/ k.cells[l].pos >= e)
    BY <1>14
  <2>2. l \in Locs /\ s \in k.cells[l].sequences
    BY <2>1 DEF LocsOf
  <2>3. behind(l) <=> k.cells[l].pos >= e
    BY <2>2, <1>4
  <2>4. k.cells[l].pos \in Nat
    BY <2>2, <1>3
  <2> QED BY <2>1, <2>2, <2>3, <2>4
<1>16. \A l, m \in LocsOf(x.cells, s) : x.cells[l].pos = x.cells[m].pos => l = m
  <2> SUFFICES ASSUME NEW l \in left, NEW m \in left, cells[l].pos = cells[m].pos
               PROVE  l = m
    BY <1>9
  <2>1. k.cells[l].pos = k.cells[m].pos
    <3>1. /\ cells[l].pos = IF k.cells[l].pos >= e THEN k.cells[l].pos - (e - b) ELSE k.cells[l].pos
          /\ cells[m].pos = IF k.cells[m].pos >= e THEN k.cells[m].pos - (e - b) ELSE k.cells[m].pos
      BY <1>6, <1>15
    <3>. DEFINE p == k.cells[l].pos
                q == k.cells[m].pos
    <3>2. /\ p \in Nat /\ (p < b \/ p >= e) /\ q \in Nat /\ (q < b \/ q >= e)
          /\ (IF p >= e THEN p - (e - b) ELSE p) = (IF q >= e THEN q - (e - b) ELSE q)
      BY <3>1, <1>15
    <3>. HIDE DEF p, q
    <3>3. p = q
      BY <3>2
    <3> QED BY <3>3 DEF p, q
  <2>2. l \in LocsOf(k.cells, s) /\ m \in LocsOf(k.cells, s)
    BY <1>14
  <2> QED BY <2>1, <2>2 DEF Sound, Distinct
<1>18. x.ranges[s] = span /\ Covered(x.ranges[s], LocsOf(x.cells, s))
  BY <1>1, <1>9, <1>11
<1>19. /\ Sound(Tidy(x)) /\ Tidy(x).merged = x.merged
       /\ \A t \in Slots \ {s} : SameFor(k, Tidy(x), t)
       /\ SameFor(x, Tidy(x), s)
  BY <1>9, <1>13, <1>16, <1>18, Changed
<1>20. LocsOf(Tidy(x).cells, s) = left
       /\ \A l \in left : Tidy(x).cells[l].pos = cells[l].pos /\ Tidy(x).data[l] = data[l]
  BY <1>9, <1>19 DEF SameFor
<1>21. \A l \in left :
          /\ Tidy(x).cells[l].pos = IF k.cells[l].pos >= e THEN k.cells[l].pos - (e - b) ELSE k.cells[l].pos
          /\ Tidy(x).data[l] = IF k.cells[l].pos >= e
                               THEN [token |-> k.data[l].token, pos |-> k.data[l].pos - (e - b)]
                               ELSE k.data[l]
  BY <1>6, <1>7, <1>15, <1>20
<1>. HIDE DEF left, Sound, SameFor
<1>22. IsRemoved(k, Tidy(x), s, b, e)
  BY <1>9, <1>14, <1>19, <1>20, <1>21 DEF IsRemoved
<1>. HIDE DEF x
<1> QED BY <1>2, <1>22

(* One element of a sequence of moves: the state of a defragmentation.     *)
Moves == [cells : [Locs -> Cell], data : [Locs -> Datum], src : Locs,
          from : Locs, to : Locs, len : Nat, merged : BOOLEAN]
Moved(d) == moveCell(d.data, d.from, d.to, d.len)

(* f moves the cells of k to those of another cache, and their data with   *)
(* them unless two moves were merged.                                      *)
Moving(k, cells, data, merged, f) ==
    /\ f \in [Locs -> Locs]
    /\ \A l, m \in Locs : f[l] = f[m] => l = m
    /\ \A m \in Locs : \E l \in Locs : f[l] = m
    /\ \A l \in Locs : cells[f[l]] = k.cells[l]
    /\ k.merged => merged
    /\ ~merged => \A l \in Locs : ~IsFree(k.cells, l) => data[f[l]] = k.data[l]

(* The first n locations were looked at.                                   *)
Compacting(k, d, n) ==
    /\ d \in Moves
    /\ d.from + d.len <= Capacity /\ d.to + d.len <= Capacity
    /\ \A l \in Locs : IsFree(d.cells, l) => d.cells[l] = FreeCell
    /\ \A l \in Locs : l > d.src => IsFree(d.cells, l)
    /\ \A l \in Locs : l < n /\ l < d.src => ~IsFree(d.cells, l)
    /\ \E f : Moving(k, d.cells, Moved(d), d.merged, f)

(* The tensors stay tensors when a block of them is moved.                 *)
LEMMA MovedTypes ==
  ASSUME CausalAssumption, NEW data \in [Locs -> Datum],
         NEW src \in Locs, NEW dst \in Locs, NEW len \in Nat, src + len <= Capacity
  PROVE  moveCell(data, src, dst, len) \in [Locs -> Datum]
<1>1. \A l \in Locs : l \in dst..dst + len - 1 => src + (l - dst) \in Locs
  <2> SUFFICES ASSUME NEW l \in Locs, l \in dst..dst + len - 1 PROVE src + (l - dst) \in Locs
    OBVIOUS
  <2>1. Capacity \in Nat /\ src \in 0..Capacity - 1 /\ dst \in 0..Capacity - 1 /\ l \in 0..Capacity - 1
    BY DEF Locs, CausalAssumption
  <2> QED BY <2>1 DEF Locs
<1> QED BY <1>1 DEF moveCell

(* Filling a hole swaps it with the last cell in use.                      *)
LEMMA Filling ==
  ASSUME CausalAssumption, NEW k, NEW d, NEW dst \in Locs, Compacting(k, d, dst)
  PROVE  Compacting(k, FillHole(d, dst), dst + 1)
<1>. DEFINE used == {l \in dst + 1..d.src : ~IsFree(d.cells, l)}
            src == Covering(used).max
            contiguous == d.len > 0 /\ src = d.from - d.len /\ dst = d.to + d.len
            e == FillHole(d, dst)
<1>1. /\ d.cells \in [Locs -> Cell] /\ d.data \in [Locs -> Datum] /\ d.src \in Locs
      /\ d.from \in Locs /\ d.to \in Locs /\ d.len \in Nat /\ d.merged \in BOOLEAN
      /\ d = [cells |-> d.cells, data |-> d.data, src |-> d.src, from |-> d.from,
              to |-> d.to, len |-> d.len, merged |-> d.merged]
  BY DEF Compacting, Moves
<1>2. Capacity \in Nat /\ Locs = 0..Capacity - 1 /\ dst \in Nat /\ d.src \in Nat
      /\ d.src < Capacity
  BY <1>1 DEF Locs, CausalAssumption
<1>3. CASE dst >= d.src \/ ~IsFree(d.cells, dst)
  <2>1. e = d
    BY <1>3 DEF FillHole
  <2>2. \A l \in Locs : l < dst + 1 /\ l < d.src => ~IsFree(d.cells, l)
    <3> SUFFICES ASSUME NEW l \in Locs, l < dst + 1, l < d.src PROVE ~IsFree(d.cells, l)
      OBVIOUS
    <3>1. l < dst \/ (l = dst /\ ~IsFree(d.cells, dst))
      BY <1>2, <1>3
    <3> QED BY <3>1 DEF Compacting
  <2>. HIDE DEF e
  <2> QED BY <2>1, <2>2, Zenon DEF Compacting, e
<1>4. CASE ~(dst >= d.src \/ ~IsFree(d.cells, dst)) /\ used = {}
  <2>1. e = [d EXCEPT !.src = dst]
    BY <1>4 DEF FillHole
  <2>. HIDE DEF e
  <2>2. /\ e.cells = d.cells /\ e.data = d.data /\ e.src = dst /\ e.from = d.from
        /\ e.to = d.to /\ e.len = d.len /\ e.merged = d.merged
        /\ e = [cells |-> e.cells, data |-> e.data, src |-> e.src, from |-> e.from,
                to |-> e.to, len |-> e.len, merged |-> e.merged]
    BY <1>1, <2>1
  <2>3. e \in Moves
    BY <1>1, <2>2 DEF Moves
  <2>4. \A l \in Locs : l > dst => IsFree(d.cells, l)
    <3> SUFFICES ASSUME NEW l \in Locs, l > dst, ~IsFree(d.cells, l) PROVE FALSE
      OBVIOUS
    <3>1. ~(l > d.src)
      BY DEF Compacting
    <3>2. l \in dst + 1..d.src
      BY <3>1, <1>2
    <3> QED BY <3>2, <1>4
  <2>5. \A l \in Locs : l < dst + 1 /\ l < dst => ~IsFree(d.cells, l)
    BY <1>2, <1>4 DEF Compacting
  <2>6. Moved(e) = Moved(d)
    BY <2>2 DEF Moved
  <2>7. /\ d.from + d.len <= Capacity /\ d.to + d.len <= Capacity
        /\ \A l \in Locs : IsFree(d.cells, l) => d.cells[l] = FreeCell
        /\ \E f : Moving(k, d.cells, Moved(d), d.merged, f)
    BY DEF Compacting
  <2> QED BY <2>2, <2>3, <2>4, <2>5, <2>6, <2>7, Zenon DEF Compacting, e
<1>5. CASE ~(dst >= d.src \/ ~IsFree(d.cells, dst)) /\ used # {}
  <2>1. e = [cells |-> [d.cells EXCEPT ![dst] = d.cells[src], ![src] = FreeCell],
             data |-> IF contiguous THEN d.data ELSE Moved(d),
             src |-> src,
             from |-> src,
             to |-> IF contiguous THEN d.to ELSE dst,
             len |-> IF contiguous THEN d.len + 1 ELSE 1,
             merged |-> d.merged \/ contiguous]
    BY <1>5 DEF FillHole, Moved
  <2>2. used \in SUBSET Locs
    <3> SUFFICES ASSUME NEW l \in dst + 1..d.src PROVE l \in Locs
      OBVIOUS
    <3> QED BY <1>2
  <2>3. src \in used /\ \A l \in used : l <= src
    BY <2>2, <1>5, CoversIt DEF Covered
  <2>4. /\ src \in Locs /\ src \in Nat /\ dst < src /\ src <= d.src
        /\ ~IsFree(d.cells, src) /\ IsFree(d.cells, dst) /\ dst < d.src
    <3>1. src \in dst + 1..d.src /\ src \in Locs /\ ~IsFree(d.cells, src)
      BY <2>2, <2>3
    <3>. HIDE DEF src
    <3> QED BY <1>2, <1>5, <3>1
  <2>5. \A l \in Locs : l > src => IsFree(d.cells, l)
    <3> SUFFICES ASSUME NEW l \in Locs, l > src, ~IsFree(d.cells, l) PROVE FALSE
      OBVIOUS
    <3>1. ~(l > d.src)
      BY DEF Compacting
    <3>2. l \in used
      BY <3>1, <1>2, <2>4
    <3> QED BY <3>2, <2>3, <2>4, <1>2
  <2>. HIDE DEF used, src, contiguous, e
  <2>6. FreeCell \in Cell /\ IsFree([l \in Locs |-> FreeCell], dst) /\ FreeCell.sequences = {}
    <3>1. d.cells[dst] = FreeCell /\ d.cells[dst] \in Cell
      BY <2>4, <1>1 DEF Compacting
    <3> QED BY <3>1 DEF IsFree, FreeCell
  <2>7. /\ e.cells \in [Locs -> Cell] /\ e.cells[dst] = d.cells[src] /\ e.cells[src] = FreeCell
        /\ \A l \in Locs \ {src, dst} : e.cells[l] = d.cells[l]
    <3>1. e.cells = [d.cells EXCEPT ![dst] = d.cells[src], ![src] = FreeCell]
      BY <2>1
    <3> QED BY <3>1, <1>1, <2>4, <2>6
  <2>8. Moved(d) \in [Locs -> Datum]
    BY <1>1, MovedTypes DEF Moved, Compacting
  <2>9. /\ e.src = src /\ e.from = src /\ e.merged = (d.merged \/ contiguous)
        /\ e.data = (IF contiguous THEN d.data ELSE Moved(d))
        /\ e.to = (IF contiguous THEN d.to ELSE dst)
        /\ e.len = (IF contiguous THEN d.len + 1 ELSE 1)
        /\ e = [cells |-> e.cells, data |-> e.data, src |-> e.src, from |-> e.from,
                to |-> e.to, len |-> e.len, merged |-> e.merged]
    BY <2>1
  <2>10. e.data \in [Locs -> Datum] /\ e.to \in Locs /\ e.len \in Nat /\ e.merged \in BOOLEAN
    BY <2>8, <2>9, <1>1 DEF contiguous
  <2>11. e \in Moves
    BY <2>4, <2>7, <2>9, <2>10 DEF Moves
  <2>12. e.from + e.len <= Capacity /\ e.to + e.len <= Capacity
    <3>1. CASE contiguous
      <4>1. src = d.from - d.len /\ dst = d.to + d.len
        BY <3>1 DEF contiguous
      <4>2. e.len = d.len + 1 /\ e.from = src /\ e.to = d.to
        BY <2>9, <3>1
      <4>3. d.from \in 0..Capacity - 1 /\ d.to \in 0..Capacity - 1 /\ d.len \in Nat
        BY <1>1, <1>2
      <4> QED BY <1>2, <4>1, <4>2, <4>3
    <3>2. CASE ~contiguous
      <4>1. e.len = 1 /\ e.from = src /\ e.to = dst
        BY <2>9, <3>2
      <4> QED BY <1>2, <2>4, <4>1
    <3> QED BY <3>1, <3>2
  <2>13. \A l \in Locs : IsFree(e.cells, l) => e.cells[l] = FreeCell
    BY <2>4, <2>7 DEF Compacting, IsFree
  <2>14. \A l \in Locs : l > src => IsFree(e.cells, l)
    <3> SUFFICES ASSUME NEW l \in Locs, l > src PROVE IsFree(e.cells, l)
      OBVIOUS
    <3>1. l # src /\ l # dst
      BY <1>2, <2>4
    <3> QED BY <3>1, <2>5, <2>7 DEF IsFree
  <2>15. \A l \in Locs : l < dst + 1 /\ l < src => ~IsFree(e.cells, l)
    <3> SUFFICES ASSUME NEW l \in Locs, l < dst + 1, l < src PROVE ~IsFree(e.cells, l)
      OBVIOUS
    <3>1. CASE l = dst
      BY <3>1, <2>4, <2>7 DEF IsFree
    <3>2. CASE l # dst
      <4>1. l < dst /\ l < d.src /\ l # src
        BY <3>2, <1>2, <2>4
      <4> QED BY <4>1, <3>2, <2>7 DEF Compacting, IsFree
    <3> QED BY <3>1, <3>2
  <2>16. PICK f : Moving(k, d.cells, Moved(d), d.merged, f)
    BY DEF Compacting
  <2>. DEFINE swap(m) == IF m = src THEN dst ELSE IF m = dst THEN src ELSE m
              g == [l \in Locs |-> swap(f[l])]
  <2>17. \A m \in Locs : swap(m) \in Locs /\ swap(swap(m)) = m /\ e.cells[swap(m)] = d.cells[m]
    <3> SUFFICES ASSUME NEW m \in Locs
                 PROVE  swap(m) \in Locs /\ swap(swap(m)) = m /\ e.cells[swap(m)] = d.cells[m]
      OBVIOUS
    <3>1. d.cells[dst] = FreeCell
      BY <2>4 DEF Compacting
    <3> QED BY <2>4, <2>7, <3>1
  <2>18. /\ f \in [Locs -> Locs] /\ \A l, m \in Locs : f[l] = f[m] => l = m
         /\ \A m \in Locs : \E l \in Locs : f[l] = m
         /\ \A l \in Locs : d.cells[f[l]] = k.cells[l]
         /\ k.merged => d.merged
    BY <2>16 DEF Moving
  <2>19. g \in [Locs -> Locs] /\ \A l \in Locs : g[l] = swap(f[l])
    BY <2>17, <2>18
  <2>. HIDE DEF g, swap
  <2>20. \A l, m \in Locs : g[l] = g[m] => l = m
    <3> SUFFICES ASSUME NEW l \in Locs, NEW m \in Locs, g[l] = g[m] PROVE l = m
      OBVIOUS
    <3>1. f[l] \in Locs /\ f[m] \in Locs /\ swap(f[l]) = swap(f[m])
      BY <2>18, <2>19
    <3>2. f[l] = f[m]
      BY <3>1, <2>17
    <3> QED BY <3>2, <2>18
  <2>21. \A m \in Locs : \E l \in Locs : g[l] = m
    <3> SUFFICES ASSUME NEW m \in Locs PROVE \E l \in Locs : g[l] = m
      OBVIOUS
    <3>1. PICK l \in Locs : f[l] = swap(m)
      BY <2>17, <2>18
    <3>2. g[l] = m
      BY <3>1, <2>17, <2>19
    <3> QED BY <3>2
  <2>22. \A l \in Locs : e.cells[g[l]] = k.cells[l]
    BY <2>17, <2>18, <2>19
  <2>23. k.merged => e.merged
    BY <2>9, <2>18
  <2>24. ASSUME ~e.merged, NEW l \in Locs, ~IsFree(k.cells, l)
         PROVE  Moved(e)[g[l]] = k.data[l]
    <3>1. ~d.merged /\ ~contiguous
      BY <2>9, <2>24
    <3>2. Moved(d)[f[l]] = k.data[l]
      BY <2>16, <2>24, <3>1 DEF Moving
    <3>3. f[l] # dst /\ f[l] \in Locs
      BY <2>4, <2>18, <2>24 DEF IsFree
    <3>4. e.data = Moved(d) /\ e.from = src /\ e.to = dst /\ e.len = 1
      BY <2>9, <3>1
    <3>5. \A m \in Locs : Moved(e)[m] = IF m = dst THEN Moved(d)[src] ELSE Moved(d)[m]
      <4> SUFFICES ASSUME NEW m \in Locs
                   PROVE  Moved(e)[m] = IF m = dst THEN Moved(d)[src] ELSE Moved(d)[m]
        OBVIOUS
      <4>1. Moved(e)[m] = IF m \in dst..dst + 1 - 1 THEN Moved(d)[src + (m - dst)] ELSE Moved(d)[m]
        BY <3>4 DEF Moved, moveCell
      <4>2. m \in dst..dst + 1 - 1 <=> m = dst
        BY <1>2
      <4>3. m = dst => src + (m - dst) = src
        BY <1>2, <2>4
      <4> QED BY <4>1, <4>2, <4>3
    <3>6. g[l] = IF f[l] = src THEN dst ELSE f[l]
      BY <2>19, <3>3 DEF swap
    <3>7. g[l] \in Locs
      BY <2>19
    <3> QED BY <3>2, <3>3, <3>5, <3>6, <3>7
  <2>25. Moving(k, e.cells, Moved(e), e.merged, g)
    BY <2>19, <2>20, <2>21, <2>22, <2>23, <2>24 DEF Moving
  <2>26. e.src = src
    BY <2>9
  <2> QED BY <2>26, <2>11, <2>12, <2>13, <2>14, <2>15, <2>25, Zenon DEF Compacting, e
<1> QED BY <1>3, <1>4, <1>5

(* The whole loop of defrag, by induction on the locations looked at.      *)
LEMMA CompactedAll ==
  ASSUME CausalAssumption, NEW k, Sound(k)
  PROVE  Compacting(k, Compacted(k), Capacity)
<1>. DEFINE start == [cells |-> k.cells, data |-> k.data, src |-> Capacity - 1,
                      from |-> 0, to |-> 0, len |-> 0, merged |-> k.merged]
            F(n, g) == [i \in 0..n |-> IF i = 0 THEN start ELSE FillHole(g[i - 1], i - 1)]
            Bad == {n \in 0..Capacity :
                      ~\E g : g = F(n, g) /\ \A i \in 0..n : Compacting(k, g[i], i)}
<1>1. Capacity \in Nat /\ Capacity # 0 /\ Locs = 0..Capacity - 1
  BY DEF CausalAssumption, Locs
<1>2. Compacting(k, start, 0)
  <2>1. /\ k.cells \in [Locs -> Cell] /\ k.data \in [Locs -> Datum] /\ k.merged \in BOOLEAN
        /\ \A l \in Locs : IsFree(k.cells, l) => k.cells[l] = FreeCell
    BY DEF Sound, Caches, Filled
  <2>2. /\ start.cells = k.cells /\ start.data = k.data /\ start.merged = k.merged
        /\ start.src = Capacity - 1 /\ start.from = 0 /\ start.to = 0 /\ start.len = 0
    OBVIOUS
  <2>3. 0 \in Locs /\ Capacity - 1 \in Locs
    BY <1>1
  <2>4. start \in Moves
    BY <2>1, <2>3 DEF Moves
  <2>. HIDE DEF start
  <2>5. Moved(start) = k.data
    <3>1. \A l \in Locs : ~(l \in 0..0 + 0 - 1)
      BY <1>1
    <3>2. Moved(start) = [l \in Locs |-> k.data[l]]
      BY <2>2, <3>1 DEF Moved, moveCell
    <3> QED BY <2>1, <3>2
  <2>. DEFINE f == [l \in Locs |-> l]
  <2>6. Moving(k, start.cells, Moved(start), start.merged, f)
    BY <2>2, <2>5 DEF Moving
  <2>. HIDE DEF f
  <2>7. \A l \in Locs : ~(l > Capacity - 1) /\ ~(l < 0)
    BY <1>1
  <2>8. /\ start.from + start.len <= Capacity /\ start.to + start.len <= Capacity
        /\ \A l \in Locs : IsFree(start.cells, l) => start.cells[l] = FreeCell
        /\ \A l \in Locs : l > start.src => IsFree(start.cells, l)
        /\ \A l \in Locs : l < 0 /\ l < start.src => ~IsFree(start.cells, l)
    BY <1>1, <2>1, <2>2, <2>7
  <2> QED BY <2>4, <2>6, <2>8, Zenon DEF Compacting
<1>. HIDE DEF start
<1>3. Bad = {}
  <2>1. SUFFICES ASSUME Bad # {} PROVE FALSE
    OBVIOUS
  <2>2. Bad \in SUBSET Nat
    BY <1>1
  <2>3. PICK n \in Bad : \A m \in Bad : n <= m
    <3>. HIDE DEF Bad
    <3> QED BY <2>1, <2>2, Least
  <2>4. n \in 0..Capacity /\ n \in Nat
    BY <1>1
  <2>5. ~\E g : g = F(n, g) /\ \A i \in 0..n : Compacting(k, g[i], i)
    OBVIOUS
  <2>6. CASE n = 0
    <3>. DEFINE g == [i \in 0..0 |-> start]
    <3>1. g = F(0, g) /\ \A i \in 0..0 : g[i] = start /\ i = 0
      OBVIOUS
    <3>. HIDE DEF g
    <3>2. \A i \in 0..0 : Compacting(k, g[i], i)
      BY <1>2, <3>1
    <3> QED BY <2>5, <2>6, <3>1, <3>2
  <2>7. CASE n # 0
    <3>1. n - 1 \in 0..Capacity /\ n - 1 \in Nat /\ ~(n <= n - 1)
      BY <1>1, <2>4, <2>7
    <3>2. PICK g : g = F(n - 1, g) /\ \A i \in 0..n - 1 : Compacting(k, g[i], i)
      BY <2>3, <3>1
    <3>. DEFINE h == [i \in 0..n |-> IF i = n THEN FillHole(g[n - 1], n - 1) ELSE g[i]]
    <3>3. \A i \in 0..n : i # n => i \in 0..n - 1
      BY <2>4
    <3>4. \A i \in 0..n - 1 : i \in 0..n /\ i # n
      BY <2>4
    <3>5. /\ \A i \in 0..n - 1 : h[i] = g[i]
          /\ h[n] = FillHole(g[n - 1], n - 1)
          /\ h = [i \in 0..n |-> h[i]]
      BY <3>4, <2>4
    <3>. HIDE DEF h
    <3>6. \A i \in 0..n : h[i] = IF i = 0 THEN start ELSE FillHole(h[i - 1], i - 1)
      <4> SUFFICES ASSUME NEW i \in 0..n
                   PROVE  h[i] = IF i = 0 THEN start ELSE FillHole(h[i - 1], i - 1)
        OBVIOUS
      <4>1. CASE i = n
        <5>1. n - 1 \in 0..n - 1
          BY <3>1
        <5> QED BY <4>1, <5>1, <2>7, <3>5
      <4>2. CASE i # n
        <5>1. i \in 0..n - 1 /\ (i # 0 => i - 1 \in 0..n - 1)
          BY <4>2, <2>4
        <5>2. g[i] = IF i = 0 THEN start ELSE FillHole(g[i - 1], i - 1)
          BY <3>2, <5>1
        <5> QED BY <5>1, <5>2, <3>5
      <4> QED BY <4>1, <4>2
    <3>7. h = F(n, h)
      <4>1. F(n, h) = [i \in 0..n |-> h[i]]
        BY <3>6
      <4> QED BY <4>1, <3>5
    <3>8. \A i \in 0..n : Compacting(k, h[i], i)
      <4> SUFFICES ASSUME NEW i \in 0..n PROVE Compacting(k, h[i], i)
        OBVIOUS
      <4>1. CASE i = n
        <5>1. n - 1 \in 0..n - 1 /\ n - 1 \in Locs /\ (n - 1) + 1 = n
          BY <1>1, <2>4, <3>1
        <5>2. Compacting(k, g[n - 1], n - 1)
          BY <3>2, <5>1
        <5>3. Compacting(k, FillHole(g[n - 1], n - 1), (n - 1) + 1)
          BY <5>1, <5>2, Filling
        <5> QED BY <4>1, <5>1, <5>3, <3>5
      <4>2. CASE i # n
        BY <4>2, <3>2, <3>3, <3>5
      <4> QED BY <4>1, <4>2
    <3> QED BY <2>5, <3>7, <3>8
  <2> QED BY <2>6, <2>7
<1>4. \E g : g = F(Capacity, g) /\ \A i \in 0..Capacity : Compacting(k, g[i], i)
  BY <1>1, <1>3
<1>. DEFINE filled == CHOOSE g : g = F(Capacity, g)
<1>5. filled = F(Capacity, filled)
  BY <1>4
<1>6. Compacted(k) = filled[Capacity]
  BY DEF Compacted, start
<1>. HIDE DEF filled, Bad
<1>7. PICK g : g = F(Capacity, g) /\ \A i \in 0..Capacity : Compacting(k, g[i], i)
  BY <1>4
(* The two functions agree.                                                *)
<1>8. \A i \in 0..Capacity : filled[i] = g[i]
  <2>. DEFINE Diff == {i \in 0..Capacity : filled[i] # g[i]}
  <2>1. SUFFICES ASSUME Diff # {} PROVE FALSE
    OBVIOUS
  <2>2. Diff \in SUBSET Nat
    BY <1>1
  <2>3. PICK i \in Diff : \A j \in Diff : i <= j
    <3>. HIDE DEF Diff
    <3> QED BY <2>1, <2>2, Least
  <2>4. i \in 0..Capacity /\ filled[i] # g[i]
    OBVIOUS
  <2>5. /\ filled[i] = IF i = 0 THEN start ELSE FillHole(filled[i - 1], i - 1)
        /\ g[i] = IF i = 0 THEN start ELSE FillHole(g[i - 1], i - 1)
    BY <2>4, <1>5, <1>7
  <2>6. i # 0 => i - 1 \in 0..Capacity /\ ~(i <= i - 1)
    BY <1>1, <2>4
  <2>7. i # 0 => filled[i - 1] = g[i - 1]
    BY <2>3, <2>6
  <2> QED BY <2>4, <2>5, <2>7
<1> QED BY <1>1, <1>6, <1>7, <1>8

(* After a defragmentation the cells in use come first; each sequence has  *)
(* the cells it had.                                                       *)
LEMMA Defragged ==
  ASSUME CausalAssumption, InputCacheAssumption, NEW k, Sound(k)
  PROVE  LET r == defrag(k) IN
         /\ Sound(r)
         /\ \E f : Moving(k, r.cells, r.data, r.merged, f)
         /\ \A l, m \in Locs : l < m /\ ~IsFree(r.cells, m) => ~IsFree(r.cells, l)
<1>. DEFINE d == Compacted(k)
            ranges == [s \in Slots |-> IF k.ranges[s] = noRange THEN noRange
                                       ELSE Covering(LocsOf(d.cells, s))]
            x == [cells |-> d.cells, data |-> Moved(d), ranges |-> ranges, merged |-> d.merged]
            r == Tidy(x)
<1>1. defrag(k) = r
  BY DEF defrag, Moved
<1>2. Compacting(k, d, Capacity)
  BY CompactedAll
<1>. HIDE DEF d
<1>3. PICK f : Moving(k, d.cells, Moved(d), d.merged, f)
  BY <1>2 DEF Compacting
<1>4. /\ f \in [Locs -> Locs] /\ \A l, m \in Locs : f[l] = f[m] => l = m
      /\ \A m \in Locs : \E l \in Locs : f[l] = m
      /\ \A l \in Locs : d.cells[f[l]] = k.cells[l]
      /\ k.merged => d.merged
  BY <1>3 DEF Moving
<1>5. /\ d.cells \in [Locs -> Cell] /\ d.merged \in BOOLEAN /\ d.src \in Locs
      /\ Moved(d) \in [Locs -> Datum]
  BY <1>2, MovedTypes DEF Compacting, Moves, Moved
<1>6. \A s \in Slots : ranges[s] \in Spans /\ Covered(ranges[s], LocsOf(d.cells, s))
  <2> SUFFICES ASSUME NEW s \in Slots
               PROVE  ranges[s] \in Spans /\ Covered(ranges[s], LocsOf(d.cells, s))
    OBVIOUS
  <2>1. LocsOf(d.cells, s) \in SUBSET Locs
    BY DEF LocsOf
  <2>2. CASE k.ranges[s] = noRange
    <3>1. noRange.min = MaxInt /\ noRange.max = -1 /\ MaxInt \in Nat /\ noRange \in Spans
      BY Sizes DEF noRange, Spans
    <3>2. LocsOf(k.cells, s) = {}
      <4> SUFFICES ASSUME NEW l \in LocsOf(k.cells, s) PROVE FALSE
        OBVIOUS
      <4>1. l <= -1
        BY <2>2, <3>1 DEF Sound, Covered
      <4>2. l \in Nat
        BY Sizes DEF LocsOf, Locs
      <4> QED BY <4>1, <4>2
    <3>3. LocsOf(d.cells, s) = {}
      <4> SUFFICES ASSUME NEW m \in LocsOf(d.cells, s) PROVE FALSE
        OBVIOUS
      <4>1. PICK l \in Locs : f[l] = m
        BY <2>1, <1>4
      <4>2. s \in k.cells[l].sequences
        BY <4>1, <1>4 DEF LocsOf
      <4> QED BY <4>2, <3>2 DEF LocsOf
    <3> QED BY <2>2, <3>1, <3>3 DEF Covered
  <2>3. CASE k.ranges[s] # noRange
    BY <2>1, <2>3, CoversIt
  <2> QED BY <2>2, <2>3
<1>7. x \in Caches
  <2>1. ranges \in [Slots -> Spans]
    BY <1>6
  <2>. HIDE DEF ranges
  <2> QED BY <2>1, <1>5 DEF Caches
<1>8. /\ x.cells = d.cells /\ x.data = Moved(d) /\ x.ranges = ranges /\ x.merged = d.merged
  OBVIOUS
<1>. HIDE DEF x, ranges
<1>9. /\ r \in Caches /\ Filled(r) /\ r.ranges = ranges /\ r.merged = d.merged
      /\ \A s : LocsOf(r.cells, s) = LocsOf(d.cells, s)
      /\ \A l \in Locs : ~IsFree(d.cells, l) => r.cells[l] = d.cells[l] /\ r.data[l] = Moved(d)[l]
      /\ \A l \in Locs : IsFree(r.cells, l) <=> IsFree(d.cells, l)
  <2>1. /\ r \in Caches /\ Filled(r) /\ r.ranges = x.ranges /\ r.merged = x.merged
        /\ \A s : LocsOf(r.cells, s) = LocsOf(x.cells, s)
        /\ \A l \in Locs : ~IsFree(x.cells, l) => r.cells[l] = x.cells[l] /\ r.data[l] = x.data[l]
        /\ \A l \in Locs : IsFree(r.cells, l) <=> IsFree(x.cells, l)
    BY <1>7, Tidied
  <2>. HIDE DEF r
  <2> QED BY <2>1, <1>8
<1>. HIDE DEF r
<1>10. \A l \in Locs : r.cells[l] = d.cells[l]
  <2>1. \A l \in Locs : IsFree(d.cells, l) => d.cells[l] = FreeCell
    BY <1>2 DEF Compacting
  <2> QED BY <2>1, <1>9 DEF Filled
<1>11. Moving(k, r.cells, r.data, r.merged, f)
  <2>1. ASSUME ~r.merged, NEW l \in Locs, ~IsFree(k.cells, l) PROVE r.data[f[l]] = k.data[l]
    <3>1. Moved(d)[f[l]] = k.data[l]
      BY <2>1, <1>3, <1>9 DEF Moving
    <3>2. f[l] \in Locs /\ ~IsFree(d.cells, f[l])
      BY <2>1, <1>4 DEF IsFree
    <3> QED BY <3>1, <3>2, <1>9
  <2> QED BY <2>1, <1>4, <1>9, <1>10 DEF Moving
<1>12. Distinct(r)
  <2> SUFFICES ASSUME NEW s \in Slots, NEW l \in LocsOf(r.cells, s), NEW m \in LocsOf(r.cells, s),
                      r.cells[l].pos = r.cells[m].pos
               PROVE  l = m
    BY DEF Distinct
  <2>1. l \in Locs /\ m \in Locs
    BY DEF LocsOf
  <2>2. PICK i \in Locs : f[i] = l
    BY <2>1, <1>4
  <2>3. PICK j \in Locs : f[j] = m
    BY <2>1, <1>4
  <2>4. r.cells[l] = k.cells[i] /\ r.cells[m] = k.cells[j]
    BY <2>1, <2>2, <2>3, <1>4, <1>10
  <2>5. i \in LocsOf(k.cells, s) /\ j \in LocsOf(k.cells, s) /\ k.cells[i].pos = k.cells[j].pos
    BY <2>4 DEF LocsOf
  <2>6. i = j
    BY <2>5 DEF Sound, Distinct
  <2> QED BY <2>2, <2>3, <2>6
<1>13. Sound(r)
  BY <1>6, <1>9, <1>12 DEF Sound
<1>14. ASSUME NEW l \in Locs, NEW m \in Locs, l < m, ~IsFree(r.cells, m)
       PROVE  ~IsFree(r.cells, l)
  <2>1. Capacity \in Nat /\ l \in 0..Capacity - 1 /\ m \in 0..Capacity - 1
        /\ d.src \in 0..Capacity - 1
    BY <1>5 DEF Locs, CausalAssumption
  <2>2. ~(m > d.src)
    BY <1>9, <1>14, <1>2 DEF Compacting
  <2>3. l < Capacity /\ l < d.src
    BY <2>1, <2>2, <1>14
  <2>4. ~IsFree(d.cells, l)
    BY <2>3, <1>2 DEF Compacting
  <2> QED BY <2>4, <1>9
<1> QED BY <1>1, <1>11, <1>13, <1>14

(* What a defragmentation leaves of a sequence.                            *)
LEMMA DefragKeeps ==
  ASSUME NEW k, NEW r, NEW f, Moving(k, r.cells, r.data, r.merged, f), NEW s, NEW h, NEW n
  PROVE  /\ Holds(k, s, h) => Holds(r, s, h)
         /\ ~r.merged /\ Follows(k, s, h) => Follows(r, s, h)
         /\ EndsAt(k, s, n) => EndsAt(r, s, n)
<1>1. /\ f \in [Locs -> Locs] /\ \A m \in Locs : \E l \in Locs : f[l] = m
      /\ \A l \in Locs : r.cells[f[l]] = k.cells[l]
      /\ ~r.merged => \A l \in Locs : ~IsFree(k.cells, l) => r.data[f[l]] = k.data[l]
  BY DEF Moving
<1>2. ASSUME NEW l \in LocsOf(k.cells, s)
      PROVE  /\ l \in Locs /\ f[l] \in LocsOf(r.cells, s)
             /\ r.cells[f[l]] = k.cells[l] /\ ~IsFree(k.cells, l)
  BY <1>1 DEF LocsOf, IsFree
<1>3. ASSUME NEW m \in LocsOf(r.cells, s)
      PROVE  \E l \in LocsOf(k.cells, s) : f[l] = m
  <2>1. m \in Locs /\ s \in r.cells[m].sequences
    BY DEF LocsOf
  <2>2. PICK l \in Locs : f[l] = m
    BY <1>1, <2>1
  <2>3. l \in LocsOf(k.cells, s)
    BY <1>1, <2>1, <2>2 DEF LocsOf
  <2> QED BY <2>2, <2>3
<1>4. ASSUME Holds(k, s, h) PROVE Holds(r, s, h)
  <2> SUFFICES ASSUME NEW p \in 0..Len(h) - 1 PROVE \E m \in LocsOf(r.cells, s) : r.cells[m].pos = p
    BY DEF Holds
  <2>1. PICK l \in LocsOf(k.cells, s) : k.cells[l].pos = p
    BY <1>4 DEF Holds
  <2> QED BY <2>1, <1>2
<1>5. ASSUME ~r.merged, Follows(k, s, h) PROVE Follows(r, s, h)
  <2> SUFFICES ASSUME NEW m \in LocsOf(r.cells, s), r.cells[m].pos < Len(h)
               PROVE  r.data[m] = [token |-> h[r.cells[m].pos + 1], pos |-> r.cells[m].pos]
    BY DEF Follows
  <2>1. PICK l \in LocsOf(k.cells, s) : f[l] = m
    BY <1>3
  <2>2. r.cells[m] = k.cells[l] /\ r.data[m] = k.data[l]
    BY <2>1, <1>1, <1>2, <1>5
  <2>3. k.data[l] = [token |-> h[k.cells[l].pos + 1], pos |-> k.cells[l].pos]
    BY <2>2, <1>5 DEF Follows
  <2> QED BY <2>2, <2>3
<1>6. ASSUME EndsAt(k, s, n) PROVE EndsAt(r, s, n)
  <2> SUFFICES ASSUME NEW m \in LocsOf(r.cells, s) PROVE r.cells[m].pos < n
    BY DEF EndsAt
  <2>1. PICK l \in LocsOf(k.cells, s) : f[l] = m
    BY <1>3
  <2>2. k.cells[l].pos < n
    BY <1>6 DEF EndsAt
  <2> QED BY <2>1, <2>2, <1>2
<1> QED BY <1>4, <1>5, <1>6

-----------------------------------------------------------------------------
(* A batch may enter: its inputs are new, each has one place, and none is  *)
(* in the cache already.                                                   *)
Input == [slot : Slots, pos : 0..numCtx - 1, token : Tokens]
Fits(k, batch) ==
    /\ batch \in Seq(Input)
    /\ \A i, j \in DOMAIN batch :
          batch[i].slot = batch[j].slot /\ batch[i].pos = batch[j].pos => i = j
    /\ \A i \in DOMAIN batch : EndsAt(k, batch[i].slot, batch[i].pos)

(* findStartLoc finds a free block when there is one.                      *)
LEMMA Start ==
  ASSUME CausalAssumption, NEW cells, NEW n \in Nat
  PROVE  LET loc == findStartLoc(cells, n)
             isStart(l) == l + n <= Capacity /\ \A i \in 0..n - 1 : IsFree(cells, l + i)
         IN /\ loc # -1 => loc \in Locs /\ isStart(loc)
            /\ loc = -1 => \A l \in Locs : ~isStart(l)
<1>. DEFINE isStart(l) == l + n <= Capacity /\ \A i \in 0..n - 1 : IsFree(cells, l + i)
            starts == {l \in Locs : isStart(l)}
            loc == findStartLoc(cells, n)
<1>1. loc = IF starts = {} THEN -1 ELSE Covering(starts).min
  BY DEF findStartLoc
<1>2. starts \in SUBSET Locs
  OBVIOUS
<1>3. starts # {} => Covering(starts).min \in starts
  BY <1>2, CoversIt
<1>4. \A l \in Locs : l # -1
  BY DEF Locs, CausalAssumption
<1>. HIDE DEF isStart, loc
<1>5. loc # -1 => loc \in Locs /\ isStart(loc)
  BY <1>1, <1>3
<1>6. loc = -1 => \A l \in Locs : ~isStart(l)
  BY <1>1, <1>3, <1>4
<1> QED BY <1>5, <1>6 DEF isStart, loc

(* When the cells in use come first there is room for any batch that fits: *)
(* each cell and each input has a slot and a position of its own.          *)
LEMMA Room ==
  ASSUME CausalAssumption, InputCacheAssumption, NEW k, Sound(k),
         \A l, m \in Locs : l < m /\ ~IsFree(k.cells, m) => ~IsFree(k.cells, l),
         NEW batch, Fits(k, batch), batch # <<>>
  PROVE  findStartLoc(k.cells, Len(batch)) # -1
<1>. DEFINE n == Len(batch)
            U == {l \in 0..Capacity : l = Capacity \/ IsFree(k.cells, l)}
<1>1. /\ Capacity \in Nat \ {0} /\ Locs = 0..Capacity - 1
      /\ numSlots \in Nat /\ numCtx \in Nat \ {0} /\ numSlots * numCtx <= Capacity
      /\ IsFiniteSet(Slots) /\ Cardinality(Slots) = numSlots
  BY Sizes DEF Locs, numSlots
<1>2. n \in Nat \ {0} /\ DOMAIN batch = 1..n /\ \A i \in 1..n : batch[i] \in Input
  BY DEF Fits
<1>3. PICK u \in U : \A l \in U : u <= l
  <2>1. U \in SUBSET Nat /\ Capacity \in U
    BY <1>1
  <2>. HIDE DEF U
  <2> QED BY <2>1, Least
<1>4. u \in 0..Capacity /\ (u = Capacity \/ IsFree(k.cells, u))
  OBVIOUS
<1>5. \A l \in Locs : l < u => ~IsFree(k.cells, l)
  <2> SUFFICES ASSUME NEW l \in Locs, l < u, IsFree(k.cells, l) PROVE FALSE
    OBVIOUS
  <2>1. l \in U /\ l \in Nat
    BY <1>1
  <2>2. u <= l
    BY <1>3, <2>1
  <2>. HIDE DEF U
  <2> QED BY <1>4, <2>1, <2>2
<1>. HIDE DEF n, U
<1>6. SUFFICES ASSUME findStartLoc(k.cells, n) = -1 PROVE FALSE
  BY DEF n
<1>7. ~(u + n <= Capacity)
  <2> SUFFICES ASSUME u + n <= Capacity PROVE FALSE
    OBVIOUS
  <2>1. u \in Locs
    BY <1>1, <1>2, <1>4
  <2>2. ASSUME NEW i \in 0..n - 1 PROVE IsFree(k.cells, u + i)
    <3>1. u + i \in Locs /\ (i = 0 => u + i = u) /\ (i # 0 => u < u + i)
      BY <1>1, <1>2, <1>4, <2>1
    <3>2. IsFree(k.cells, u)
      BY <1>4, <2>1, <1>1
    <3> QED BY <2>1, <3>1, <3>2
  <2> QED BY <1>2, <1>6, <2>1, <2>2, Start
<1>8. \A l \in 0..u - 1 : l \in Locs /\ k.cells[l] \in Cell /\ k.cells[l].sequences # {}
                          /\ k.cells[l].pos \in 0..numCtx - 1
                          /\ k.cells[l].sequences \in SUBSET Slots
  <2> SUFFICES ASSUME NEW l \in 0..u - 1
               PROVE  l \in Locs /\ k.cells[l] \in Cell /\ k.cells[l].sequences # {}
                      /\ k.cells[l].pos \in 0..numCtx - 1
                      /\ k.cells[l].sequences \in SUBSET Slots
    OBVIOUS
  <2>1. l \in Locs /\ l < u
    BY <1>1, <1>4
  <2>2. k.cells[l] \in Cell
    BY <2>1 DEF Sound, Caches
  <2>3. k.cells[l].sequences # {}
    BY <2>1, <1>5 DEF IsFree
  <2>. HIDE DEF numCtx
  <2> QED BY <2>1, <2>2, <2>3 DEF Cell
<1>9. \A i \in 1..n : batch[i].slot \in Slots /\ batch[i].pos \in 0..numCtx - 1
  <2>. HIDE DEF numCtx
  <2> QED BY <1>2 DEF Input
<1>. DEFINE owner(l) == CHOOSE s \in k.cells[l].sequences : TRUE
            place == [l \in 0..u + n - 1 |->
                        IF l < u THEN <<owner(l), k.cells[l].pos>>
                        ELSE <<batch[l - u + 1].slot, batch[l - u + 1].pos>>]
            P == Slots \X (0..numCtx - 1)
<1>10. \A l \in 0..u - 1 : owner(l) \in Slots /\ l \in LocsOf(k.cells, owner(l))
  <2> SUFFICES ASSUME NEW l \in 0..u - 1
               PROVE  owner(l) \in Slots /\ l \in LocsOf(k.cells, owner(l))
    OBVIOUS
  <2>1. owner(l) \in k.cells[l].sequences
    BY <1>8
  <2>. HIDE DEF owner
  <2> QED BY <2>1, <1>8 DEF LocsOf
<1>. HIDE DEF owner
<1>11. \A l \in 0..u + n - 1 : IF l < u THEN l \in 0..u - 1 ELSE l - u + 1 \in 1..n
  BY <1>2, <1>4
<1>12. place \in [0..u + n - 1 -> P]
  <2> SUFFICES ASSUME NEW l \in 0..u + n - 1
               PROVE  (IF l < u THEN <<owner(l), k.cells[l].pos>>
                        ELSE <<batch[l - u + 1].slot, batch[l - u + 1].pos>>) \in P
    OBVIOUS
  <2>1. CASE l < u
    <3>1. l \in 0..u - 1
      BY <2>1, <1>11
    <3>2. owner(l) \in Slots /\ k.cells[l].pos \in 0..numCtx - 1
      BY <3>1, <1>8, <1>10
    <3>. HIDE DEF numCtx
    <3> QED BY <2>1, <3>2
  <2>2. CASE ~(l < u)
    <3>1. l - u + 1 \in 1..n
      BY <2>2, <1>11
    <3>2. batch[l - u + 1].slot \in Slots /\ batch[l - u + 1].pos \in 0..numCtx - 1
      BY <3>1, <1>9
    <3>. HIDE DEF numCtx
    <3> QED BY <2>2, <3>2
  <2> QED BY <2>1, <2>2
<1>13. ASSUME NEW l \in 0..u + n - 1, NEW m \in 0..u + n - 1, place[l] = place[m], l < u
       PROVE  l = m
  <2>1. l \in 0..u - 1 /\ place[l] = <<owner(l), k.cells[l].pos>>
    BY <1>11, <1>13
  <2>2. CASE m < u
    <3>1. m \in 0..u - 1 /\ place[m] = <<owner(m), k.cells[m].pos>>
      BY <1>11, <2>2
    <3>2. owner(l) = owner(m) /\ k.cells[l].pos = k.cells[m].pos
      BY <1>13, <2>1, <3>1
    <3>3. owner(l) \in Slots /\ l \in LocsOf(k.cells, owner(l)) /\ m \in LocsOf(k.cells, owner(l))
      BY <2>1, <3>1, <3>2, <1>10
    <3> QED BY <3>2, <3>3 DEF Sound, Distinct
  <2>3. CASE ~(m < u)
    <3>1. m - u + 1 \in 1..n /\ place[m] = <<batch[m - u + 1].slot, batch[m - u + 1].pos>>
      BY <1>11, <2>3
    <3>2. owner(l) = batch[m - u + 1].slot /\ k.cells[l].pos = batch[m - u + 1].pos
      BY <1>13, <2>1, <3>1
    <3>3. l \in LocsOf(k.cells, batch[m - u + 1].slot)
      BY <2>1, <3>2, <1>10
    <3>4. k.cells[l].pos < batch[m - u + 1].pos
      BY <3>1, <3>3, <1>2 DEF Fits, EndsAt
    <3>5. k.cells[l].pos \in Int
      BY <2>1, <1>8, <1>1
    <3> QED BY <3>2, <3>4, <3>5
  <2> QED BY <2>2, <2>3
<1>14. ASSUME NEW l \in 0..u + n - 1, NEW m \in 0..u + n - 1, place[l] = place[m],
              ~(l < u), ~(m < u)
       PROVE  l = m
  <2>. DEFINE i == l - u + 1
              j == m - u + 1
  <2>1. /\ i \in 1..n /\ place[l] = <<batch[i].slot, batch[i].pos>>
        /\ j \in 1..n /\ place[m] = <<batch[j].slot, batch[j].pos>>
    BY <1>11, <1>14
  <2>. HIDE DEF place, i, j
  <2>5. <<batch[i].slot, batch[i].pos>> = <<batch[j].slot, batch[j].pos>>
    BY ONLY <1>14, <2>1
  <2>2. batch[i].slot = batch[j].slot /\ batch[i].pos = batch[j].pos
    BY ONLY <2>5
  <2>3. i = j
    BY <1>2, <2>1, <2>2 DEF Fits
  <2>4. l - u + 1 = m - u + 1 /\ l \in Int /\ m \in Int /\ u \in Int
    BY <2>3, <1>4 DEF i, j
  <2> QED BY ONLY <2>4
<1>. HIDE DEF place
<1>15. \A l, m \in 0..u + n - 1 : place[l] = place[m] => l = m
  BY <1>13, <1>14
<1>16. IsFiniteSet(P) /\ Cardinality(P) <= Capacity
  <2>1. IsFiniteSet(0..numCtx - 1) /\ Cardinality(0..numCtx - 1) = numCtx
    <3>1. 0 \in Int /\ numCtx - 1 \in Int /\ ~(0 > numCtx - 1) /\ (numCtx - 1) - 0 + 1 = numCtx
      BY <1>1
    <3>. HIDE DEF numCtx
    <3> QED BY <3>1, FS_Interval
  <2>. HIDE DEF numCtx
  <2>2. IsFiniteSet(P) /\ Cardinality(P) = Cardinality(Slots) * Cardinality(0..numCtx - 1)
    BY <2>1, <1>1, FS_Product
  <2> QED BY <2>1, <2>2, <1>1
<1>. HIDE DEF P
<1>17. IsFiniteSet(0..u + n - 1) /\ Cardinality(0..u + n - 1) = u + n
  <2>1. 0 \in Int /\ u + n - 1 \in Int /\ ~(0 > u + n - 1) /\ (u + n - 1) - 0 + 1 = u + n
    BY <1>2, <1>4
  <2> QED BY <2>1, FS_Interval
<1>18. Cardinality(P) < Cardinality(0..u + n - 1)
  <2>1. Cardinality(P) \in Nat
    BY <1>16, FS_CardinalityType
  <2> QED BY <2>1, <1>1, <1>2, <1>4, <1>7, <1>16, <1>17
<1>19. \E l, m \in 0..u + n - 1 : l # m /\ place[l] = place[m]
  <2>. DEFINE D == 0..u + n - 1
  <2>1. /\ place \in [D -> P] /\ IsFiniteSet(D) /\ IsFiniteSet(P)
        /\ Cardinality(P) < Cardinality(D)
    BY <1>12, <1>16, <1>17, <1>18
  <2>. HIDE DEF D
  <2>2. \E l, m \in D : l # m /\ place[l] = place[m]
    <3>1. ASSUME NEW S, NEW T, NEW f \in [S -> T], IsFiniteSet(S), IsFiniteSet(T),
                 Cardinality(T) < Cardinality(S)
          PROVE  \E x, y \in S : x # y /\ f[x] = f[y]
      BY <3>1, FS_PigeonHole
    <3> QED BY <2>1, <3>1
  <2> QED BY <2>2 DEF D
<1> QED BY <1>15, <1>19

(* A batch that fits is given a free block.                                *)
LEMMA PlacedWell ==
  ASSUME CausalAssumption, InputCacheAssumption, NEW k, Sound(k),
         NEW batch, Fits(k, batch), batch # <<>>
  PROVE  LET p == Placed(k, Len(batch)) IN
         /\ p.loc \in Locs /\ p.loc + Len(batch) <= Capacity
         /\ \A i \in 0..Len(batch) - 1 : IsFree(p.kv.cells, p.loc + i)
         /\ Sound(p.kv) /\ Fits(p.kv, batch)
         /\ \A s, h : Holds(k, s, h) => Holds(p.kv, s, h)
         /\ ~p.kv.merged => ~k.merged /\ \A s, h : Follows(k, s, h) => Follows(p.kv, s, h)
         /\ \A s, n : EndsAt(k, s, n) => EndsAt(p.kv, s, n)
<1>. DEFINE n == Len(batch)
            p == Placed(k, n)
<1>1. n \in Nat
  BY DEF Fits
<1>. HIDE DEF n
<1>2. p.kv = (IF findStartLoc(k.cells, n) = -1 THEN defrag(k) ELSE k)
      /\ p.loc = findStartLoc(p.kv.cells, n)
  BY DEF Placed
<1>. HIDE DEF p
<1>3. CASE findStartLoc(k.cells, n) # -1
  <2>1. p.kv = k /\ p.loc = findStartLoc(k.cells, n)
    BY <1>2, <1>3
  <2>2. /\ p.loc \in Locs /\ p.loc + n <= Capacity
        /\ \A i \in 0..n - 1 : IsFree(k.cells, p.loc + i)
    BY <1>1, <1>3, <2>1, Start
  <2> QED BY <2>1, <2>2 DEF p, n
<1>4. CASE findStartLoc(k.cells, n) = -1
  <2>. DEFINE r == defrag(k)
  <2>1. p.kv = r /\ p.loc = findStartLoc(r.cells, n)
    BY <1>2, <1>4
  <2>2. /\ Sound(r)
        /\ \E f : Moving(k, r.cells, r.data, r.merged, f)
        /\ \A l, m \in Locs : l < m /\ ~IsFree(r.cells, m) => ~IsFree(r.cells, l)
    BY Defragged
  <2>. HIDE DEF r
  <2>3. PICK f : Moving(k, r.cells, r.data, r.merged, f)
    BY <2>2
  <2>4. /\ \A s, h : Holds(k, s, h) => Holds(r, s, h)
        /\ ~r.merged => \A s, h : Follows(k, s, h) => Follows(r, s, h)
        /\ \A s, m : EndsAt(k, s, m) => EndsAt(r, s, m)
    BY <2>3, DefragKeeps
  <2>5. ~r.merged => ~k.merged
    BY <2>3 DEF Moving
  <2>6. Fits(r, batch)
    BY <2>4 DEF Fits
  <2>7. findStartLoc(r.cells, n) # -1
    BY <2>2, <2>6, Room DEF n
  <2>8. /\ p.loc \in Locs /\ p.loc + n <= Capacity
        /\ \A i \in 0..n - 1 : IsFree(r.cells, p.loc + i)
    BY <1>1, <2>1, <2>7, Start
  <2> QED BY <2>1, <2>2, <2>4, <2>5, <2>6, <2>8 DEF p, n
<1> QED BY <1>3, <1>4

(* w is k with the batch entered at loc.                                   *)
EnteredAt(batch, loc, s) == {loc + i - 1 : i \in {i \in DOMAIN batch : batch[i].slot = s}}
IsEntered(k, w, batch, loc) ==
    /\ \A s \in Slots : LocsOf(w.cells, s) = LocsOf(k.cells, s) \cup EnteredAt(batch, loc, s)
    /\ \A s \in Slots : \A l \in LocsOf(k.cells, s) :
          w.cells[l] = k.cells[l] /\ w.data[l] = k.data[l]
    /\ \A i \in DOMAIN batch :
          /\ w.cells[loc + i - 1] = [pos |-> batch[i].pos, sequences |-> {batch[i].slot}]
          /\ w.data[loc + i - 1] = [token |-> batch[i].token, pos |-> batch[i].pos]

(* StartForward and Put enter the batch into a free block.                 *)
LEMMA Entered ==
  ASSUME CausalAssumption, InputCacheAssumption, NEW k, Sound(k),
         NEW batch, Fits(k, batch), NEW loc \in Locs, loc + Len(batch) <= Capacity,
         \A i \in 0..Len(batch) - 1 : IsFree(k.cells, loc + i)
  PROVE  LET w == Put(StartForward(k, loc, batch), loc, batch) IN
         Sound(w) /\ w.merged = k.merged /\ IsEntered(k, w, batch, loc)
<1>. DEFINE n == Len(batch)
            at(s) == {loc + i - 1 : i \in {i \in DOMAIN batch : batch[i].slot = s}}
            inBatch(l) == l \in loc..loc + Len(batch) - 1
            entry(l) == batch[l - loc + 1]
            cells == [l \in Locs |-> IF inBatch(l)
                         THEN [pos |-> entry(l).pos, sequences |-> {entry(l).slot}] ELSE k.cells[l]]
            ranges == [s \in Slots |-> IF at(s) = {} THEN k.ranges[s] ELSE Wider(k.ranges[s], at(s))]
            data == [l \in Locs |-> IF inBatch(l)
                         THEN [token |-> entry(l).token, pos |-> entry(l).pos] ELSE k.data[l]]
            v == StartForward(k, loc, batch)
            w == Put(v, loc, batch)
<1>1. /\ k = [cells |-> k.cells, data |-> k.data, ranges |-> k.ranges, merged |-> k.merged]
      /\ k.cells \in [Locs -> Cell] /\ k.data \in [Locs -> Datum]
      /\ k.ranges \in [Slots -> Spans] /\ k.merged \in BOOLEAN
  BY DEF Sound, Caches
<1>2. /\ w.cells = cells /\ w.data = data /\ w.ranges = ranges /\ w.merged = k.merged
      /\ w = [cells |-> w.cells, data |-> w.data, ranges |-> w.ranges, merged |-> w.merged]
  <2>1. v = [k EXCEPT !.cells = cells, !.ranges = ranges]
    BY DEF StartForward
  <2>. HIDE DEF v, cells, ranges
  <2>2. /\ v.cells = cells /\ v.data = k.data /\ v.ranges = ranges /\ v.merged = k.merged
        /\ v = [cells |-> v.cells, data |-> v.data, ranges |-> v.ranges, merged |-> v.merged]
    BY <2>1, <1>1
  <2>3. w = [v EXCEPT !.data = [l \in Locs |-> IF inBatch(l)
                  THEN [token |-> entry(l).token, pos |-> entry(l).pos] ELSE v.data[l]]]
    BY DEF Put
  <2>4. w = [v EXCEPT !.data = data]
    BY <2>2, <2>3
  <2>. HIDE DEF w, data
  <2> QED BY <2>2, <2>4
<1>3. /\ Capacity \in Nat /\ Locs = 0..Capacity - 1 /\ n \in Nat /\ DOMAIN batch = 1..n
      /\ numCtx \in Nat \ {0}
  BY Sizes DEF Fits, Locs
<1>4. \A i \in 1..n : /\ batch[i] \in Input /\ batch[i].slot \in Slots
                      /\ batch[i].pos \in 0..numCtx - 1 /\ batch[i].pos \in Int
                      /\ batch[i].token \in Tokens
  <2>1. \A i \in 1..n : batch[i] \in Input
    BY <1>3 DEF Fits
  <2>2. 0..numCtx - 1 \in SUBSET Int
    BY <1>3
  <2>. HIDE DEF numCtx
  <2> QED BY <2>1, <2>2 DEF Input
<1>. HIDE DEF n
<1>5. \A i \in 1..n : /\ loc + i - 1 \in Locs /\ inBatch(loc + i - 1)
                      /\ entry(loc + i - 1) = batch[i] /\ IsFree(k.cells, loc + i - 1)
  <2> SUFFICES ASSUME NEW i \in 1..n
               PROVE  /\ loc + i - 1 \in Locs /\ inBatch(loc + i - 1)
                      /\ entry(loc + i - 1) = batch[i] /\ IsFree(k.cells, loc + i - 1)
    OBVIOUS
  <2>1. loc \in Nat /\ loc + n <= Capacity /\ i - 1 \in 0..n - 1 /\ loc + (i - 1) = loc + i - 1
        /\ (loc + i - 1) - loc + 1 = i
    BY <1>3 DEF n
  <2>2. IsFree(k.cells, loc + (i - 1))
    BY <2>1 DEF n
  <2>3. loc + i - 1 \in Locs /\ loc + i - 1 \in loc..loc + n - 1
    BY <1>3, <2>1
  <2> QED BY <2>1, <2>2, <2>3 DEF n
<1>6. \A l \in Locs : inBatch(l) => l - loc + 1 \in 1..n /\ loc + (l - loc + 1) - 1 = l
                                    /\ entry(l) = batch[l - loc + 1] /\ IsFree(k.cells, l)
  <2> SUFFICES ASSUME NEW l \in Locs, inBatch(l)
               PROVE  /\ l - loc + 1 \in 1..n /\ loc + (l - loc + 1) - 1 = l
                      /\ entry(l) = batch[l - loc + 1] /\ IsFree(k.cells, l)
    OBVIOUS
  <2>1. loc \in Nat /\ l \in Nat /\ l \in loc..loc + n - 1
    BY <1>3 DEF n
  <2>2. l - loc + 1 \in 1..n /\ loc + (l - loc + 1) - 1 = l
    BY <2>1, <1>3
  <2> QED BY <2>2, <1>5
<1>. HIDE DEF inBatch, entry, w, v
<1>7. \A l \in Locs : /\ cells[l] \in Cell /\ data[l] \in Datum
                      /\ ~inBatch(l) => cells[l] = k.cells[l] /\ data[l] = k.data[l]
                      /\ inBatch(l) => /\ cells[l].pos = entry(l).pos
                                       /\ cells[l].sequences = {entry(l).slot}
  <2> SUFFICES ASSUME NEW l \in Locs
               PROVE  /\ cells[l] \in Cell /\ data[l] \in Datum
                      /\ ~inBatch(l) => cells[l] = k.cells[l] /\ data[l] = k.data[l]
                      /\ inBatch(l) => /\ cells[l].pos = entry(l).pos
                                       /\ cells[l].sequences = {entry(l).slot}
    OBVIOUS
  <2>1. CASE inBatch(l)
    <3>1. cells[l] = [pos |-> entry(l).pos, sequences |-> {entry(l).slot}]
          /\ data[l] = [token |-> entry(l).token, pos |-> entry(l).pos]
      BY <2>1
    <3>2. /\ entry(l).slot \in Slots /\ entry(l).pos \in 0..numCtx - 1 /\ entry(l).pos \in Int
          /\ entry(l).token \in Tokens
      BY <2>1, <1>4, <1>6
    <3>. HIDE DEF cells, data, numCtx
    <3> QED BY <2>1, <3>1, <3>2 DEF Cell, Datum
  <2>2. CASE ~inBatch(l)
    BY <2>2, <1>1
  <2> QED BY <2>1, <2>2
<1>8. \A i \in 1..n : /\ cells[loc + i - 1] = [pos |-> batch[i].pos, sequences |-> {batch[i].slot}]
                      /\ data[loc + i - 1] = [token |-> batch[i].token, pos |-> batch[i].pos]
  BY <1>5
<1>9. cells \in [Locs -> Cell] /\ data \in [Locs -> Datum]
  <2>1. cells = [l \in Locs |-> cells[l]] /\ data = [l \in Locs |-> data[l]]
    OBVIOUS
  <2>. HIDE DEF cells, data
  <2> QED BY <2>1, <1>7
<1>. HIDE DEF cells, data
<1>10. \A s \in Slots : /\ at(s) \in SUBSET Locs
                        /\ \A l \in Locs : l \in at(s) <=> inBatch(l) /\ entry(l).slot = s
  <2> SUFFICES ASSUME NEW s \in Slots
               PROVE  /\ at(s) \in SUBSET Locs
                      /\ \A l \in Locs : l \in at(s) <=> inBatch(l) /\ entry(l).slot = s
    OBVIOUS
  <2>1. at(s) \in SUBSET Locs
    BY <1>3, <1>5
  <2>2. ASSUME NEW l \in Locs, l \in at(s) PROVE inBatch(l) /\ entry(l).slot = s
    <3>1. PICK i \in 1..n : batch[i].slot = s /\ l = loc + i - 1
      BY <2>2, <1>3
    <3> QED BY <3>1, <1>5
  <2>3. ASSUME NEW l \in Locs, inBatch(l), entry(l).slot = s PROVE l \in at(s)
    <3>1. l - loc + 1 \in 1..n /\ loc + (l - loc + 1) - 1 = l /\ batch[l - loc + 1].slot = s
      BY <2>3, <1>6
    <3> QED BY <3>1, <1>3
  <2> QED BY <2>1, <2>2, <2>3
<1>. HIDE DEF at
<1>11. \A s \in Slots : LocsOf(cells, s) = LocsOf(k.cells, s) \cup at(s)
  <2> SUFFICES ASSUME NEW s \in Slots PROVE LocsOf(cells, s) = LocsOf(k.cells, s) \cup at(s)
    OBVIOUS
  <2>1. \A l \in Locs : s \in cells[l].sequences <=> s \in k.cells[l].sequences \/ l \in at(s)
    BY <1>6, <1>7, <1>10 DEF IsFree
  <2> QED BY <2>1, <1>10 DEF LocsOf
<1>12. \A s \in Slots : \A l \in LocsOf(k.cells, s) :
          l \in Locs /\ cells[l] = k.cells[l] /\ data[l] = k.data[l]
  BY <1>6, <1>7 DEF LocsOf, IsFree
<1>13. \A s \in Slots : ranges[s] \in Spans /\ Covered(ranges[s], LocsOf(cells, s))
  <2> SUFFICES ASSUME NEW s \in Slots
               PROVE  ranges[s] \in Spans /\ Covered(ranges[s], LocsOf(cells, s))
    OBVIOUS
  <2>1. k.ranges[s] \in Spans /\ Covered(k.ranges[s], LocsOf(k.cells, s))
    BY <1>1 DEF Sound
  <2>2. CASE at(s) = {}
    <3>1. ranges[s] = k.ranges[s] /\ LocsOf(cells, s) = LocsOf(k.cells, s)
      BY <2>2, <1>11
    <3> QED BY <2>1, <3>1
  <2>3. CASE at(s) # {}
    <3>. DEFINE ends == IF k.ranges[s].min = MaxInt THEN {} ELSE {k.ranges[s].min, k.ranges[s].max}
                L == at(s) \cup ends
    <3>1. ranges[s] = Covering(L)
      BY <2>3 DEF Wider
    <3>2. ends \in SUBSET Locs
      BY <2>1 DEF Covered
    <3>3. L \in SUBSET Locs /\ L # {}
      BY <2>3, <3>2, <1>10
    <3>4. /\ Covering(L) \in Spans
          /\ \A l \in L : Covering(L).min <= l /\ l <= Covering(L).max
          /\ Covering(L).min \in Locs /\ Covering(L).max \in Locs
      <4>. HIDE DEF L
      <4> QED BY <3>3, CoversIt DEF Covered
    <3>5. ASSUME NEW l \in LocsOf(k.cells, s)
          PROVE  Covering(L).min <= l /\ l <= Covering(L).max
      <4>1. l \in Locs /\ k.ranges[s].min <= l /\ l <= k.ranges[s].max
        BY <2>1 DEF Covered, LocsOf
      <4>2. k.ranges[s].min # MaxInt
        <5>1. MaxInt \in Nat /\ Capacity <= MaxInt
          BY Sizes
        <5> QED BY <4>1, <5>1, <1>3
      <4>3. k.ranges[s].min \in L /\ k.ranges[s].max \in L
        BY <4>2
      <4>4. /\ Covering(L).min <= k.ranges[s].min /\ k.ranges[s].max <= Covering(L).max
            /\ k.ranges[s].min \in Locs /\ k.ranges[s].max \in Locs
        BY <4>3, <3>3, <3>4
      <4>5. /\ Covering(L).min \in Nat /\ Covering(L).max \in Nat /\ l \in Nat
            /\ k.ranges[s].min \in Nat /\ k.ranges[s].max \in Nat
        <5>. HIDE DEF L
        <5> QED BY <4>1, <4>4, <3>4, <1>3
      <4>. HIDE DEF L
      <4> QED BY ONLY <4>1, <4>4, <4>5
    <3>6. \A l \in LocsOf(cells, s) : Covering(L).min <= l /\ l <= Covering(L).max
      BY <3>4, <3>5, <1>11
    <3> QED BY <3>1, <3>4, <3>6 DEF Covered
  <2> QED BY <2>2, <2>3
<1>14. w \in Caches
  <2>1. ranges \in [Slots -> Spans]
    BY <1>13
  <2>. HIDE DEF ranges
  <2> QED BY <2>1, <1>1, <1>2, <1>9 DEF Caches
<1>15. Filled(w)
  <2>1. ASSUME NEW l \in Locs, IsFree(cells, l)
        PROVE  cells[l] = FreeCell /\ data[l] = FreeData
    <3>1. ~inBatch(l)
      BY <2>1, <1>7 DEF IsFree
    <3>2. cells[l] = k.cells[l] /\ data[l] = k.data[l]
      BY <3>1, <1>7
    <3>3. IsFree(k.cells, l)
      BY <2>1, <3>2 DEF IsFree
    <3> QED BY <3>2, <3>3 DEF Sound, Filled
  <2> QED BY <2>1, <1>2 DEF Filled
<1>16. Distinct(w)
  <2> SUFFICES ASSUME NEW s \in Slots, NEW l \in LocsOf(cells, s), NEW m \in LocsOf(cells, s),
                      cells[l].pos = cells[m].pos
               PROVE  l = m
    BY <1>2 DEF Distinct
  <2>1. \A x \in at(s) : /\ x \in Locs /\ x - loc + 1 \in 1..n /\ loc + (x - loc + 1) - 1 = x
                         /\ cells[x].pos = batch[x - loc + 1].pos /\ batch[x - loc + 1].slot = s
    BY <1>6, <1>7, <1>10
  <2>2. \A x \in LocsOf(k.cells, s) : cells[x].pos = k.cells[x].pos /\ k.cells[x].pos \in Int
    <3>1. \A x \in Locs : k.cells[x].pos \in 0..numCtx - 1
      <4>. HIDE DEF numCtx
      <4> QED BY <1>1 DEF Cell
    <3>2. \A x \in Locs : k.cells[x].pos \in Int
      BY <3>1, <1>3
    <3> QED BY <3>2, <1>12
  <2>3. \A x \in LocsOf(k.cells, s), y \in at(s) : cells[x].pos # cells[y].pos
    <3> SUFFICES ASSUME NEW x \in LocsOf(k.cells, s), NEW y \in at(s), cells[x].pos = cells[y].pos
                 PROVE  FALSE
      OBVIOUS
    <3>4. PICK i \in 1..n : i = y - loc + 1
      BY <2>1
    <3>5. \A j \in 1..n : EndsAt(k, batch[j].slot, batch[j].pos)
      BY <1>3 DEF Fits
    <3>1. EndsAt(k, s, batch[y - loc + 1].pos)
      BY <2>1, <3>4, <3>5
    <3>2. k.cells[x].pos < cells[y].pos
      BY <3>1, <2>1 DEF EndsAt
    <3>3. k.cells[x].pos \in Int /\ cells[y].pos = k.cells[x].pos
      BY <2>2
    <3> QED BY ONLY <3>2, <3>3
  <2>4. (l \in LocsOf(k.cells, s) \/ l \in at(s)) /\ (m \in LocsOf(k.cells, s) \/ m \in at(s))
    BY <1>11
  <2>5. CASE l \in LocsOf(k.cells, s) /\ m \in LocsOf(k.cells, s)
    BY <2>2, <2>5 DEF Sound, Distinct
  <2>6. CASE l \in at(s) /\ m \in at(s)
    <3>3. PICK i \in 1..n : i = l - loc + 1
      BY <2>1, <2>6
    <3>4. PICK j \in 1..n : j = m - loc + 1
      BY <2>1, <2>6
    <3>5. batch[i].slot = batch[j].slot /\ batch[i].pos = batch[j].pos
      BY <2>1, <2>6, <3>3, <3>4
    <3>6. i = j
      BY <3>5, <1>3 DEF Fits
    <3>1. l - loc + 1 = m - loc + 1
      BY <3>3, <3>4, <3>6
    <3>2. l \in Int /\ m \in Int /\ loc \in Int
      BY <2>1, <2>6, <1>3
    <3> QED BY ONLY <3>1, <3>2
  <2> QED BY <2>3, <2>4, <2>5, <2>6
<1>17. Sound(w)
  <2>1. \A s \in Slots : Covered(w.ranges[s], LocsOf(w.cells, s))
    BY <1>2, <1>13
  <2> QED BY <2>1, <1>14, <1>15, <1>16 DEF Sound
<1>. HIDE DEF ranges
<1>18. \A s \in Slots : LocsOf(w.cells, s) = LocsOf(k.cells, s) \cup at(s)
  BY <1>2, <1>11
<1>19. \A s \in Slots : \A l \in LocsOf(k.cells, s) :
          w.cells[l] = k.cells[l] /\ w.data[l] = k.data[l]
  BY <1>2, <1>12
<1>20. \A i \in DOMAIN batch :
          /\ w.cells[loc + i - 1] = [pos |-> batch[i].pos, sequences |-> {batch[i].slot}]
          /\ w.data[loc + i - 1] = [token |-> batch[i].token, pos |-> batch[i].pos]
  BY <1>2, <1>3, <1>8
<1>21. w.merged = k.merged
  BY <1>2
<1>22. \A s : at(s) = EnteredAt(batch, loc, s)
  BY DEF at, EnteredAt
<1>23. IsEntered(k, w, batch, loc)
  BY <1>18, <1>19, <1>20, <1>22 DEF IsEntered
<1> QED BY <1>17, <1>21, <1>23 DEF w, v

-----------------------------------------------------------------------------
(* The batch continues what is held of sequence s, h, to g.                *)
Continues(batch, s, h, g) ==
    /\ h \in Seq(Tokens) /\ g \in Seq(Tokens) /\ Len(h) <= Len(g)
    /\ \A p \in 1..Len(h) : g[p] = h[p]
    /\ \A i \in DOMAIN batch : batch[i].slot = s =>
          batch[i].pos \in Len(h)..Len(g) - 1 /\ batch[i].token = g[batch[i].pos + 1]
    /\ \A p \in Len(h)..Len(g) - 1 : \E i \in DOMAIN batch : batch[i].slot = s /\ batch[i].pos = p

(* A slot with its part of the batch holds what it held and that part.     *)
LEMMA Grown ==
  ASSUME CausalAssumption, InputCacheAssumption, NEW k, Sound(k),
         NEW batch, Fits(k, batch), NEW loc \in Locs, loc + Len(batch) <= Capacity,
         \A i \in 0..Len(batch) - 1 : IsFree(k.cells, loc + i),
         NEW s \in Slots, NEW h, NEW g, Continues(batch, s, h, g), Holds(k, s, h)
  PROVE  LET w == Put(StartForward(k, loc, batch), loc, batch) IN
         /\ Holds(w, s, g)
         /\ Follows(k, s, h) => Follows(w, s, g)
         /\ EndsAt(k, s, Len(h)) => EndsAt(w, s, Len(g))
<1>. DEFINE w == Put(StartForward(k, loc, batch), loc, batch)
            at == {loc + i - 1 : i \in {i \in DOMAIN batch : batch[i].slot = s}}
<1>1. /\ LocsOf(w.cells, s) = LocsOf(k.cells, s) \cup at
      /\ \A l \in LocsOf(k.cells, s) : w.cells[l] = k.cells[l] /\ w.data[l] = k.data[l]
      /\ \A i \in DOMAIN batch :
            /\ w.cells[loc + i - 1] = [pos |-> batch[i].pos, sequences |-> {batch[i].slot}]
            /\ w.data[loc + i - 1] = [token |-> batch[i].token, pos |-> batch[i].pos]
  <2>1. IsEntered(k, w, batch, loc)
    BY Entered
  <2>2. at = EnteredAt(batch, loc, s)
    BY DEF EnteredAt
  <2>. HIDE DEF w, at
  <2> QED BY <2>1, <2>2 DEF IsEntered
<1>. HIDE DEF w
<1>13. \A i \in DOMAIN batch :
          /\ w.cells[loc + i - 1].pos = batch[i].pos
          /\ w.data[loc + i - 1] = [token |-> batch[i].token, pos |-> batch[i].pos]
  <2> SUFFICES ASSUME NEW i \in DOMAIN batch
               PROVE  /\ w.cells[loc + i - 1].pos = batch[i].pos
                      /\ w.data[loc + i - 1] = [token |-> batch[i].token, pos |-> batch[i].pos]
    OBVIOUS
  <2>1. w.cells[loc + i - 1] = [pos |-> batch[i].pos, sequences |-> {batch[i].slot}]
    BY <1>1
  <2>2. w.data[loc + i - 1] = [token |-> batch[i].token, pos |-> batch[i].pos]
    BY <1>1
  <2> QED BY <2>1, <2>2
<1>2. \A i \in DOMAIN batch : batch[i].slot = s => loc + i - 1 \in LocsOf(w.cells, s)
  BY <1>1
<1>3. Len(h) \in Nat /\ Len(g) \in Nat /\ Len(h) <= Len(g)
  BY DEF Continues
<1>4. \A l \in LocsOf(k.cells, s) : k.cells[l].pos \in Nat
  <2>1. 0..numCtx - 1 \in SUBSET Nat
    BY Sizes
  <2>. HIDE DEF numCtx
  <2> QED BY <2>1 DEF Sound, Caches, Cell, LocsOf
<1>5. ASSUME NEW p \in 0..Len(g) - 1 PROVE \E l \in LocsOf(w.cells, s) : w.cells[l].pos = p
  <2>1. CASE p < Len(h)
    <3>1. p \in 0..Len(h) - 1
      BY <2>1, <1>3
    <3>2. PICK l \in LocsOf(k.cells, s) : k.cells[l].pos = p
      BY <3>1 DEF Holds
    <3> QED BY <3>2, <1>1
  <2>2. CASE ~(p < Len(h))
    <3>1. p \in Len(h)..Len(g) - 1
      BY <2>2, <1>3
    <3>2. PICK i \in DOMAIN batch : batch[i].slot = s /\ batch[i].pos = p
      BY <3>1 DEF Continues
    <3>3. w.cells[loc + i - 1].pos = p
      BY <3>2, <1>13
    <3> QED BY <3>2, <3>3, <1>2
  <2> QED BY <2>1, <2>2
<1>6. ASSUME NEW l \in LocsOf(w.cells, s)
      PROVE  \/ l \in LocsOf(k.cells, s) /\ w.cells[l] = k.cells[l] /\ w.data[l] = k.data[l]
             \/ \E i \in DOMAIN batch : /\ batch[i].slot = s /\ w.cells[l].pos = batch[i].pos
                                        /\ w.data[l] = [token |-> batch[i].token, pos |-> batch[i].pos]
  <2>1. CASE l \in LocsOf(k.cells, s)
    BY <2>1, <1>1
  <2>2. CASE l \in at
    <3>1. PICK i \in DOMAIN batch : batch[i].slot = s /\ l = loc + i - 1
      BY <2>2
    <3>2. w.cells[l].pos = batch[i].pos /\ w.data[l] = [token |-> batch[i].token, pos |-> batch[i].pos]
      BY <3>1, <1>13
    <3> QED BY <3>1, <3>2
  <2> QED BY <2>1, <2>2, <1>1
(* A cell of the sequence that is not in the batch lies before it.         *)
<1>7. ASSUME NEW l \in LocsOf(k.cells, s), k.cells[l].pos < Len(g) PROVE k.cells[l].pos < Len(h)
  <2>1. CASE Len(h) = Len(g)
    BY <1>7, <2>1
  <2>2. CASE Len(h) # Len(g)
    <3>1. Len(h) \in Len(h)..Len(g) - 1
      BY <2>2, <1>3
    <3>2. PICK i \in DOMAIN batch : batch[i].slot = s /\ batch[i].pos = Len(h)
      BY <3>1 DEF Continues
    <3>3. EndsAt(k, s, Len(h))
      BY <3>2 DEF Fits
    <3> QED BY <3>3 DEF EndsAt
  <2> QED BY <2>1, <2>2
<1>8. ASSUME Follows(k, s, h), NEW l \in LocsOf(w.cells, s), w.cells[l].pos < Len(g)
      PROVE  w.data[l] = [token |-> g[w.cells[l].pos + 1], pos |-> w.cells[l].pos]
  <2>1. CASE l \in LocsOf(k.cells, s) /\ w.cells[l] = k.cells[l] /\ w.data[l] = k.data[l]
    <3>1. k.cells[l].pos < Len(h)
      BY <2>1, <1>7, <1>8
    <3>2. k.data[l] = [token |-> h[k.cells[l].pos + 1], pos |-> k.cells[l].pos]
      BY <2>1, <3>1, <1>8 DEF Follows
    <3>3. k.cells[l].pos + 1 \in 1..Len(h)
      BY <2>1, <3>1, <1>3, <1>4
    <3>4. g[k.cells[l].pos + 1] = h[k.cells[l].pos + 1]
      BY <3>3 DEF Continues
    <3> QED BY <2>1, <3>2, <3>4
  <2>2. CASE \E i \in DOMAIN batch : /\ batch[i].slot = s /\ w.cells[l].pos = batch[i].pos
                                     /\ w.data[l] = [token |-> batch[i].token, pos |-> batch[i].pos]
    BY <2>2 DEF Continues
  <2> QED BY <2>1, <2>2, <1>6, <1>8
<1>9. ASSUME EndsAt(k, s, Len(h)), NEW l \in LocsOf(w.cells, s) PROVE w.cells[l].pos < Len(g)
  <2>1. CASE l \in LocsOf(k.cells, s) /\ w.cells[l] = k.cells[l]
    <3>1. k.cells[l].pos < Len(h) /\ k.cells[l].pos \in Nat
      BY <2>1, <1>4, <1>9 DEF EndsAt
    <3> QED BY <2>1, <3>1, <1>3
  <2>2. CASE \E i \in DOMAIN batch : batch[i].slot = s /\ w.cells[l].pos = batch[i].pos
    <3>1. w.cells[l].pos \in Len(h)..Len(g) - 1
      BY <2>2 DEF Continues
    <3> QED BY <3>1, <1>3
  <2> QED BY <2>1, <2>2, <1>6, <1>9
<1>10. Holds(w, s, g)
  BY <1>5 DEF Holds
<1>11. Follows(k, s, h) => Follows(w, s, g)
  BY <1>8 DEF Follows
<1>12. EndsAt(k, s, Len(h)) => EndsAt(w, s, Len(g))
  BY <1>9 DEF EndsAt
<1> QED BY <1>10, <1>11, <1>12 DEF w

(* No two entries of a batch are for one position of one sequence.         *)
Once(batch) ==
    \A i, j \in DOMAIN batch :
        batch[i].slot = batch[j].slot /\ batch[i].pos = batch[j].pos => i = j

(* The part of a batch that stands for the first n of the inputs q, which  *)
(* come after what slot s holds.                                           *)
Part(s, from, q, n) == [j \in 1..n |-> [slot |-> s, pos |-> from + j - 1, token |-> q[j]]]

(* c is a followed by b.                                                   *)
IsJoined(S, a, b, c) ==
    /\ c \in Seq(S) /\ Len(c) = Len(a) + Len(b) /\ Len(a) \in Nat /\ Len(b) \in Nat
    /\ DOMAIN a = 1..Len(a) /\ DOMAIN c = 1..Len(c)
    /\ \A i \in 1..Len(a) : i \in 1..Len(c) /\ c[i] = a[i]
    /\ \A j \in 1..Len(b) : Len(a) + j \in 1..Len(c) /\ c[Len(a) + j] = b[j]
    /\ \A i \in 1..Len(c) : i \in 1..Len(a) \/ \E j \in 1..Len(b) : i = Len(a) + j

(* One sequence after another;                                             *)
LEMMA Joined ==
  ASSUME NEW S, NEW a \in Seq(S), NEW b \in Seq(S)
  PROVE  IsJoined(S, a, b, a \o b)
<1>1. a \o b \in Seq(S) /\ Len(a \o b) = Len(a) + Len(b) /\ Len(a) \in Nat /\ Len(b) \in Nat
  OBVIOUS
<1>2. \A i \in 1..Len(a) : i \in 1..Len(a \o b) /\ (a \o b)[i] = a[i]
  OBVIOUS
<1>3. \A j \in 1..Len(b) : Len(a) + j \in 1..Len(a \o b) /\ (a \o b)[Len(a) + j] = b[j]
  OBVIOUS
<1>4. ASSUME NEW i \in 1..Len(a \o b), i \notin 1..Len(a)
      PROVE  \E j \in 1..Len(b) : i = Len(a) + j
  <2>1. i - Len(a) \in 1..Len(b) /\ i = Len(a) + (i - Len(a))
    BY <1>1, <1>4
  <2> QED BY <2>1
<1>5. DOMAIN a = 1..Len(a) /\ DOMAIN (a \o b) = 1..Len(a \o b)
  OBVIOUS
<1> QED BY <1>1, <1>2, <1>3, <1>4, <1>5 DEF IsJoined

(* the beginning of one.                                                   *)
LEMMA Prefix ==
  ASSUME NEW S, NEW q \in Seq(S), NEW n \in 0..Len(q)
  PROVE  /\ SubSeq(q, 1, n) \in Seq(S) /\ Len(SubSeq(q, 1, n)) = n
         /\ \A i \in 1..n : i \in 1..Len(q) /\ SubSeq(q, 1, n)[i] = q[i]
         /\ SubSeq(q, n + 1, Len(q)) \in Seq(S) /\ Len(SubSeq(q, n + 1, Len(q))) = Len(q) - n
         /\ \A i \in 1..Len(q) - n : /\ n + i \in 1..Len(q)
                                     /\ SubSeq(q, n + 1, Len(q))[i] = q[n + i]
<1>1. Len(q) \in Nat /\ n \in Nat /\ n <= Len(q) /\ \A i \in 1..Len(q) : q[i] \in S
  OBVIOUS
<1>2. /\ SubSeq(q, 1, n) \in Seq(S) /\ Len(SubSeq(q, 1, n)) = n
      /\ \A i \in 1..n : i \in 1..Len(q) /\ SubSeq(q, 1, n)[i] = q[i]
  BY <1>1
<1>3. /\ SubSeq(q, n + 1, Len(q)) \in Seq(S) /\ Len(SubSeq(q, n + 1, Len(q))) = Len(q) - n
  BY <1>1
<1>4. \A i \in 1..Len(q) - n : n + i \in 1..Len(q) /\ SubSeq(q, n + 1, Len(q))[i] = q[n + i]
  BY <1>1
<1> QED BY <1>2, <1>3, <1>4

(* Slot s, which held the inputs held, goes on to all with the n entries   *)
(* new has more than batch.                                                *)
IsExtended(batch, new, s, held, all, n) ==
    /\ Len(all) = Len(held) + n /\ (n # 0 \/ batch # <<>> => new # <<>>)
    /\ new \in Seq(Input) /\ Once(new) /\ all \in Seq(Tokens)
    /\ Continues(new, s, held, all)
    /\ \A t, h, g : t # s /\ Continues(batch, t, h, g) => Continues(new, t, h, g)
    /\ \A i \in DOMAIN new :
          new[i].slot = s \/ \E j \in DOMAIN batch : batch[j].slot = new[i].slot

(* What a sequence adds to a batch that has nothing of it.                 *)
LEMMA Extended ==
  ASSUME InputCacheAssumption, CausalAssumption,
         NEW batch \in Seq(Input), Once(batch), NEW s \in Slots,
         NEW held \in Seq(Tokens), NEW q \in Seq(Tokens), NEW n \in 0..Len(q),
         Len(held) + n <= numCtx,
         \A i \in DOMAIN batch : batch[i].slot # s
  PROVE  LET new == batch \o Part(s, Len(held), q, n)
             all == held \o SubSeq(q, 1, n)
         IN IsExtended(batch, new, s, held, all, n)
<1>. DEFINE part == Part(s, Len(held), q, n)
            new == batch \o part
            all == held \o SubSeq(q, 1, n)
<1>1. /\ n \in Nat /\ Len(q) \in Nat /\ n <= Len(q) /\ Len(held) \in Nat /\ numCtx \in Nat
      /\ \A i \in 1..n : i \in 1..Len(q) /\ q[i] \in Tokens
  BY Sizes
<1>2. part \in Seq(Input) /\ Len(part) = n
  <2>1. ASSUME NEW j \in 1..n
        PROVE  [slot |-> s, pos |-> Len(held) + j - 1, token |-> q[j]] \in Input
    <3>1. Len(held) + j - 1 \in 0..numCtx - 1 /\ q[j] \in Tokens
      BY <1>1
    <3>. HIDE DEF numCtx
    <3> QED BY <3>1 DEF Input
  <2>2. part \in [1..n -> Input]
    BY <2>1 DEF Part
  <2>. HIDE DEF part
  <2> QED BY <2>2, <1>1
<1>3. \A j \in 1..n : /\ part[j].slot = s /\ part[j].pos = Len(held) + j - 1
                      /\ part[j].token = q[j]
  BY DEF Part
<1>. HIDE DEF part
<1>4. /\ new \in Seq(Input) /\ Len(new) = Len(batch) + n /\ Len(batch) \in Nat
      /\ DOMAIN new = 1..Len(new) /\ DOMAIN batch = 1..Len(batch)
      /\ \A i \in 1..Len(batch) : i \in 1..Len(new) /\ new[i] = batch[i]
      /\ \A j \in 1..n : Len(batch) + j \in 1..Len(new) /\ new[Len(batch) + j] = part[j]
      /\ \A i \in 1..Len(new) : i \in 1..Len(batch) \/ \E j \in 1..n : i = Len(batch) + j
  <2>1. IsJoined(Input, batch, part, new)
    BY <1>2, Joined
  <2>. HIDE DEF new
  <2> QED BY <2>1, <1>2 DEF IsJoined
<1>5. /\ all \in Seq(Tokens) /\ Len(all) = Len(held) + n
      /\ \A i \in 1..Len(held) : all[i] = held[i]
      /\ \A j \in 1..n : all[Len(held) + j] = q[j]
  <2>. DEFINE tail == SubSeq(q, 1, n)
  <2>1. tail \in Seq(Tokens) /\ Len(tail) = n /\ \A i \in 1..n : tail[i] = q[i]
    BY Prefix
  <2>. HIDE DEF tail
  <2>2. IsJoined(Tokens, held, tail, all)
    BY <2>1, Joined DEF tail
  <2>. HIDE DEF all
  <2> QED BY <2>1, <2>2 DEF IsJoined
<1>. HIDE DEF new, all
<1>6. ASSUME NEW i \in 1..Len(new)
      PROVE  \/ i \in 1..Len(batch) /\ new[i] = batch[i] /\ new[i].slot # s
             \/ \E j \in 1..n : /\ i = Len(batch) + j /\ new[i].slot = s
                                /\ new[i].pos = Len(held) + j - 1 /\ new[i].token = q[j]
  <2>1. CASE i \in 1..Len(batch)
    BY <2>1, <1>4
  <2>2. CASE \E j \in 1..n : i = Len(batch) + j
    <3>1. PICK j \in 1..n : i = Len(batch) + j
      BY <2>2
    <3>2. new[i] = part[j]
      BY <3>1, <1>4
    <3> QED BY <3>1, <3>2, <1>3
  <2> QED BY <2>1, <2>2, <1>4
<1>7. Once(new)
  <2> SUFFICES ASSUME NEW i \in 1..Len(new), NEW j \in 1..Len(new),
                      new[i].slot = new[j].slot, new[i].pos = new[j].pos
               PROVE  i = j
    BY <1>4 DEF Once
  <2>1. CASE new[i].slot = s
    <3>1. PICK x \in 1..n : i = Len(batch) + x /\ new[i].pos = Len(held) + x - 1
      BY <2>1, <1>6
    <3>2. PICK y \in 1..n : j = Len(batch) + y /\ new[j].pos = Len(held) + y - 1
      BY <2>1, <1>6
    <3>3. Len(held) + x - 1 = Len(held) + y - 1
      BY <3>1, <3>2
    <3>4. x \in Int /\ y \in Int /\ Len(held) \in Int
      BY <1>1
    <3>5. x = y
      BY ONLY <3>3, <3>4
    <3> QED BY <3>1, <3>2, <3>5
  <2>2. CASE new[i].slot # s
    <3>1. /\ i \in 1..Len(batch) /\ new[i] = batch[i]
          /\ j \in 1..Len(batch) /\ new[j] = batch[j]
      BY <2>2, <1>6
    <3>2. batch[i].slot = batch[j].slot /\ batch[i].pos = batch[j].pos
      BY <3>1
    <3> QED BY <3>1, <3>2, <1>4 DEF Once
  <2> QED BY <2>1, <2>2
<1>8. Continues(new, s, held, all)
  <2>1. Len(held) <= Len(all) /\ \A p \in 1..Len(held) : all[p] = held[p]
    BY <1>1, <1>5
  <2>2. ASSUME NEW i \in 1..Len(new), new[i].slot = s
        PROVE  new[i].pos \in Len(held)..Len(all) - 1 /\ new[i].token = all[new[i].pos + 1]
    <3>1. PICK j \in 1..n : new[i].pos = Len(held) + j - 1 /\ new[i].token = q[j]
      BY <2>2, <1>6
    <3>2. /\ Len(held) + j - 1 \in Len(held)..Len(held) + n - 1
          /\ Len(held) + j - 1 + 1 = Len(held) + j
      <4>1. Len(held) \in Nat /\ n \in Nat /\ j \in Nat /\ 1 <= j /\ j <= n
        BY <1>1
      <4> QED BY ONLY <4>1
    <3> QED BY <3>1, <3>2, <1>5
  <2>3. ASSUME NEW p \in Len(held)..Len(all) - 1
        PROVE  \E i \in 1..Len(new) : new[i].slot = s /\ new[i].pos = p
    <3>1. /\ p - Len(held) + 1 \in 1..n
          /\ Len(held) + (p - Len(held) + 1) - 1 = p
      BY <1>1, <1>5
    <3>2. PICK j \in 1..n : j = p - Len(held) + 1
      BY <3>1
    <3>3. Len(held) + j - 1 = p
      BY <3>1, <3>2
    <3>4. Len(batch) + j \in 1..Len(new) /\ new[Len(batch) + j] = part[j]
      BY <1>4
    <3>5. part[j].slot = s /\ part[j].pos = p
      BY <1>3, <3>3
    <3> QED BY <3>4, <3>5
  <2> QED BY <2>1, <2>2, <2>3, <1>4, <1>5 DEF Continues
<1>9. ASSUME NEW t, NEW h, NEW g, t # s, Continues(batch, t, h, g)
      PROVE  Continues(new, t, h, g)
  <2>1. ASSUME NEW i \in 1..Len(new), new[i].slot = t
        PROVE  i \in 1..Len(batch) /\ new[i] = batch[i]
    BY <2>1, <1>6, <1>9
  <2>2. \A i \in DOMAIN new : new[i].slot = t =>
            new[i].pos \in Len(h)..Len(g) - 1 /\ new[i].token = g[new[i].pos + 1]
    <3> SUFFICES ASSUME NEW i \in DOMAIN new, new[i].slot = t
                 PROVE  new[i].pos \in Len(h)..Len(g) - 1 /\ new[i].token = g[new[i].pos + 1]
      OBVIOUS
    <3>1. i \in DOMAIN batch /\ new[i] = batch[i]
      BY <2>1, <1>4
    <3>2. batch[i].slot = t
      BY <3>1
    <3>3. batch[i].pos \in Len(h)..Len(g) - 1 /\ batch[i].token = g[batch[i].pos + 1]
      BY <3>1, <3>2, <1>9 DEF Continues
    <3> QED BY <3>1, <3>3
  <2>3. \A p \in Len(h)..Len(g) - 1 : \E i \in DOMAIN new : new[i].slot = t /\ new[i].pos = p
    <3> SUFFICES ASSUME NEW p \in Len(h)..Len(g) - 1
                 PROVE  \E i \in DOMAIN new : new[i].slot = t /\ new[i].pos = p
      OBVIOUS
    <3>1. PICK i \in DOMAIN batch : batch[i].slot = t /\ batch[i].pos = p
      BY <1>9 DEF Continues
    <3>2. i \in DOMAIN new /\ new[i] = batch[i]
      BY <1>4
    <3> QED BY <3>1, <3>2
  <2> QED BY <2>2, <2>3, <1>9 DEF Continues
<1>10. ASSUME NEW i \in DOMAIN new, new[i].slot # s
       PROVE  \E j \in DOMAIN batch : batch[j].slot = new[i].slot
  BY <1>4, <1>6, <1>10
<1>11. ASSUME n # 0 \/ batch # <<>> PROVE new # <<>>
  <2>1. Len(new) # 0
    <3>1. batch # <<>> => Len(batch) # 0
      OBVIOUS
    <3> QED BY <1>1, <1>4, <1>11, <3>1
  <2> QED BY <2>1, <1>4
<1>12. IsExtended(batch, new, s, held, all, n)
  BY <1>4, <1>5, <1>7, <1>8, <1>9, <1>10, <1>11 DEF IsExtended
<1> QED BY <1>12 DEF new, all, part

(* Slot s holds left in the cache r, as it held g in k: d inputs less.     *)
IsShifted(k, r, s, g, left, d) ==
    /\ left \in Seq(Tokens) /\ Len(left) = Len(g) - d
    /\ Sound(r) /\ r.merged = k.merged
    /\ \A t \in Slots \ {s} : SameFor(k, r, t)
    /\ Holds(k, s, g) => Holds(r, s, left)
    /\ Follows(k, s, g) => Follows(r, s, left)
    /\ EndsAt(k, s, Len(g)) => EndsAt(r, s, Len(left))

(* A slot whose inputs from b to e are removed holds what is left of them. *)
LEMMA Shifted ==
  ASSUME CausalAssumption, InputCacheAssumption,
         NEW k, Sound(k), NEW s \in Slots, NEW b \in Nat, NEW d \in Nat, NEW e \in Nat, e = b + d,
         NEW g \in Seq(Tokens), e <= Len(g), ~RemoveFails(k, s, e)
  PROVE  IsShifted(k, RemoveTokens(k, s, b, e), s, g, Discarded(g, b, d), d)
<1>. DEFINE moved(l) == k.cells[l].pos >= e
            r == RemoveTokens(k, s, b, e)
            left == Discarded(g, b, d)
<1>1. /\ Sound(r) /\ r.merged = k.merged
      /\ \A t \in Slots \ {s} : SameFor(k, r, t)
      /\ LocsOf(r.cells, s) = {l \in LocsOf(k.cells, s) : k.cells[l].pos < b \/ moved(l)}
      /\ \A l \in LocsOf(r.cells, s) :
            /\ r.cells[l].pos = IF moved(l) THEN k.cells[l].pos - (e - b) ELSE k.cells[l].pos
            /\ r.data[l] = IF moved(l)
                           THEN [token |-> k.data[l].token, pos |-> k.data[l].pos - (e - b)]
                           ELSE k.data[l]
  <2>1. e \in Nat /\ b <= e /\ ~RemoveFails(k, s, e)
    OBVIOUS
  <2>2. IsRemoved(k, r, s, b, e)
    BY <2>1, Removed
  <2>. HIDE DEF r
  <2> QED BY <2>2 DEF IsRemoved
<1>. HIDE DEF r
<1>2. /\ Len(g) \in Nat /\ e - b = d /\ b <= e /\ e <= Len(g)
      /\ e \in 0..Len(g) /\ b \in 0..Len(g) /\ e \in Nat /\ e = b + d
  OBVIOUS
<1>3. /\ left \in Seq(Tokens) /\ Len(left) = Len(g) - d
      /\ \A p \in 0..Len(left) - 1 : p < b => left[p + 1] = g[p + 1]
      /\ \A p \in 0..Len(left) - 1 : p >= b => left[p + 1] = g[p + d + 1]
  <2>. DEFINE x == SubSeq(g, 1, b)
              y == SubSeq(g, e + 1, Len(g))
  <2>1. x \in Seq(Tokens) /\ Len(x) = b /\ \A i \in 1..b : x[i] = g[i]
    BY <1>2, Prefix
  <2>2. y \in Seq(Tokens) /\ Len(y) = Len(g) - e /\ \A i \in 1..Len(g) - e : y[i] = g[e + i]
    BY <1>2, Prefix
  <2>3. left = x \o y
    BY DEF Discarded
  <2>. HIDE DEF x, y, left
  <2>4. /\ left \in Seq(Tokens) /\ Len(left) = Len(g) - d
        /\ \A i \in 1..b : left[i] = x[i]
        /\ \A j \in 1..Len(g) - e : left[b + j] = y[j]
    <3>1. IsJoined(Tokens, x, y, left)
      BY <2>1, <2>2, <2>3, Joined
    <3>2. b + (Len(g) - e) = Len(g) - d
      BY <1>2
    <3> QED BY <2>1, <2>2, <3>1, <3>2 DEF IsJoined
  <2>5. ASSUME NEW p \in 0..Len(left) - 1, p < b PROVE left[p + 1] = g[p + 1]
    <3>1. p + 1 \in 1..b
      BY <1>2, <2>5
    <3> QED BY <3>1, <2>1, <2>4
  <2>6. ASSUME NEW p \in 0..Len(left) - 1, p >= b PROVE left[p + 1] = g[p + d + 1]
    <3>1. p + 1 - b \in 1..Len(g) - e /\ b + (p + 1 - b) = p + 1 /\ e + (p + 1 - b) = p + d + 1
      <4>1. p \in 0..(Len(g) - d) - 1
        BY <2>4
      <4>2. Len(g) \in Nat /\ b \in Nat /\ d \in Nat /\ e = b + d
        BY <1>2
      <4> QED BY ONLY <4>1, <4>2, <2>6
    <3>2. PICK j \in 1..Len(g) - e : j = p + 1 - b
      BY <3>1
    <3>3. left[b + j] = y[j] /\ y[j] = g[e + j] /\ b + j = p + 1 /\ e + j = p + d + 1
      BY <2>2, <2>4, <3>1, <3>2
    <3> QED BY <3>3
  <2> QED BY <2>4, <2>5, <2>6
<1>. HIDE DEF left
<1>4. \A l \in LocsOf(k.cells, s) : k.cells[l].pos \in Nat
  <2>1. 0..numCtx - 1 \in SUBSET Nat
    BY Sizes
  <2>. HIDE DEF numCtx
  <2> QED BY <2>1 DEF Sound, Caches, Cell, LocsOf
<1>5. ASSUME NEW l \in LocsOf(r.cells, s)
      PROVE  /\ l \in LocsOf(k.cells, s)
             /\ \/ /\ k.cells[l].pos < b /\ ~moved(l)
                   /\ r.cells[l].pos = k.cells[l].pos /\ r.data[l] = k.data[l]
                \/ /\ k.cells[l].pos >= e /\ r.cells[l].pos = k.cells[l].pos - d
                   /\ r.data[l] = [token |-> k.data[l].token, pos |-> k.data[l].pos - d]
  <2>1. l \in LocsOf(k.cells, s) /\ (k.cells[l].pos < b \/ moved(l))
    BY <1>1
  <2>2. k.cells[l].pos < b => ~moved(l)
    BY <1>2, <1>4, <2>1
  <2> QED BY <2>1, <2>2, <1>1, <1>2
<1>6. ASSUME Holds(k, s, g), NEW p \in 0..Len(left) - 1 PROVE \E l \in LocsOf(r.cells, s) : r.cells[l].pos = p
  <2>1. CASE p < b
    <3>1. p \in 0..Len(g) - 1
      BY <1>2, <1>3
    <3>2. PICK l \in LocsOf(k.cells, s) : k.cells[l].pos = p
      BY <1>6, <3>1 DEF Holds
    <3>3. l \in LocsOf(r.cells, s) /\ ~moved(l)
      BY <1>1, <1>2, <2>1, <3>2
    <3> QED BY <3>2, <3>3, <1>1
  <2>2. CASE ~(p < b)
    <3>1. p + d \in 0..Len(g) - 1 /\ p + d >= e /\ p + d - d = p
      <4>1. p \in 0..(Len(g) - d) - 1
        BY <1>3
      <4>2. Len(g) \in Nat /\ b \in Nat /\ d \in Nat /\ e = b + d
        BY <1>2
      <4> QED BY ONLY <4>1, <4>2, <2>2
    <3>2. PICK l \in LocsOf(k.cells, s) : k.cells[l].pos = p + d
      BY <1>6, <3>1 DEF Holds
    <3>3. l \in LocsOf(r.cells, s) /\ moved(l)
      BY <1>1, <3>1, <3>2
    <3>4. r.cells[l].pos = k.cells[l].pos - d
      BY <1>1, <1>2, <3>3
    <3> QED BY <3>1, <3>2, <3>3, <3>4
  <2> QED BY <2>1, <2>2
<1>7. ASSUME Follows(k, s, g), NEW l \in LocsOf(r.cells, s), r.cells[l].pos < Len(left)
      PROVE  r.data[l] = [token |-> left[r.cells[l].pos + 1], pos |-> r.cells[l].pos]
  <2>1. l \in LocsOf(k.cells, s) /\ k.cells[l].pos \in Nat
    BY <1>4, <1>5
  <2>2. CASE /\ k.cells[l].pos < b
             /\ r.cells[l].pos = k.cells[l].pos /\ r.data[l] = k.data[l]
    <3>1. k.cells[l].pos < Len(g) /\ k.cells[l].pos \in 0..Len(left) - 1
      BY <1>2, <1>3, <1>7, <2>1, <2>2
    <3>2. k.data[l] = [token |-> g[k.cells[l].pos + 1], pos |-> k.cells[l].pos]
      BY <1>7, <2>1, <3>1 DEF Follows
    <3> QED BY <1>3, <2>2, <3>1, <3>2
  <2>3. CASE /\ k.cells[l].pos >= e /\ r.cells[l].pos = k.cells[l].pos - d
             /\ r.data[l] = [token |-> k.data[l].token, pos |-> k.data[l].pos - d]
    <3>. DEFINE p == k.cells[l].pos - d
    <3>1. p \in Nat /\ p >= b /\ p < Len(left) /\ p \in 0..Len(left) - 1
          /\ k.cells[l].pos < Len(g) /\ p + d + 1 = k.cells[l].pos + 1
      <4>1. /\ p = k.cells[l].pos - d /\ p < Len(left) /\ Len(left) = Len(g) - d
            /\ k.cells[l].pos \in Nat /\ k.cells[l].pos >= b + d
            /\ Len(g) \in Nat /\ d \in Nat /\ b \in Nat
        BY <1>2, <1>3, <1>7, <2>1, <2>3
      <4>2. ASSUME NEW c \in Nat, c >= b + d, c - d < Len(g) - d, Len(g) \in Nat
            PROVE  /\ c - d \in Nat /\ c - d >= b /\ c - d \in 0..Len(g) - d - 1
                   /\ c < Len(g) /\ c - d + d + 1 = c + 1
        BY <4>2
      <4> QED BY <4>1, <4>2
    <3>2. k.data[l] = [token |-> g[k.cells[l].pos + 1], pos |-> k.cells[l].pos]
      BY <1>7, <2>1, <3>1 DEF Follows
    <3>3. left[p + 1] = g[k.cells[l].pos + 1]
      <4>1. p \in 0..Len(left) - 1 /\ p >= b
        BY <3>1
      <4>2. left[p + 1] = g[p + d + 1]
        <5>. HIDE DEF p
        <5> QED BY <1>3, <4>1
      <4> QED BY <3>1, <4>2
    <3>4. k.data[l].token = g[k.cells[l].pos + 1] /\ k.data[l].pos - d = p
      BY <3>2
    <3> QED BY <2>3, <3>3, <3>4
  <2> QED BY <2>2, <2>3, <1>5
<1>8. ASSUME EndsAt(k, s, Len(g)), NEW l \in LocsOf(r.cells, s)
      PROVE  r.cells[l].pos < Len(left)
  <2>1. l \in LocsOf(k.cells, s) /\ k.cells[l].pos \in Nat /\ k.cells[l].pos < Len(g)
    BY <1>4, <1>5, <1>8 DEF EndsAt
  <2>2. CASE k.cells[l].pos < b /\ r.cells[l].pos = k.cells[l].pos
    <3>1. Len(left) = Len(g) - d /\ Len(g) \in Nat /\ b \in Nat /\ d \in Nat /\ b + d <= Len(g)
      BY <1>2, <1>3
    <3>2. ASSUME NEW x \in Nat, x < b PROVE x < Len(g) - d
      BY ONLY <3>1, <3>2
    <3> QED BY <2>1, <2>2, <3>1, <3>2
  <2>3. CASE k.cells[l].pos >= e /\ r.cells[l].pos = k.cells[l].pos - d
    <3>1. Len(left) = Len(g) - d /\ Len(g) \in Nat /\ d \in Nat
      BY <1>2, <1>3
    <3>2. ASSUME NEW x \in Nat, x < Len(g) PROVE x - d < Len(g) - d
      BY ONLY <3>1, <3>2
    <3> QED BY <2>1, <2>3, <3>1, <3>2
  <2> QED BY <2>2, <2>3, <1>5
<1>9. Holds(k, s, g) => Holds(r, s, left)
  BY <1>6 DEF Holds
<1>10. Follows(k, s, g) => Follows(r, s, left)
  BY <1>7 DEF Follows
<1>11. EndsAt(k, s, Len(g)) => EndsAt(r, s, Len(left))
  BY <1>8 DEF EndsAt
<1>12. IsShifted(k, r, s, g, left, d)
  BY <1>1, <1>3, <1>9, <1>10, <1>11 DEF IsShifted
<1> QED BY <1>12 DEF r, left

-----------------------------------------------------------------------------
(* The inductive invariant.                                                *)
Sequence == [slot : Slots, inputs : Seq(Tokens), numKeep : NumKeeps,
             numPredicted : 0..NumPredict]

(* Slot s holds the inputs g in the cache k, and nothing behind them while *)
(* it is in use.                                                           *)
HeldIn(k, s, g) ==
    /\ Holds(k, s, g)
    /\ ~k.merged => Follows(k, s, g)
    /\ InUse(s) => EndsAt(k, s, Len(g))

SlotsInv ==
    /\ lastUsed \in [Ids -> Slots] /\ \A s \in Slots : \E i \in Ids : lastUsed[i] = s
    /\ Inputs \in [Slots -> Seq(Tokens)] /\ \A s \in Slots : Len(Inputs[s]) <= numCtx
SeqsInv ==
    /\ seqs \in [Ids -> Sequence \cup {None}]
    /\ \A i \in Ids : seqs[i] # None => seqs[i].inputs # <<>>
    /\ \A i, j \in Ids : seqs[i] # None /\ seqs[j] # None /\ seqs[i].slot = seqs[j].slot => i = j
CacheInv == Sound(kv) /\ \A s \in Slots : HeldIn(kv, s, Inputs[s])

IInv ==
    /\ multiUserCache \in BOOLEAN /\ full = FALSE /\ panicked \in BOOLEAN
    /\ SlotsInv /\ SeqsInv /\ CacheInv

-----------------------------------------------------------------------------
(* The batch b when the first n sequences have added their parts: h is     *)
(* what its cache holds of each slot, which the batch continues.           *)
Ready(b, h, n) ==
    /\ b = [kv |-> b.kv, batch |-> b.batch, Inputs |-> b.Inputs, seqs |-> b.seqs, err |-> FALSE]
    /\ Sound(b.kv) /\ b.kv.merged = kv.merged
    /\ b.batch \in Seq(Input) /\ Once(b.batch)
    /\ \A e \in DOMAIN b.batch : InUse(b.batch[e].slot)
    /\ h \in [Slots -> Seq(Tokens)] /\ b.Inputs \in [Slots -> Seq(Tokens)]
    /\ \A s \in Slots : /\ HeldIn(b.kv, s, h[s])
                        /\ Continues(b.batch, s, h[s], b.Inputs[s])
                        /\ Len(b.Inputs[s]) <= numCtx
    /\ b.seqs \in [Ids -> Sequence \cup {None}]
    /\ \A j \in Ids : j <= n /\ b.seqs[j] # None =>
          /\ seqs[j] # None /\ b.seqs[j].slot = seqs[j].slot
          /\ b.seqs[j].numPredicted < NumPredict /\ b.batch # <<>>
    /\ \A j \in Ids : j > n =>
          /\ b.seqs[j] = seqs[j]
          /\ seqs[j] # None => /\ h[seqs[j].slot] = Inputs[seqs[j].slot]
                               /\ b.Inputs[seqs[j].slot] = Inputs[seqs[j].slot]

(* A shift makes room for at least one input, and keeps numKeep of them.   *)
LEMMA Discarding ==
  ASSUME CausalAssumption, InputCacheAssumption, NEW keep \in 0..numCtx - 1
  PROVE  ShiftDiscard(numCtx, keep) \in 1..numCtx - keep
<1>1. numCtx \in Nat /\ keep \in Nat /\ numCtx - keep \in Nat \ {0}
  BY Sizes
<1>. HIDE DEF numCtx
<1>. DEFINE x == numCtx - keep
<1>2. x \div 2 \in Nat /\ x \div 2 <= x
  <2>1. \A y \in Nat : y \div 2 \in Nat /\ y \div 2 <= y
    OBVIOUS
  <2>. HIDE DEF x
  <2>2. x \in Nat
    BY <1>1 DEF x
  <2> QED BY <2>1, <2>2
<1>. DEFINE t == Larger(x \div 2, 1)
<1>3. t \in 1..x
  <2>. DEFINE y == x \div 2
  <2>1. y \in Nat /\ y <= x /\ x \in Nat /\ x # 0
    BY <1>1, <1>2
  <2>2. t = IF y > 1 THEN y ELSE 1
    BY DEF Larger
  <2>. HIDE DEF t, x, y
  <2> QED BY <2>1, <2>2
<1>4. ShiftDiscard(numCtx, keep) = Larger(t - (numCtx - numCtx), 0)
  BY DEF ShiftDiscard
<1>. HIDE DEF t, x
<1>5. x \in Nat /\ x = numCtx - keep
  BY <1>1 DEF x
<1>6. t - (numCtx - numCtx) = t /\ t > 0
  BY <1>1, <1>3, <1>5
<1> QED BY <1>3, <1>4, <1>5, <1>6 DEF Larger

(* What a slot holds when its part is added: a full slot is shifted.       *)
HasRoom(k, r, s, g, left) ==
    (\E d \in Nat : IsShifted(k, r, s, g, left, d)) /\ Len(left) < numCtx

(* What a full slot is before its part of the batch is added.              *)
LEMMA MadeRoom ==
  ASSUME CausalAssumption, InputCacheAssumption,
         NEW k, Sound(k), NEW s \in Slots, NEW g \in Seq(Tokens), Len(g) <= numCtx,
         NEW keep \in NumKeeps,
         NEW discard, discard = ShiftDiscard(Len(g), keep),
         Len(g) = numCtx => ~RemoveFails(k, s, keep + discard),
         NEW r, r = IF Len(g) = numCtx THEN RemoveTokens(k, s, keep, keep + discard) ELSE k,
         NEW left, left = IF Len(g) = numCtx THEN Discarded(g, keep, discard) ELSE g
  PROVE  HasRoom(k, r, s, g, left)
<1>1. numCtx \in Nat /\ Len(g) \in Nat /\ keep \in 0..numCtx - 1 /\ keep \in Nat
  BY Sizes DEF InputCacheAssumption
<1>2. CASE Len(g) = numCtx
  <2>1. discard \in 1..numCtx - keep
    BY <1>1, <1>2, Discarding
  <2>2. discard \in Nat /\ keep + discard <= Len(g) /\ Len(g) - discard < numCtx
    BY <1>1, <1>2, <2>1
  <2>3. /\ ~RemoveFails(k, s, keep + discard)
        /\ r = RemoveTokens(k, s, keep, keep + discard) /\ left = Discarded(g, keep, discard)
    BY <1>2
  <2>4. PICK e \in Nat : e = keep + discard
    BY <1>1, <2>2
  <2>5. e <= Len(g) /\ ~RemoveFails(k, s, e) /\ r = RemoveTokens(k, s, keep, e)
    BY <2>2, <2>3, <2>4
  <2>. HIDE DEF numCtx
  <2>6. IsShifted(k, RemoveTokens(k, s, keep, e), s, g, Discarded(g, keep, discard), discard)
    BY <1>1, <2>2, <2>4, <2>5, Shifted
  <2>7. IsShifted(k, r, s, g, left, discard)
    BY <2>3, <2>5, <2>6
  <2> QED BY <2>2, <2>7 DEF HasRoom, IsShifted
<1>3. CASE Len(g) # numCtx
  <2>1. r = k /\ left = g
    BY <1>3
  <2>2. Len(g) < numCtx /\ Len(g) = Len(g) - 0
    BY <1>1, <1>3
  <2>3. IsShifted(k, r, s, g, left, 0)
    BY <2>1, <2>2 DEF IsShifted, SameFor
  <2> QED BY <2>1, <2>2, <2>3 DEF HasRoom
<1> QED BY <1>2, <1>3

(* The part of one sequence keeps what is meant by Ready.                  *)
LEMMA Added ==
  ASSUME CausalAssumption, InputCacheAssumption, IInv,
         NEW n \in 0..numSlots - 1, NEW b, NEW h, Ready(b, h, n)
  PROVE  LET c == AddToBatch(b, n + 1)
         IN c.err = TRUE \/ \E g : Ready(c, g, n + 1)
<1>. DEFINE i == n + 1
            c == AddToBatch(b, i)
            q == seqs[i]
<1>1. /\ numSlots \in Nat /\ n \in Nat /\ i \in Ids /\ i \in Nat /\ i = n + 1 /\ i > n
      /\ \A j \in Ids : (j <= i <=> j <= n \/ j = i) /\ (j > i <=> j > n /\ j # i)
  BY Sizes DEF Ids
<1>2. b = [kv |-> b.kv, batch |-> b.batch, Inputs |-> b.Inputs, seqs |-> b.seqs, err |-> FALSE]
      /\ b.err = FALSE /\ b.seqs \in [Ids -> Sequence \cup {None}]
  <2>1. b = [kv |-> b.kv, batch |-> b.batch, Inputs |-> b.Inputs, seqs |-> b.seqs, err |-> FALSE]
    BY DEF Ready
  <2>2. b.err = FALSE
    BY <2>1
  <2> QED BY <2>1, <2>2 DEF Ready
<1>3. b.seqs[i] = q
  BY <1>1 DEF Ready
<1>. HIDE DEF i
<1>4. CASE q = None
  <2>1. c = b
    BY <1>4 DEF AddToBatch
  <2>2. Ready(b, h, i)
    <3>1. \A j \in Ids : j <= i /\ b.seqs[j] # None => j <= n
      BY <1>1, <1>3, <1>4
    <3>2. \A j \in Ids : j > i => j > n
      BY <1>1
    <3> QED BY <3>1, <3>2 DEF Ready
  <2> QED BY <2>1, <2>2 DEF i
<1>5. CASE q # None /\ q.numPredicted >= NumPredict
  <2>1. c = [b EXCEPT !.seqs[i] = None]
    BY <1>2, <1>5 DEF AddToBatch
  <2>2. /\ c.kv = b.kv /\ c.batch = b.batch /\ c.Inputs = b.Inputs /\ c.err = FALSE
        /\ c.seqs = [b.seqs EXCEPT ![i] = None]
        /\ c = [kv |-> c.kv, batch |-> c.batch, Inputs |-> c.Inputs, seqs |-> c.seqs, err |-> FALSE]
    <3>. HIDE DEF c
    <3> QED BY <1>2, <2>1
  <2>. HIDE DEF c
  <2>3. /\ c.seqs \in [Ids -> Sequence \cup {None}] /\ c.seqs[i] = None
        /\ \A j \in Ids \ {i} : c.seqs[j] = b.seqs[j]
    BY <1>1, <1>2, <2>2
  <2>4. \A j \in Ids : j <= i /\ c.seqs[j] # None =>
          /\ seqs[j] # None /\ c.seqs[j].slot = seqs[j].slot
          /\ c.seqs[j].numPredicted < NumPredict /\ c.batch # <<>>
    BY <1>1, <2>2, <2>3 DEF Ready
  <2>5. \A j \in Ids : j > i =>
          /\ c.seqs[j] = seqs[j]
          /\ seqs[j] # None => /\ h[seqs[j].slot] = Inputs[seqs[j].slot]
                               /\ c.Inputs[seqs[j].slot] = Inputs[seqs[j].slot]
    BY <1>1, <2>2, <2>3 DEF Ready
  <2>6. Ready(c, h, i)
    BY <2>2, <2>3, <2>4, <2>5 DEF Ready
  <2> QED BY <2>6 DEF i, c
<1>6. CASE q # None /\ ~(q.numPredicted >= NumPredict)
  <2>. DEFINE s == q.slot
              g == Inputs[s]
              isFull == Len(g) = numCtx
              discard == ShiftDiscard(Len(g), q.numKeep)
              held == IF isFull THEN Discarded(g, q.numKeep, discard) ELSE g
              m == Smaller(Smaller(Len(q.inputs), BatchSize), numCtx - Len(held))
              part == Part(s, Len(held), q.inputs, m)
              r == IF isFull THEN RemoveTokens(b.kv, s, q.numKeep, q.numKeep + discard) ELSE b.kv
              all == held \o SubSeq(q.inputs, 1, m)
              rest == SubSeq(q.inputs, m + 1, Len(q.inputs))
  <2>1. CASE isFull /\ RemoveFails(b.kv, s, q.numKeep + discard)
    <3>1. c = [b EXCEPT !.err = TRUE]
      BY <1>2, <1>6, <2>1 DEF AddToBatch
    <3>2. c.err = TRUE
      BY <1>2, <3>1
    <3> QED BY <3>2 DEF i
  <2>2. CASE ~(isFull /\ RemoveFails(b.kv, s, q.numKeep + discard))
    <3>1. c = [b EXCEPT !.kv = r, !.batch = b.batch \o part, !.Inputs[s] = all,
                        !.seqs[i].inputs = rest]
      <4>1. c = [b EXCEPT
            !.kv = IF isFull THEN RemoveTokens(b.kv, s, q.numKeep, q.numKeep + discard) ELSE b.kv,
            !.batch = b.batch \o [j \in 1..m |->
                          [slot |-> s, pos |-> Len(held) + j - 1, token |-> q.inputs[j]]],
            !.Inputs[s] = held \o SubSeq(q.inputs, 1, m),
            !.seqs[i].inputs = SubSeq(q.inputs, m + 1, Len(q.inputs))]
        BY <1>2, <1>6, <2>2 DEF AddToBatch
      <4> QED BY <4>1 DEF Part
    <3>2. /\ q \in Sequence /\ s \in Slots /\ q.inputs \in Seq(Tokens) /\ q.numKeep \in NumKeeps
          /\ q.inputs # <<>> /\ q.numPredicted \in 0..NumPredict
          /\ q = [slot |-> q.slot, inputs |-> q.inputs, numKeep |-> q.numKeep,
                  numPredicted |-> q.numPredicted]
          /\ InUse(s)
      BY <1>1, <1>6 DEF IInv, SeqsInv, Sequence, InUse
    <3>3. g \in Seq(Tokens) /\ Len(g) <= numCtx
      BY <3>2 DEF IInv, SlotsInv
    <3>4. h[s] = g /\ b.Inputs[s] = g
      BY <1>1, <1>6 DEF Ready
    <3>5. Sound(b.kv) /\ b.kv.merged = kv.merged /\ HeldIn(b.kv, s, g)
      BY <3>2, <3>4 DEF Ready
    <3>6. /\ Sound(r) /\ r.merged = b.kv.merged
          /\ \A t \in Slots \ {s} : SameFor(b.kv, r, t)
          /\ held \in Seq(Tokens) /\ Len(held) < numCtx
          /\ HeldIn(r, s, held)
      <4>1. Len(g) = numCtx => ~RemoveFails(b.kv, s, q.numKeep + discard)
        BY <2>2
      <4>2. /\ r = IF Len(g) = numCtx THEN RemoveTokens(b.kv, s, q.numKeep, q.numKeep + discard)
                   ELSE b.kv
            /\ held = IF Len(g) = numCtx THEN Discarded(g, q.numKeep, discard) ELSE g
            /\ discard = ShiftDiscard(Len(g), q.numKeep)
        OBVIOUS
      <4>. HIDE DEF c, r, held, discard, g, s, q, isFull, numCtx
      <4>3. HasRoom(b.kv, r, s, g, held)
        BY <4>1, <4>2, <3>2, <3>3, <3>5, MadeRoom
      <4> QED BY <4>3, <3>2, <3>5 DEF HasRoom, IsShifted, HeldIn
    <3>. HIDE DEF held, r
    <3>7. m \in 1..Len(q.inputs) /\ Len(held) + m <= numCtx
      <4>1. /\ Len(q.inputs) \in Nat /\ Len(q.inputs) # 0 /\ BatchSize \in Nat /\ BatchSize # 0
            /\ numCtx \in Nat /\ Len(held) \in Nat /\ Len(held) < numCtx
        BY <3>2, <3>6, Sizes DEF InputCacheAssumption
      <4>2. ASSUME NEW x \in Nat, NEW y \in Nat, NEW z \in Nat, NEW w \in Nat,
                   x # 0, y # 0, w < z
            PROVE  /\ Smaller(Smaller(x, y), z - w) \in 1..x
                   /\ w + Smaller(Smaller(x, y), z - w) <= z
        BY <4>2 DEF Smaller
      <4>. HIDE DEF numCtx
      <4> QED BY <4>1, <4>2
    <3>8. \A e \in DOMAIN b.batch : b.batch[e].slot # s
      <4>1. Continues(b.batch, s, g, g)
        BY <3>2, <3>4 DEF Ready
      <4>2. Len(g) \in Nat
        BY <3>3
      <4>3. \A x \in Len(g)..Len(g) - 1 : FALSE
        BY <4>2
      <4> QED BY <4>1, <4>3 DEF Continues
    <3>. HIDE DEF m
    <3>. DEFINE new == b.batch \o part
    <3>9. IsExtended(b.batch, new, s, held, all, m)
      <4>1. m \in 0..Len(q.inputs) /\ b.batch \in Seq(Input) /\ Once(b.batch)
        BY <3>2, <3>7 DEF Ready
      <4>. HIDE DEF c, numCtx, s, q, Once
      <4> QED BY <4>1, <3>2, <3>6, <3>7, <3>8, Extended
    <3>10. rest \in Seq(Tokens)
      BY <3>2, <3>7, Prefix
    <3>11. /\ c.kv = r /\ c.batch = new /\ c.err = FALSE
           /\ c.Inputs = [b.Inputs EXCEPT ![s] = all]
           /\ c.seqs = [b.seqs EXCEPT ![i].inputs = rest]
           /\ c = [kv |-> c.kv, batch |-> c.batch, Inputs |-> c.Inputs, seqs |-> c.seqs, err |-> FALSE]
      <4>1. c = [b EXCEPT !.kv = r, !.batch = new, !.Inputs = [b.Inputs EXCEPT ![s] = all],
                          !.seqs = [b.seqs EXCEPT ![i].inputs = rest]]
        <5>1. b.Inputs = b.Inputs /\ b.seqs = b.seqs
          OBVIOUS
        <5>. HIDE DEF c, part, all, rest, s
        <5> QED BY <3>1
      <4>. HIDE DEF c, new, all, rest, s
      <4> QED BY <1>2, <4>1
    <3>. HIDE DEF new, c, all, rest
    <3>12. c.Inputs \in [Slots -> Seq(Tokens)] /\ c.Inputs[s] = all
           /\ \A t \in Slots \ {s} : c.Inputs[t] = b.Inputs[t]
      <4>1. b.Inputs \in [Slots -> Seq(Tokens)]
        BY DEF Ready
      <4>2. all \in Seq(Tokens)
        BY <3>9 DEF IsExtended
      <4>3. s \in Slots /\ c.Inputs = [b.Inputs EXCEPT ![s] = all]
        BY <3>2, <3>11
      <4>. HIDE DEF s
      <4> QED BY ONLY <4>1, <4>2, <4>3
    <3>13. /\ c.seqs[i] = [slot |-> s, inputs |-> rest, numKeep |-> q.numKeep,
                           numPredicted |-> q.numPredicted]
           /\ \A j \in Ids \ {i} : c.seqs[j] = b.seqs[j]
      <4>1. c.seqs[i] = [q EXCEPT !.inputs = rest]
        BY <1>1, <1>2, <1>3, <3>11
      <4>2. \A j \in Ids \ {i} : c.seqs[j] = b.seqs[j]
        BY <1>1, <1>2, <3>11
      <4>3. [q EXCEPT !.inputs = rest] = [slot |-> q.slot, inputs |-> rest, numKeep |-> q.numKeep,
                           numPredicted |-> q.numPredicted]
        <5>1. ASSUME NEW x, x = [slot |-> x.slot, inputs |-> x.inputs, numKeep |-> x.numKeep,
                                 numPredicted |-> x.numPredicted]
              PROVE  [x EXCEPT !.inputs = rest] =
                       [slot |-> x.slot, inputs |-> rest, numKeep |-> x.numKeep,
                        numPredicted |-> x.numPredicted]
          BY <5>1
        <5>. HIDE DEF q
        <5> QED BY <5>1, <3>2
      <4> QED BY <4>1, <4>2, <4>3
    <3>14. c.seqs \in [Ids -> Sequence \cup {None}]
      <4>1. c.seqs[i] \in Sequence
        BY <3>2, <3>10, <3>13 DEF Sequence
      <4>2. c.seqs = [j \in Ids |-> c.seqs[j]]
        BY <1>2, <3>11
      <4>3. \A j \in Ids : c.seqs[j] \in Sequence \cup {None}
        BY <1>2, <3>13, <4>1
      <4>. HIDE DEF Sequence
      <4> QED BY <4>2, <4>3
    <3>. DEFINE f == [h EXCEPT ![s] = held]
    <3>15. f \in [Slots -> Seq(Tokens)] /\ f[s] = held /\ \A t \in Slots \ {s} : f[t] = h[t]
      <4>1. h \in [Slots -> Seq(Tokens)]
        BY DEF Ready
      <4> QED BY <4>1, <3>2, <3>6
    <3>. HIDE DEF f, s
    <3>16. ASSUME NEW t \in Slots
           PROVE  /\ HeldIn(c.kv, t, f[t])
                  /\ Continues(c.batch, t, f[t], c.Inputs[t])
                  /\ Len(c.Inputs[t]) <= numCtx
      <4>1. CASE t = s
        BY <4>1, <3>6, <3>7, <3>9, <3>11, <3>12, <3>15 DEF IsExtended
      <4>2. CASE t # s
        <5>1. /\ HeldIn(b.kv, t, h[t]) /\ Continues(b.batch, t, h[t], b.Inputs[t])
              /\ Len(b.Inputs[t]) <= numCtx
          BY DEF Ready
        <5>2. SameFor(b.kv, r, t) /\ f[t] = h[t] /\ c.Inputs[t] = b.Inputs[t]
          BY <4>2, <3>6, <3>12, <3>15
        <5>3. HeldIn(r, t, h[t])
          BY <5>1, <5>2, <3>6, SameHolds DEF HeldIn
        <5>4. Continues(new, t, h[t], b.Inputs[t])
          BY <4>2, <5>1, <3>9 DEF IsExtended
        <5> QED BY <5>1, <5>2, <5>3, <5>4, <3>11
      <4> QED BY <4>1, <4>2
    <3>17. \A e \in DOMAIN c.batch : InUse(c.batch[e].slot)
      <4>1. \A e \in DOMAIN new : new[e].slot = s
                                  \/ \E j \in DOMAIN b.batch : b.batch[j].slot = new[e].slot
        BY <3>9 DEF IsExtended
      <4>2. \A j \in DOMAIN b.batch : InUse(b.batch[j].slot)
        BY DEF Ready
      <4>3. ASSUME NEW e \in DOMAIN new PROVE InUse(new[e].slot)
        BY <4>1, <4>2, <3>2 DEF s
      <4> QED BY <4>3, <3>11
    <3>18. \A j \in Ids : j <= i /\ c.seqs[j] # None =>
             /\ seqs[j] # None /\ c.seqs[j].slot = seqs[j].slot
             /\ c.seqs[j].numPredicted < NumPredict /\ c.batch # <<>>
      <4>1. c.batch # <<>>
        BY <3>7, <3>9, <3>11 DEF IsExtended
      <4>2. /\ seqs[i] # None /\ c.seqs[i].slot = seqs[i].slot
            /\ c.seqs[i].numPredicted < NumPredict
        <5>1. NumPredict \in Nat /\ q.numPredicted \in Nat
          BY <3>2 DEF InputCacheAssumption
        <5> QED BY <5>1, <1>6, <3>13 DEF s
      <4> QED BY <1>1, <4>1, <4>2, <3>13 DEF Ready
    <3>19. \A j \in Ids : j > i =>
             /\ c.seqs[j] = seqs[j]
             /\ seqs[j] # None => /\ f[seqs[j].slot] = Inputs[seqs[j].slot]
                                  /\ c.Inputs[seqs[j].slot] = Inputs[seqs[j].slot]
      <4> SUFFICES ASSUME NEW j \in Ids, j > i
                   PROVE  /\ c.seqs[j] = seqs[j]
                          /\ seqs[j] # None => /\ f[seqs[j].slot] = Inputs[seqs[j].slot]
                                               /\ c.Inputs[seqs[j].slot] = Inputs[seqs[j].slot]
        OBVIOUS
      <4>1. j > n /\ j # i
        BY <1>1
      <4>2. c.seqs[j] = seqs[j]
        BY <4>1, <3>13 DEF Ready
      <4>3. ASSUME seqs[j] # None
            PROVE  seqs[j].slot # s /\ seqs[j].slot \in Slots
        <5>1. seqs[j].slot # s
          BY <4>1, <4>3, <1>1, <1>6 DEF IInv, SeqsInv, s
        <5>2. seqs[j] \in Sequence
          BY <4>3 DEF IInv, SeqsInv
        <5> QED BY <5>1, <5>2 DEF Sequence
      <4>4. ASSUME seqs[j] # None
            PROVE  /\ h[seqs[j].slot] = Inputs[seqs[j].slot]
                   /\ b.Inputs[seqs[j].slot] = Inputs[seqs[j].slot]
        BY <4>1, <4>4 DEF Ready
      <4> QED BY <4>2, <4>3, <4>4, <3>12, <3>15
    <3>20. Sound(c.kv) /\ c.kv.merged = kv.merged /\ c.batch \in Seq(Input) /\ Once(c.batch)
      BY <3>5, <3>6, <3>9, <3>11 DEF IsExtended
    <3>21. Ready(c, f, i)
      BY <3>11, <3>12, <3>14, <3>15, <3>16, <3>17, <3>18, <3>19, <3>20 DEF Ready
    <3> QED BY <3>21 DEF i, c
  <2> QED BY <2>1, <2>2
<1> QED BY <1>4, <1>5, <1>6

Good(b, n) == b.err = TRUE \/ \E h : Ready(b, h, n)

(* By induction on the sequences the whole batch is assembled: it starts   *)
(* from the state as it is,                                                *)
LEMMA GoodStart ==
  ASSUME CausalAssumption, InputCacheAssumption, IInv
  PROVE  Good([kv |-> kv, batch |-> <<>>, Inputs |-> Inputs, seqs |-> seqs, err |-> FALSE], 0)
<1>. DEFINE b == [kv |-> kv, batch |-> <<>>, Inputs |-> Inputs, seqs |-> seqs, err |-> FALSE]
<1>1. /\ b.kv = kv /\ b.batch = <<>> /\ b.Inputs = Inputs /\ b.seqs = seqs
      /\ b = [kv |-> b.kv, batch |-> b.batch, Inputs |-> b.Inputs, seqs |-> b.seqs, err |-> FALSE]
  OBVIOUS
<1>. HIDE DEF b
<1>2. b.batch \in Seq(Input) /\ DOMAIN b.batch = {} /\ Once(b.batch)
  BY <1>1 DEF Once
<1>3. ASSUME NEW s \in Slots
      PROVE  /\ HeldIn(b.kv, s, Inputs[s])
             /\ Continues(b.batch, s, Inputs[s], b.Inputs[s])
             /\ Len(b.Inputs[s]) <= numCtx
  <2>1. Inputs[s] \in Seq(Tokens) /\ Len(Inputs[s]) <= numCtx /\ HeldIn(kv, s, Inputs[s])
    BY DEF IInv, SlotsInv, CacheInv
  <2>2. Len(Inputs[s]) \in Nat
    BY <2>1
  <2>3. \A p \in Len(Inputs[s])..Len(Inputs[s]) - 1 : FALSE
    BY <2>2
  <2>4. Continues(b.batch, s, Inputs[s], Inputs[s])
    BY <1>2, <2>1, <2>2, <2>3 DEF Continues
  <2> QED BY <1>1, <2>1, <2>4
<1>4. \A j \in Ids : ~(j <= 0)
  BY Sizes DEF Ids
<1>5. /\ Sound(kv) /\ Inputs \in [Slots -> Seq(Tokens)]
      /\ seqs \in [Ids -> Sequence \cup {None}]
  BY DEF IInv, CacheInv, SlotsInv, SeqsInv
<1>6. Ready(b, Inputs, 0)
  BY <1>1, <1>2, <1>3, <1>4, <1>5 DEF Ready
<1> QED BY <1>6 DEF Good, b

(* every sequence adds its part,                                           *)
LEMMA GoodStep ==
  ASSUME CausalAssumption, InputCacheAssumption, IInv,
         NEW n \in 0..numSlots - 1, NEW b, Good(b, n)
  PROVE  Good(AddToBatch(b, n + 1), n + 1)
<1>1. CASE b.err = TRUE
  <2>1. AddToBatch(b, n + 1) = b
    BY <1>1 DEF AddToBatch
  <2> QED BY <1>1, <2>1 DEF Good
<1>2. CASE b.err # TRUE
  <2>1. PICK h : Ready(b, h, n)
    BY <1>2 DEF Good
  <2>. DEFINE c == AddToBatch(b, n + 1)
  <2>2. c.err = TRUE \/ \E g : Ready(c, g, n + 1)
    BY <2>1, Added
  <2>. HIDE DEF c
  <2>3. Good(c, n + 1)
    BY <2>2 DEF Good
  <2> QED BY <2>3 DEF c
<1> QED BY <1>1, <1>2

(* and so the last has added it.                                           *)
LEMMA AssembledAll ==
  ASSUME CausalAssumption, InputCacheAssumption, IInv
  PROVE  Good(Assembled, numSlots)
<1>. DEFINE start == [kv |-> kv, batch |-> <<>>, Inputs |-> Inputs, seqs |-> seqs, err |-> FALSE]
            F(n, g) == [i \in 0..n |-> IF i = 0 THEN start ELSE AddToBatch(g[i - 1], i)]
            Bad == {n \in 0..numSlots :
                      ~\E g : g = F(n, g) /\ \A i \in 0..n : Good(g[i], i)}
<1>1. numSlots \in Nat /\ numSlots # 0
  BY Sizes
<1>2. Good(start, 0)
  BY GoodStart
<1>. HIDE DEF start
<1>3. Bad = {}
  <2>1. SUFFICES ASSUME Bad # {} PROVE FALSE
    OBVIOUS
  <2>2. Bad \in SUBSET Nat
    BY <1>1
  <2>3. PICK n \in Bad : \A m \in Bad : n <= m
    <3>. HIDE DEF Bad
    <3> QED BY <2>1, <2>2, Least
  <2>4. n \in 0..numSlots /\ n \in Nat
    BY <1>1
  <2>5. ~\E g : g = F(n, g) /\ \A i \in 0..n : Good(g[i], i)
    OBVIOUS
  <2>6. CASE n = 0
    <3>. DEFINE g == [i \in 0..0 |-> start]
    <3>1. g = F(0, g) /\ \A i \in 0..0 : g[i] = start /\ i = 0
      OBVIOUS
    <3>. HIDE DEF g
    <3>2. \A i \in 0..0 : Good(g[i], i)
      BY <1>2, <3>1
    <3> QED BY <2>5, <2>6, <3>1, <3>2
  <2>7. CASE n # 0
    <3>1. n - 1 \in 0..numSlots /\ n - 1 \in Nat /\ ~(n <= n - 1)
      BY <1>1, <2>4, <2>7
    <3>2. PICK g : g = F(n - 1, g) /\ \A i \in 0..n - 1 : Good(g[i], i)
      BY <2>3, <3>1
    <3>. DEFINE h == [i \in 0..n |-> IF i = n THEN AddToBatch(g[n - 1], n) ELSE g[i]]
    <3>3. \A i \in 0..n : i # n => i \in 0..n - 1
      BY <2>4
    <3>4. \A i \in 0..n - 1 : i \in 0..n /\ i # n
      BY <2>4
    <3>5. /\ \A i \in 0..n - 1 : h[i] = g[i]
          /\ h[n] = AddToBatch(g[n - 1], n)
          /\ h = [i \in 0..n |-> h[i]]
      BY <3>4, <2>4
    <3>. HIDE DEF h
    <3>6. \A i \in 0..n : h[i] = IF i = 0 THEN start ELSE AddToBatch(h[i - 1], i)
      <4> SUFFICES ASSUME NEW i \in 0..n
                   PROVE  h[i] = IF i = 0 THEN start ELSE AddToBatch(h[i - 1], i)
        OBVIOUS
      <4>1. CASE i = n
        <5>1. n - 1 \in 0..n - 1
          BY <3>1
        <5> QED BY <4>1, <5>1, <2>7, <3>5
      <4>2. CASE i # n
        <5>1. i \in 0..n - 1 /\ (i # 0 => i - 1 \in 0..n - 1)
          BY <4>2, <2>4
        <5>2. g[i] = IF i = 0 THEN start ELSE AddToBatch(g[i - 1], i)
          BY <3>2, <5>1
        <5> QED BY <5>1, <5>2, <3>5
      <4> QED BY <4>1, <4>2
    <3>7. h = F(n, h)
      <4>1. F(n, h) = [i \in 0..n |-> h[i]]
        BY <3>6
      <4> QED BY <4>1, <3>5
    <3>8. \A i \in 0..n : Good(h[i], i)
      <4> SUFFICES ASSUME NEW i \in 0..n PROVE Good(h[i], i)
        OBVIOUS
      <4>1. CASE i = n
        <5>1. n - 1 \in 0..n - 1 /\ n - 1 \in 0..numSlots - 1 /\ (n - 1) + 1 = n
          BY <1>1, <2>4, <3>1
        <5>2. Good(g[n - 1], n - 1)
          BY <3>2, <5>1
        <5>3. Good(AddToBatch(g[n - 1], (n - 1) + 1), (n - 1) + 1)
          BY <5>1, <5>2, GoodStep
        <5> QED BY <4>1, <5>1, <5>3, <3>5
      <4>2. CASE i # n
        BY <4>2, <3>2, <3>3, <3>5
      <4> QED BY <4>1, <4>2
    <3> QED BY <2>5, <3>7, <3>8
  <2> QED BY <2>6, <2>7
<1>4. \E g : g = F(numSlots, g) /\ \A i \in 0..numSlots : Good(g[i], i)
  BY <1>1, <1>3
<1>. DEFINE upTo == CHOOSE g : g = F(numSlots, g)
<1>5. upTo = F(numSlots, upTo)
  BY <1>4
<1>6. Assembled = upTo[numSlots]
  BY DEF Assembled, start
<1>. HIDE DEF upTo, Bad
<1>7. PICK g : g = F(numSlots, g) /\ \A i \in 0..numSlots : Good(g[i], i)
  BY <1>4
(* The two functions agree.                                                *)
<1>8. \A i \in 0..numSlots : upTo[i] = g[i]
  <2>. DEFINE Diff == {i \in 0..numSlots : upTo[i] # g[i]}
  <2>1. SUFFICES ASSUME Diff # {} PROVE FALSE
    OBVIOUS
  <2>2. Diff \in SUBSET Nat
    BY <1>1
  <2>3. PICK i \in Diff : \A j \in Diff : i <= j
    <3>. HIDE DEF Diff
    <3> QED BY <2>1, <2>2, Least
  <2>4. i \in 0..numSlots /\ upTo[i] # g[i]
    OBVIOUS
  <2>5. /\ upTo[i] = IF i = 0 THEN start ELSE AddToBatch(upTo[i - 1], i)
        /\ g[i] = IF i = 0 THEN start ELSE AddToBatch(g[i - 1], i)
    BY <2>4, <1>5, <1>7
  <2>6. i # 0 => i - 1 \in 0..numSlots /\ ~(i <= i - 1)
    BY <1>1, <2>4
  <2>7. i # 0 => upTo[i - 1] = g[i - 1]
    BY <2>3, <2>6
  <2> QED BY <2>4, <2>5, <2>7
<1> QED BY <1>1, <1>6, <1>7, <1>8

(* What holds of the inputs of a slot holds of the first n of them.        *)
LEMMA Cut ==
  ASSUME NEW k, NEW s, NEW g \in Seq(Tokens), NEW n \in 0..Len(g),
         \A l \in LocsOf(k.cells, s) : k.cells[l].pos \in Nat
  PROVE  LET c == SubSeq(g, 1, n) IN
         /\ c \in Seq(Tokens) /\ Len(c) = n
         /\ Holds(k, s, g) => Holds(k, s, c)
         /\ Follows(k, s, g) => Follows(k, s, c)
<1>. DEFINE c == SubSeq(g, 1, n)
<1>1. c \in Seq(Tokens) /\ Len(c) = n /\ \A i \in 1..n : c[i] = g[i]
  BY Prefix
<1>. HIDE DEF c
<1>2. Len(g) \in Nat /\ n \in Nat /\ n <= Len(g)
  OBVIOUS
<1>3. Holds(k, s, g) => Holds(k, s, c)
  <2>1. \A p \in 0..n - 1 : p \in 0..Len(g) - 1
    BY <1>2
  <2> QED BY <1>1, <2>1 DEF Holds
<1>4. ASSUME Follows(k, s, g), NEW l \in LocsOf(k.cells, s), k.cells[l].pos < n
      PROVE  k.data[l] = [token |-> c[k.cells[l].pos + 1], pos |-> k.cells[l].pos]
  <2>1. k.cells[l].pos < Len(g) /\ k.cells[l].pos + 1 \in 1..n
    <3>1. k.cells[l].pos \in Nat
      OBVIOUS
    <3> QED BY <1>2, <1>4, <3>1
  <2>2. k.data[l] = [token |-> g[k.cells[l].pos + 1], pos |-> k.cells[l].pos]
    BY <1>4, <2>1 DEF Follows
  <2>3. c[k.cells[l].pos + 1] = g[k.cells[l].pos + 1]
    BY <1>1, <2>1
  <2> QED BY <2>2, <2>3
<1>5. Follows(k, s, g) => Follows(k, s, c)
  BY <1>1, <1>4 DEF Follows
<1> QED BY <1>1, <1>3, <1>5 DEF c

(* The cells of a slot are at positions it may have.                       *)
LEMMA Positions ==
  ASSUME CausalAssumption, InputCacheAssumption, NEW k, Sound(k), NEW s
  PROVE  \A l \in LocsOf(k.cells, s) : k.cells[l].pos \in Nat /\ k.cells[l].pos < numCtx
<1>1. \A p \in 0..numCtx - 1 : p \in Nat /\ p < numCtx
  BY Sizes
<1>. HIDE DEF numCtx
<1> QED BY <1>1 DEF Sound, Caches, Cell, LocsOf

(* The batch goes in, and the cache then holds of each slot what it is     *)
(* meant to hold.                                                          *)
LEMMA Embedded ==
  ASSUME CausalAssumption, InputCacheAssumption,
         NEW b, NEW h, Ready(b, h, numSlots), b.batch # <<>>
  PROVE  LET p == Placed(b.kv, Len(b.batch))
             w == Put(StartForward(p.kv, p.loc, b.batch), p.loc, b.batch)
         IN /\ p.loc # -1 /\ Sound(w)
            /\ \A s \in Slots : HeldIn(w, s, b.Inputs[s])
<1>. DEFINE p == Placed(b.kv, Len(b.batch))
            w == Put(StartForward(p.kv, p.loc, b.batch), p.loc, b.batch)
<1>1. Sound(b.kv) /\ b.batch \in Seq(Input) /\ Once(b.batch)
  BY DEF Ready
<1>2. \A s \in Slots : HeldIn(b.kv, s, h[s]) /\ Continues(b.batch, s, h[s], b.Inputs[s])
  BY DEF Ready
<1>3. Fits(b.kv, b.batch)
  <2>1. ASSUME NEW i \in DOMAIN b.batch
        PROVE  EndsAt(b.kv, b.batch[i].slot, b.batch[i].pos)
    <3>. DEFINE s == b.batch[i].slot
    <3>1. s \in Slots /\ InUse(s)
      <4>1. b.batch[i] \in Input
        BY <1>1
      <4>2. InUse(s)
        BY DEF Ready
      <4>. HIDE DEF numCtx
      <4> QED BY <4>1, <4>2 DEF Input
    <3>2. EndsAt(b.kv, s, Len(h[s]))
      BY <1>2, <3>1 DEF HeldIn
    <3>3. b.batch[i].pos \in Len(h[s])..Len(b.Inputs[s]) - 1
      <4>1. PICK x, g : x = h[s] /\ g = b.Inputs[s]
        OBVIOUS
      <4>2. Continues(b.batch, s, x, g)
        BY <1>2, <3>1, <4>1
      <4>3. b.batch[i].pos \in Len(x)..Len(g) - 1
        BY <4>2 DEF Continues
      <4> QED BY <4>1, <4>3
    <3>4. Len(h[s]) \in Nat /\ Len(b.Inputs[s]) \in Nat
      <4>1. h[s] \in Seq(Tokens) /\ b.Inputs[s] \in Seq(Tokens)
        BY <3>1 DEF Ready
      <4> QED BY <4>1
    <3>5. Len(h[s]) <= b.batch[i].pos /\ b.batch[i].pos \in Nat
      BY <3>3, <3>4
    <3>6. \A l \in LocsOf(b.kv.cells, s) : b.kv.cells[l].pos \in Nat
      BY <1>1, Positions
    <3>. HIDE DEF s
    <3>7. EndsAt(b.kv, s, b.batch[i].pos)
      BY <3>2, <3>4, <3>5, <3>6 DEF EndsAt
    <3> QED BY <3>7 DEF s
  <2> QED BY <1>1, <2>1 DEF Fits, Once
<1>4. /\ p.loc \in Locs /\ p.loc + Len(b.batch) <= Capacity
      /\ \A i \in 0..Len(b.batch) - 1 : IsFree(p.kv.cells, p.loc + i)
      /\ Sound(p.kv) /\ Fits(p.kv, b.batch)
      /\ \A s, g : Holds(b.kv, s, g) => Holds(p.kv, s, g)
      /\ ~p.kv.merged => ~b.kv.merged /\ \A s, g : Follows(b.kv, s, g) => Follows(p.kv, s, g)
      /\ \A s, n : EndsAt(b.kv, s, n) => EndsAt(p.kv, s, n)
  BY <1>1, <1>3, PlacedWell
<1>5. p.loc # -1
  BY <1>4, Sizes DEF Locs
<1>. HIDE DEF p
<1>6. Sound(w) /\ w.merged = p.kv.merged
  BY <1>4, Entered
<1>7. ASSUME NEW s \in Slots PROVE HeldIn(w, s, b.Inputs[s])
  <2>1. /\ Continues(b.batch, s, h[s], b.Inputs[s]) /\ Holds(p.kv, s, h[s])
        /\ ~p.kv.merged => Follows(p.kv, s, h[s])
        /\ InUse(s) => EndsAt(p.kv, s, Len(h[s]))
    BY <1>2, <1>4 DEF HeldIn
  <2>2. PICK x, g : x = h[s] /\ g = b.Inputs[s]
    OBVIOUS
  <2>3. Continues(b.batch, s, x, g) /\ Holds(p.kv, s, x)
    BY <2>1, <2>2
  <2>4. /\ Holds(w, s, g)
        /\ Follows(p.kv, s, x) => Follows(w, s, g)
        /\ EndsAt(p.kv, s, Len(x)) => EndsAt(w, s, Len(g))
    BY <1>4, <2>3, Grown
  <2>. HIDE DEF w
  <2> QED BY <1>6, <2>1, <2>2, <2>4 DEF HeldIn
<1> QED BY <1>5, <1>6, <1>7 DEF w, p

-----------------------------------------------------------------------------
(* A batch keeps the invariant.                                            *)
LEMMA BatchKeeps ==
  ASSUME CausalAssumption, InputCacheAssumption, IInv, processBatch
  PROVE  IInv'
<1>1. PICK b \in {Assembled}, p \in {Placed(Assembled.kv, Len(Assembled.batch))} :
          \/ /\ ~b.err /\ b.batch = <<>>
             /\ kv' = b.kv /\ Inputs' = b.Inputs /\ seqs' = b.seqs
             /\ UNCHANGED <<full, panicked>>
          \/ /\ b.err \/ (b.batch # <<>> /\ p.loc = -1)
             /\ panicked' = TRUE /\ full' = ~b.err
             /\ UNCHANGED <<kv, Inputs, seqs>>
          \/ /\ ~b.err /\ b.batch # <<>> /\ p.loc # -1
             /\ kv' = Put(StartForward(p.kv, p.loc, b.batch), p.loc, b.batch)
             /\ \E out \in [Ids -> Outcomes] :
                  /\ \A i \in Ids : IF Sampling(b, i) THEN Possible(b, i, out[i]) ELSE out[i] = 0
                  /\ seqs' = Sampled(b, out) /\ Inputs' = Truncated(b, out)
             /\ UNCHANGED <<full, panicked>>
  BY DEF processBatch
<1>2. p = Placed(b.kv, Len(b.batch)) /\ Good(b, numSlots)
  BY <1>1, AssembledAll
<1>3. UNCHANGED <<multiUserCache, lastUsed>>
  BY DEF processBatch
<1>4. /\ multiUserCache \in BOOLEAN /\ full = FALSE /\ panicked \in BOOLEAN
      /\ SlotsInv /\ SeqsInv /\ CacheInv
  BY DEF IInv
<1>5. \A j \in Ids : j <= numSlots
  BY Sizes DEF Ids
<1>6. CASE /\ b.err \/ (b.batch # <<>> /\ p.loc = -1)
           /\ panicked' = TRUE /\ full' = ~b.err
           /\ UNCHANGED <<kv, Inputs, seqs>>
  <2>1. b.err = TRUE
    <3> SUFFICES ASSUME b.err # TRUE PROVE FALSE
      OBVIOUS
    <3>1. PICK h : Ready(b, h, numSlots)
      BY <1>2 DEF Good
    <3>2. b = [kv |-> b.kv, batch |-> b.batch, Inputs |-> b.Inputs, seqs |-> b.seqs, err |-> FALSE]
      BY <3>1 DEF Ready
    <3>3. b.err = FALSE
      BY <3>2
    <3>4. b.batch # <<>> /\ p.loc = -1
      BY <1>6, <3>3
    <3>5. p.loc # -1
      BY <1>2, <3>1, <3>4, Embedded
    <3> QED BY <3>4, <3>5
  <2>2. full' = FALSE /\ panicked' = TRUE
    BY <1>6, <2>1
  <2>3. SlotsInv'
    BY <1>3, <1>4, <1>6 DEF SlotsInv
  <2>4. SeqsInv'
    BY <1>4, <1>6 DEF SeqsInv
  <2>5. CacheInv'
    BY <1>4, <1>6 DEF CacheInv, HeldIn, InUse
  <2> QED BY <1>3, <1>4, <2>2, <2>3, <2>4, <2>5 DEF IInv
<1>7. CASE /\ ~b.err /\ b.batch = <<>>
           /\ kv' = b.kv /\ Inputs' = b.Inputs /\ seqs' = b.seqs
           /\ UNCHANGED <<full, panicked>>
  <2>1. PICK h : Ready(b, h, numSlots)
    BY <1>2, <1>7 DEF Good
  <2>2. \A j \in Ids : seqs'[j] = None
    BY <1>5, <1>7, <2>1 DEF Ready
  <2>3. SeqsInv'
    <3>1. seqs' \in [Ids -> Sequence \cup {None}]
      BY <1>7, <2>1 DEF Ready
    <3> QED BY <2>2, <3>1 DEF SeqsInv
  <2>4. SlotsInv'
    BY <1>3, <1>4, <1>7, <2>1 DEF SlotsInv, Ready
  <2>5. CacheInv'
    <3>1. Sound(kv')
      BY <1>7, <2>1 DEF Ready
    <3>2. ASSUME NEW s \in Slots
          PROVE  Holds(kv', s, Inputs'[s]) /\ (~kv'.merged => Follows(kv', s, Inputs'[s]))
      <4>1. PICK x, g : x = h[s] /\ g = b.Inputs[s]
        OBVIOUS
      <4>2. Continues(<<>>, s, x, g) /\ HeldIn(b.kv, s, x)
        BY <1>7, <2>1, <4>1 DEF Ready
      <4>3. x = g
        <5>1. x \in Seq(Tokens) /\ g \in Seq(Tokens) /\ Len(x) <= Len(g)
              /\ \A i \in 1..Len(x) : g[i] = x[i]
          BY <4>2 DEF Continues
        <5>2. \A i \in Len(x)..Len(g) - 1 : FALSE
          BY <4>2 DEF Continues
        <5>3. Len(x) = Len(g)
          <6>1. Len(x) \in Nat /\ Len(g) \in Nat
            BY <5>1
          <6>2. Len(x) < Len(g) => Len(x) \in Len(x)..Len(g) - 1
            BY <6>1
          <6> QED BY <5>1, <5>2, <6>1, <6>2
        <5> QED BY <5>1, <5>3
      <4> QED BY <1>7, <4>1, <4>2, <4>3 DEF HeldIn
    <3>3. \A s \in Slots : ~InUse(s)'
      BY <2>2 DEF InUse
    <3> QED BY <3>1, <3>2, <3>3 DEF CacheInv, HeldIn
  <2> QED BY <1>3, <1>4, <1>7, <2>3, <2>4, <2>5 DEF IInv
<1>8. CASE /\ ~b.err /\ b.batch # <<>> /\ p.loc # -1
           /\ kv' = Put(StartForward(p.kv, p.loc, b.batch), p.loc, b.batch)
           /\ \E out \in [Ids -> Outcomes] :
                /\ \A i \in Ids : IF Sampling(b, i) THEN Possible(b, i, out[i]) ELSE out[i] = 0
                /\ seqs' = Sampled(b, out) /\ Inputs' = Truncated(b, out)
           /\ UNCHANGED <<full, panicked>>
  <2>1. PICK h : Ready(b, h, numSlots)
    BY <1>2, <1>8 DEF Good
  <2>2. PICK out \in [Ids -> Outcomes] :
                /\ \A i \in Ids : IF Sampling(b, i) THEN Possible(b, i, out[i]) ELSE out[i] = 0
                /\ seqs' = Sampled(b, out) /\ Inputs' = Truncated(b, out)
    BY <1>8
  <2>3. Sound(kv') /\ \A s \in Slots : HeldIn(kv', s, b.Inputs[s])
    <3>. DEFINE w == Put(StartForward(p.kv, p.loc, b.batch), p.loc, b.batch)
    <3>1. Sound(w) /\ \A s \in Slots : HeldIn(w, s, b.Inputs[s])
      BY <1>2, <1>8, <2>1, Embedded
    <3>2. kv' = w
      BY <1>8
    <3>. HIDE DEF w
    <3> QED BY <3>1, <3>2 DEF HeldIn
  <2>4. ASSUME NEW i \in Ids, b.seqs[i] # None
        PROVE  /\ b.seqs[i] \in Sequence /\ seqs[i] # None /\ b.seqs[i].slot = seqs[i].slot
               /\ b.seqs[i].numPredicted + 1 \in 0..NumPredict
    <3>1. b.seqs[i] \in Sequence /\ b.seqs[i].numPredicted < NumPredict
          /\ seqs[i] # None /\ b.seqs[i].slot = seqs[i].slot
      BY <1>5, <2>1, <2>4 DEF Ready
    <3>2. b.seqs[i].numPredicted \in 0..NumPredict /\ NumPredict \in Nat
      BY <3>1 DEF Sequence, InputCacheAssumption
    <3> QED BY <3>1, <3>2
  <2>5. ASSUME NEW i \in Ids
        PROVE  \/ seqs'[i] = None
               \/ /\ b.seqs[i] # None /\ seqs'[i] \in Sequence /\ seqs'[i].inputs # <<>>
                  /\ seqs'[i].slot = seqs[i].slot
                  /\ Sampling(b, i) => out[i] \in Tokens
    <3>1. seqs'[i] = (IF ~Sampling(b, i) THEN b.seqs[i]
                      ELSE IF out[i] \in Tokens
                      THEN [b.seqs[i] EXCEPT !.inputs = <<out[i]>>,
                                             !.numPredicted = b.seqs[i].numPredicted + 1]
                      ELSE None)
      BY <2>2 DEF Sampled
    <3>2. CASE ~Sampling(b, i)
      BY <2>4, <3>1, <3>2 DEF Sampling
    <3>3. CASE Sampling(b, i) /\ out[i] \in Tokens
      <4>1. b.seqs[i] # None
        BY <3>3 DEF Sampling
      <4>2. ASSUME NEW x \in Sequence, x.numPredicted + 1 \in 0..NumPredict, NEW t \in Tokens,
                   NEW y, y = [x EXCEPT !.inputs = <<t>>, !.numPredicted = x.numPredicted + 1]
            PROVE  y \in Sequence /\ y.inputs = <<t>> /\ y.inputs # <<>> /\ y.slot = x.slot
        <5>1. /\ x = [slot |-> x.slot, inputs |-> x.inputs, numKeep |-> x.numKeep,
                      numPredicted |-> x.numPredicted]
              /\ x.slot \in Slots /\ x.numKeep \in NumKeeps
          BY DEF Sequence
        <5>2. y = [slot |-> x.slot, inputs |-> <<t>>, numKeep |-> x.numKeep,
                   numPredicted |-> x.numPredicted + 1]
          <6>. HIDE DEF Sequence
          <6> QED BY <4>2, <5>1
        <5>3. <<t>> \in Seq(Tokens) /\ <<t>> # <<>>
          OBVIOUS
        <5>4. y.inputs = <<t>> /\ y.slot = x.slot
          BY <5>2
        <5> QED BY <4>2, <5>1, <5>2, <5>3, <5>4 DEF Sequence
      <4>3. /\ seqs'[i] = [b.seqs[i] EXCEPT !.inputs = <<out[i]>>,
                                            !.numPredicted = b.seqs[i].numPredicted + 1]
            /\ b.seqs[i] \in Sequence /\ b.seqs[i].slot = seqs[i].slot
            /\ b.seqs[i].numPredicted + 1 \in 0..NumPredict
        BY <2>4, <3>1, <3>3, <4>1
      <4>. HIDE DEF Sequence
      <4>4. seqs'[i] \in Sequence /\ seqs'[i].inputs # <<>> /\ seqs'[i].slot = b.seqs[i].slot
        <5>1. PICK x, t, y : x = b.seqs[i] /\ t = out[i] /\ y = seqs'[i]
          OBVIOUS
        <5>2. /\ x \in Sequence /\ x.numPredicted + 1 \in 0..NumPredict /\ t \in Tokens
              /\ y = [x EXCEPT !.inputs = <<t>>, !.numPredicted = x.numPredicted + 1]
          BY <3>3, <4>3, <5>1
        <5>3. y \in Sequence /\ y.inputs = <<t>> /\ y.inputs # <<>> /\ y.slot = x.slot
          BY <4>2, <5>2
        <5> QED BY <5>1, <5>3
      <4> QED BY <3>3, <4>1, <4>3, <4>4
    <3>4. CASE Sampling(b, i) /\ out[i] \notin Tokens
      BY <3>1, <3>4
    <3> QED BY <3>2, <3>3, <3>4
  <2>6. SeqsInv'
    <3>1. seqs' \in [Ids -> Sequence \cup {None}]
      <4>1. seqs' = [i \in Ids |-> seqs'[i]]
        BY <2>2 DEF Sampled
      <4>2. \A i \in Ids : seqs'[i] \in Sequence \cup {None}
        BY <2>5
      <4>. HIDE DEF Sequence
      <4> QED BY <4>1, <4>2
    <3>2. ASSUME NEW i \in Ids, NEW j \in Ids, seqs'[i] # None, seqs'[j] # None,
                 seqs'[i].slot = seqs'[j].slot
          PROVE  i = j
      BY <1>4, <2>4, <2>5, <3>2 DEF SeqsInv
    <3>3. \A i \in Ids : seqs'[i] # None => seqs'[i].inputs # <<>>
      BY <2>5
    <3> QED BY <3>1, <3>2, <3>3 DEF SeqsInv
  <2>7. ASSUME NEW s \in Slots
        PROVE  \/ Inputs'[s] = b.Inputs[s]
               \/ \E n \in 0..Len(b.Inputs[s]) : Inputs'[s] = SubSeq(b.Inputs[s], 1, n) /\ ~InUse(s)'
    <3>. DEFINE ending == {i \in Ids : Sampling(b, i) /\ b.seqs[i].slot = s /\ out[i] \notin Tokens}
                e == CHOOSE i \in ending : TRUE
    <3>1. Inputs'[s] = IF ending = {} THEN b.Inputs[s]
                       ELSE SubSeq(b.Inputs[s], 1, Len(b.Inputs[s]) - out[e])
      BY <2>2 DEF Truncated
    <3>2. CASE ending = {}
      BY <3>1, <3>2
    <3>3. CASE ending # {}
      <4>1. e \in ending
        BY <3>3
      <4>2. /\ e \in Ids /\ Sampling(b, e) /\ b.seqs[e].slot = s /\ out[e] \notin Tokens
            /\ b.seqs[e] # None
        BY <4>1 DEF Sampling
      <4>. HIDE DEF e, ending
      <4>3. out[e] \in 0..b.seqs[e].numPredicted /\ out[e] <= Len(b.Inputs[s])
        BY <2>2, <4>2 DEF Possible, InputCacheAssumption
      <4>4. b.Inputs[s] \in Seq(Tokens)
        BY <2>1 DEF Ready
      <4>5. Len(b.Inputs[s]) - out[e] \in 0..Len(b.Inputs[s])
        <5>1. Len(b.Inputs[s]) \in Nat
          BY <4>4
        <5>2. b.seqs[e].numPredicted \in Nat
          BY <2>4, <4>2 DEF Sequence, InputCacheAssumption
        <5> QED BY <4>3, <5>1, <5>2
      <4>6. ASSUME InUse(s)' PROVE FALSE
        <5>1. PICK i \in Ids : seqs'[i] # None /\ seqs'[i].slot = s
          BY <4>6 DEF InUse
        <5>2. /\ b.seqs[i] # None /\ seqs[i] # None /\ seqs[i].slot = s
              /\ Sampling(b, i) => out[i] \in Tokens
          BY <2>4, <2>5, <5>1
        <5>3. seqs[e] # None /\ seqs[e].slot = s
          BY <2>4, <4>2
        <5>4. i = e
          BY <1>4, <4>2, <5>2, <5>3 DEF SeqsInv
        <5> QED BY <4>2, <5>2, <5>4
      <4> QED BY <3>1, <3>3, <4>5, <4>6
    <3> QED BY <3>2, <3>3
  <2>8. \A s \in Slots : b.Inputs[s] \in Seq(Tokens) /\ Len(b.Inputs[s]) <= numCtx
    BY <2>1 DEF Ready
  <2>9. ASSUME NEW s \in Slots
        PROVE  /\ Inputs'[s] \in Seq(Tokens) /\ Len(Inputs'[s]) <= numCtx
               /\ Holds(kv', s, Inputs'[s]) /\ (~kv'.merged => Follows(kv', s, Inputs'[s]))
               /\ InUse(s)' => EndsAt(kv', s, Len(Inputs'[s]))
    <3>1. PICK g : g = b.Inputs[s]
      OBVIOUS
    <3>2. /\ g \in Seq(Tokens) /\ Len(g) <= numCtx /\ Len(g) \in Nat
          /\ Holds(kv', s, g) /\ (~kv'.merged => Follows(kv', s, g))
          /\ InUse(s) => EndsAt(kv', s, Len(g))
      BY <2>3, <2>8, <3>1 DEF HeldIn
    <3>3. CASE Inputs'[s] = g
      <4>1. InUse(s)' => InUse(s)
        BY <2>4, <2>5 DEF InUse
      <4> QED BY <3>2, <3>3, <4>1
    <3>4. CASE \E n \in 0..Len(g) : Inputs'[s] = SubSeq(g, 1, n) /\ ~InUse(s)'
      <4>1. PICK n \in 0..Len(g) : Inputs'[s] = SubSeq(g, 1, n) /\ ~InUse(s)'
        BY <3>4
      <4>2. \A l \in LocsOf(kv'.cells, s) : kv'.cells[l].pos \in Nat
        BY <2>3, Positions
      <4>. DEFINE c == SubSeq(g, 1, n)
      <4>3. /\ c \in Seq(Tokens) /\ Len(c) = n
            /\ Holds(kv', s, g) => Holds(kv', s, c)
            /\ Follows(kv', s, g) => Follows(kv', s, c)
        BY <3>2, <4>2, Cut
      <4>4. n <= numCtx
        BY <3>2, Sizes
      <4>. HIDE DEF c
      <4>5. Inputs'[s] = c
        BY <4>1 DEF c
      <4> QED BY <3>2, <4>1, <4>3, <4>4, <4>5
    <3> QED BY <2>7, <3>1, <3>3, <3>4
  <2>10. SlotsInv'
    <3>1. Inputs' \in [Slots -> Seq(Tokens)]
      <4>1. Inputs' = [s \in Slots |-> Inputs'[s]]
        BY <2>2 DEF Truncated
      <4> QED BY <2>9, <4>1
    <3> QED BY <1>3, <1>4, <2>9, <3>1 DEF SlotsInv
  <2>11. CacheInv'
    BY <2>3, <2>9 DEF CacheInv, HeldIn
  <2> QED BY <1>3, <1>4, <1>8, <2>6, <2>10, <2>11 DEF IInv
<1> QED BY <1>1, <1>6, <1>7, <1>8

(* countCommonPrefix: so many inputs agree.                                *)
LEMMA CommonPrefix ==
  ASSUME NEW s \in Seq(Tokens), NEW t \in Seq(Tokens)
  PROVE  LET n == countCommonPrefix(s, t) IN
         /\ n \in 0..Len(s) /\ n \in 0..Len(t) /\ n \in Nat
         /\ \A i \in 1..n : s[i] = t[i]
<1>. DEFINE C == {n \in 1..Len(s) : n <= Len(t) /\ SubSeq(s, 1, n) = SubSeq(t, 1, n)}
<1>1. countCommonPrefix(s, t) = Cardinality(C)
  BY DEF countCommonPrefix
<1>2. Len(s) \in Nat /\ Len(t) \in Nat
  OBVIOUS
<1>3. CASE C = {}
  <2>1. Cardinality(C) = 0
    BY <1>3, FS_EmptySet
  <2>2. countCommonPrefix(s, t) = 0 /\ \A i \in 1..0 : FALSE
    BY <1>1, <2>1
  <2> QED BY <1>2, <2>2
<1>4. CASE C # {}
  <2>1. C \in SUBSET Nat /\ \A n \in C : n <= Len(s)
    BY <1>2
  <2>2. PICK g \in C : \A n \in C : n <= g
    <3>. HIDE DEF C
    <3> QED BY <1>2, <1>4, <2>1, Greatest
  <2>3. g \in 1..Len(s) /\ g <= Len(t) /\ SubSeq(s, 1, g) = SubSeq(t, 1, g) /\ g \in Nat
    BY <1>2
  <2>4. \A i \in 1..g : s[i] = t[i]
    <3>1. g \in 0..Len(s) /\ g \in 0..Len(t)
      BY <1>2, <2>3
    <3>2. \A i \in 1..g : SubSeq(s, 1, g)[i] = s[i]
      BY <3>1, Prefix
    <3>3. \A i \in 1..g : SubSeq(t, 1, g)[i] = t[i]
      BY <3>1, Prefix
    <3> QED BY <2>3, <3>2, <3>3
  <2>5. ASSUME NEW n \in 1..g PROVE n \in C
    <3>1. n \in 1..Len(s) /\ n <= Len(t) /\ n \in 0..Len(s) /\ n \in 0..Len(t)
      BY <1>2, <2>3
    <3>. DEFINE x == SubSeq(s, 1, n)
                y == SubSeq(t, 1, n)
    <3>2. x \in Seq(Tokens) /\ Len(x) = n /\ \A i \in 1..n : x[i] = s[i]
      BY <3>1, Prefix
    <3>3. y \in Seq(Tokens) /\ Len(y) = n /\ \A i \in 1..n : y[i] = t[i]
      BY <3>1, Prefix
    <3>4. \A i \in 1..n : i \in 1..g
      BY <2>3
    <3>. HIDE DEF x, y
    <3>5. x = y
      BY <3>2, <3>3, <3>4, <2>4
    <3> QED BY <3>1, <3>5 DEF x, y
  <2>6. C = 1..g
    <3>1. \A n \in C : n \in 1..g
      <4>1. \A n \in C : n \in Nat /\ 1 <= n
        BY <1>2
      <4>. HIDE DEF C
      <4> QED BY <2>2, <2>3, <4>1
    <3>. HIDE DEF C
    <3> QED BY <2>5, <3>1
  <2>7. Cardinality(C) = g
    <3>1. 1 \in Int /\ g \in Int /\ ~(1 > g) /\ g - 1 + 1 = g
      BY <1>2, <2>3
    <3>2. Cardinality(1..g) = g
      BY <3>1, FS_Interval
    <3> QED BY <2>6, <3>2
  <2>8. g \in 0..Len(s) /\ g \in 0..Len(t)
    BY <1>2, <2>3
  <2> QED BY <1>1, <2>3, <2>4, <2>7, <2>8
<1> QED BY <1>3, <1>4

(* The slot that holds most of the prompt is one of those looked at.       *)
LEMMA LongestIsOne ==
  ASSUME CausalAssumption, InputCacheAssumption, Inputs \in [Slots -> Seq(Tokens)],
         NEW S \in SUBSET Slots, S # {}, NEW prompt \in Seq(Tokens)
  PROVE  Longest(S, prompt) \in S
<1>. DEFINE count(s) == countCommonPrefix(Inputs[s], prompt)
            counts == {count(s) : s \in S}
            best == {s \in S : \A t \in S : count(s) >= count(t)}
<1>1. \A s \in S : count(s) \in Nat /\ count(s) <= Len(prompt)
  <2> SUFFICES ASSUME NEW s \in S PROVE count(s) \in Nat /\ count(s) <= Len(prompt)
    OBVIOUS
  <2>1. count(s) \in Nat /\ count(s) \in 0..Len(prompt) /\ Len(prompt) \in Nat
    <3>1. PICK g \in Seq(Tokens) : g = Inputs[s]
      OBVIOUS
    <3>2. countCommonPrefix(g, prompt) \in Nat /\ countCommonPrefix(g, prompt) \in 0..Len(prompt)
      BY CommonPrefix
    <3> QED BY <3>1, <3>2
  <2>. HIDE DEF count
  <2> QED BY <2>1
<1>. HIDE DEF count
<1>2. PICK c \in counts : \A d \in counts : d <= c
  <2>1. counts \in SUBSET Nat /\ counts # {} /\ \A d \in counts : d <= Len(prompt)
    <3>1. counts # {}
      <4>1. PICK s \in S : TRUE
        OBVIOUS
      <4>2. count(s) \in counts
        OBVIOUS
      <4> QED BY <4>2
    <3>2. ASSUME NEW d \in counts PROVE d \in Nat /\ d <= Len(prompt)
      <4>1. PICK s \in S : d = count(s)
        OBVIOUS
      <4> QED BY <4>1, <1>1
    <3>. HIDE DEF counts
    <3> QED BY <3>1, <3>2
  <2>2. Len(prompt) \in Nat
    OBVIOUS
  <2>. HIDE DEF counts
  <2> QED BY <2>1, <2>2, Greatest
<1>3. PICK s \in S : c = count(s)
  OBVIOUS
<1>4. s \in best
  <2>1. \A t \in S : count(s) >= count(t)
    BY <1>1, <1>2, <1>3
  <2> QED BY <2>1
<1>5. best \in SUBSET Locs
  <2>1. Slots \in SUBSET Locs
    <3>1. /\ numSlots \in Nat /\ numCtx \in Nat \ {0} /\ Capacity \in Nat
          /\ numSlots * numCtx <= Capacity /\ Slots = 0..numSlots - 1
      BY Sizes
    <3>2. \A x \in Nat, y \in Nat \ {0} : x <= x * y /\ x * y \in Nat
      OBVIOUS
    <3>3. numSlots <= numSlots * numCtx /\ numSlots * numCtx \in Nat
      BY <3>1, <3>2
    <3>4. numSlots <= Capacity
      <4>1. PICK y : y = numSlots * numCtx
        OBVIOUS
      <4>2. numSlots <= y /\ y \in Nat /\ y <= Capacity
        BY <3>1, <3>3, <4>1
      <4>3. numSlots \in Nat /\ Capacity \in Nat
        BY <3>1
      <4> QED BY ONLY <4>2, <4>3
    <3> QED BY <3>1, <3>4 DEF Locs
  <2> QED BY <2>1
<1>6. Longest(S, prompt) = Covering(best).min
  BY DEF Longest, count
<1>. HIDE DEF best
<1>7. Covering(best).min \in best
  BY <1>4, <1>5, CoversIt
<1> QED BY <1>6, <1>7 DEF best

(* A request waits for a place among the running; then there is a slot.    *)
LEMMA FreeSlot ==
  ASSUME CausalAssumption, InputCacheAssumption, NEW i \in Ids, seqs[i] = None
  PROVE  \E s \in Slots : ~InUse(s)
<1>1. SUFFICES ASSUME \A s \in Slots : InUse(s) PROVE FALSE
  OBVIOUS
<1>2. /\ numSlots \in Nat \ {0} /\ IsFiniteSet(Slots) /\ Cardinality(Slots) = numSlots
  BY Sizes DEF numSlots
<1>3. IsFiniteSet(Ids) /\ Cardinality(Ids) = numSlots
  <2>1. 1 \in Int /\ numSlots \in Int /\ ~(1 > numSlots) /\ numSlots - 1 + 1 = numSlots
    BY <1>2
  <2>. HIDE DEF numSlots
  <2> QED BY <2>1, FS_Interval DEF Ids
<1>. DEFINE T == Ids \ {i}
            f == [s \in Slots |-> CHOOSE j \in Ids : seqs[j] # None /\ seqs[j].slot = s]
<1>4. IsFiniteSet(T) /\ Cardinality(T) = numSlots - 1
  BY <1>3, FS_RemoveElement
<1>5. \A s \in Slots : f[s] \in Ids /\ seqs[f[s]] # None /\ seqs[f[s]].slot = s
  BY <1>1 DEF InUse
<1>6. f \in [Slots -> T]
  <2>1. \A s \in Slots : f[s] \in T
    BY <1>5
  <2>2. f = [s \in Slots |-> f[s]]
    OBVIOUS
  <2>. HIDE DEF f, T
  <2> QED BY <2>1, <2>2
<1>. HIDE DEF f, T, numSlots
<1>7. \E s, t \in Slots : s # t /\ f[s] = f[t]
  <2>1. ASSUME NEW S, NEW R, NEW g \in [S -> R], IsFiniteSet(S), IsFiniteSet(R),
               Cardinality(R) < Cardinality(S)
        PROVE  \E x, y \in S : x # y /\ g[x] = g[y]
    BY <2>1, FS_PigeonHole
  <2>2. Cardinality(T) < Cardinality(Slots)
    BY <1>2, <1>4
  <2> QED BY <1>2, <1>4, <1>6, <2>1, <2>2
<1> QED BY <1>5, <1>7

(* The oldest slot that is not in use is one of those.                     *)
LEMMA OldestIsFree ==
  ASSUME CausalAssumption, InputCacheAssumption, SlotsInv, NEW i \in Ids, seqs[i] = None
  PROVE  Oldest \in Slots /\ ~InUse(Oldest)
<1>. DEFINE F == {j \in Ids : ~InUse(lastUsed[j])}
            good(j) == ~InUse(lastUsed[j]) /\ \A k \in 1..j - 1 : InUse(lastUsed[k])
            o == CHOOSE j \in Ids : good(j)
<1>1. F # {} /\ F \in SUBSET Nat
  BY FreeSlot DEF SlotsInv, Ids
<1>2. PICK j \in F : \A k \in F : j <= k
  <2>. HIDE DEF F
  <2> QED BY <1>1, Least
<1>3. good(j)
  <2>1. ASSUME NEW k \in 1..j - 1, ~InUse(lastUsed[k]) PROVE FALSE
    <3>1. k \in Ids /\ k < j /\ k \in Nat /\ j \in Nat
      BY Sizes DEF Ids
    <3>2. k \in F
      BY <2>1, <3>1
    <3>3. j <= k
      BY <1>2, <3>2
    <3> QED BY ONLY <3>1, <3>3
  <2> QED BY <2>1
<1>4. o \in Ids /\ good(o)
  <2>. HIDE DEF good
  <2> QED BY <1>3
<1>5. Oldest = lastUsed[o]
  BY DEF Oldest
<1>. HIDE DEF o
<1> QED BY <1>4, <1>5 DEF SlotsInv

(* The slot a request is given is free, and the slot it forks from holds   *)
(* the first numPast inputs of the prompt.                                 *)
IsFound(found, prompt) ==
    /\ found.slot \in Slots /\ ~InUse(found.slot) /\ found.fork \in Slots
    /\ found.numPast \in 0..Len(Inputs[found.fork]) /\ found.numPast \in 0..Len(prompt)
    /\ \A i \in 1..found.numPast : Inputs[found.fork][i] = prompt[i]

(* What the two searches for a slot return.                                *)
LEMMA Found ==
  ASSUME CausalAssumption, InputCacheAssumption, SlotsInv, NEW i \in Ids, seqs[i] = None,
         NEW prompt \in Seq(Tokens)
  PROVE  IsFound(findBestCacheSlot(prompt), prompt) /\ IsFound(findLongestCacheSlot(prompt), prompt)
<1>1. Inputs \in [Slots -> Seq(Tokens)]
  BY DEF SlotsInv
<1>2. ASSUME NEW s \in Slots, NEW t \in Slots, ~InUse(t), NEW x,
             x = [slot |-> t, numPast |-> countCommonPrefix(Inputs[s], prompt), fork |-> s]
      PROVE  IsFound(x, prompt)
  <2>. DEFINE g == Inputs[s]
              n == countCommonPrefix(g, prompt)
  <2>1. /\ n \in 0..Len(g) /\ n \in 0..Len(prompt)
        /\ \A j \in 1..n : g[j] = prompt[j]
    <3>1. g \in Seq(Tokens)
      BY <1>1
    <3>. HIDE DEF g
    <3> QED BY <3>1, CommonPrefix
  <2>2. x.slot = t /\ x.fork = s /\ x.numPast = n
    BY <1>2
  <2>. HIDE DEF n
  <2> QED BY <1>2, <2>1, <2>2 DEF IsFound
<1>3. IsFound(findLongestCacheSlot(prompt), prompt)
  <2>. DEFINE S == {t \in Slots : ~InUse(t)}
              s == Longest(S, prompt)
  <2>1. S \in SUBSET Slots /\ S # {}
    BY FreeSlot
  <2>2. s \in S
    <3>. HIDE DEF S
    <3> QED BY <1>1, <2>1, LongestIsOne
  <2>3. findLongestCacheSlot(prompt) =
          [slot |-> s, numPast |-> countCommonPrefix(Inputs[s], prompt), fork |-> s]
    BY DEF findLongestCacheSlot
  <2>4. s \in Slots /\ ~InUse(s)
    BY <2>2
  <2>. HIDE DEF s
  <2> QED BY <1>2, <2>3, <2>4
<1>4. IsFound(findBestCacheSlot(prompt), prompt)
  <2>. DEFINE s == Longest(Slots, prompt)
              t == IF countCommonPrefix(Inputs[s], prompt) = Len(Inputs[s]) /\ ~InUse(s)
                   THEN s ELSE Oldest
  <2>1. s \in Slots
    BY <1>1, LongestIsOne DEF InputCacheAssumption
  <2>2. t \in Slots /\ ~InUse(t)
    BY <2>1, OldestIsFree
  <2>3. findBestCacheSlot(prompt) =
          [slot |-> t, numPast |-> countCommonPrefix(Inputs[s], prompt), fork |-> s]
    BY DEF findBestCacheSlot
  <2>. HIDE DEF s, t
  <2> QED BY <1>2, <2>1, <2>2, <2>3
<1> QED BY <1>3, <1>4

(* The slot that is used is moved to the end of the list.                  *)
LEMMA UsedLast ==
  ASSUME CausalAssumption, InputCacheAssumption, SlotsInv, NEW s \in Slots
  PROVE  UsedNow(s) \in [Ids -> Slots] /\ \A t \in Slots : \E i \in Ids : UsedNow(s)[i] = t
<1>. DEFINE p == CHOOSE i \in Ids : lastUsed[i] = s
            u == UsedNow(s)
<1>1. p \in Ids /\ lastUsed[p] = s /\ lastUsed \in [Ids -> Slots]
  BY DEF SlotsInv
<1>2. u = [i \in Ids |-> IF i < p THEN lastUsed[i]
                         ELSE IF i < numSlots THEN lastUsed[i + 1] ELSE s]
  BY DEF UsedNow
<1>. HIDE DEF p, u
<1>3. numSlots \in Nat \ {0} /\ Ids = 1..numSlots /\ p \in Nat
  BY <1>1, Sizes DEF Ids
<1>. HIDE DEF numSlots
<1>4. \A i \in Ids : i < numSlots => i + 1 \in Ids
  BY <1>3
<1>5. u \in [Ids -> Slots]
  BY <1>1, <1>2, <1>4
<1>6. ASSUME NEW t \in Slots PROVE \E i \in Ids : u[i] = t
  <2>1. CASE t = s
    <3>1. numSlots \in Ids /\ ~(numSlots < p) /\ ~(numSlots < numSlots)
      BY <1>1, <1>3
    <3>2. u[numSlots] = s
      BY <1>2, <3>1
    <3> QED BY <2>1, <3>1, <3>2
  <2>2. CASE t # s
    <3>1. PICK j \in Ids : lastUsed[j] = t
      BY DEF SlotsInv
    <3>2. CASE j < p
      BY <1>2, <3>1, <3>2
    <3>3. CASE ~(j < p)
      <4>1. j # p
        BY <1>1, <2>2, <3>1
      <4>2. j - 1 \in Ids /\ ~(j - 1 < p) /\ j - 1 < numSlots /\ j - 1 + 1 = j
        BY <1>1, <1>3, <3>3, <4>1
      <4>3. u[j - 1] = lastUsed[j - 1 + 1]
        BY <1>2, <4>2
      <4> QED BY <3>1, <4>2, <4>3
    <3> QED BY <3>2, <3>3
  <2> QED BY <2>1, <2>2
<1> QED BY <1>5, <1>6 DEF u

(* What is kept of the prompt leaves an input to sample from.              *)
LEMMA KeptPart ==
  ASSUME NEW prompt \in Seq(Tokens), prompt # <<>>, NEW c \in BOOLEAN,
         NEW found, found.numPast \in 0..Len(prompt)
  PROVE  LET n == Kept(found, prompt, c) IN
         n \in 0..found.numPast /\ n \in 0..Len(prompt) - 1 /\ n \in Nat
<1>. DEFINE m == IF c THEN found.numPast ELSE 0
<1>1. Len(prompt) \in Nat /\ Len(prompt) # 0
  OBVIOUS
<1>2. m \in 0..found.numPast /\ m \in 0..Len(prompt) /\ found.numPast \in Nat
  BY <1>1
<1>3. Kept(found, prompt, c) = IF m = Len(prompt) THEN m - 1 ELSE m
  BY DEF Kept
<1>. HIDE DEF m
<1>4. m = Len(prompt) => m - 1 \in 0..found.numPast /\ m - 1 \in 0..Len(prompt) - 1 /\ m - 1 \in Nat
  BY <1>1, <1>2
<1>5. m # Len(prompt) => m \in 0..found.numPast /\ m \in 0..Len(prompt) - 1 /\ m \in Nat
  BY <1>1, <1>2
<1> QED BY <1>3, <1>4, <1>5

(* After the fork the slot holds what is kept of the prompt.               *)
LEMMA ForkHolds ==
  ASSUME CausalAssumption, InputCacheAssumption, IInv,
         NEW prompt \in Seq(Tokens), NEW found, IsFound(found, prompt),
         NEW n \in 0..found.numPast, n \in 0..Len(prompt)
  PROVE  LET k == Forked(found)
             c == SubSeq(prompt, 1, n)
         IN /\ Sound(k) /\ k.merged = kv.merged
            /\ \A t \in Slots \ {found.slot} : SameFor(kv, k, t)
            /\ Holds(k, found.slot, c) /\ (~k.merged => Follows(k, found.slot, c))
<1>. DEFINE s == found.slot
            g == Inputs[found.fork]
            m == found.numPast
            c == SubSeq(prompt, 1, n)
            d == SubSeq(g, 1, n)
<1>1. /\ s \in Slots /\ found.fork \in Slots /\ g \in Seq(Tokens)
      /\ m \in 0..Len(g) /\ m \in 0..Len(prompt) /\ \A i \in 1..m : g[i] = prompt[i]
      /\ Len(g) \in Nat /\ m \in Nat /\ n \in Nat /\ n <= m /\ n \in 0..Len(g)
  <2>1. g \in Seq(Tokens)
    BY DEF IsFound, IInv, SlotsInv
  <2>2. m \in 0..Len(g) /\ Len(g) \in Nat
    BY <2>1 DEF IsFound
  <2>3. m \in Nat /\ n \in Nat /\ n <= m /\ n \in 0..Len(g)
    BY <2>2
  <2> QED BY <2>1, <2>2, <2>3 DEF IsFound
<1>. HIDE DEF m
<1>2. c = d
  <2>1. d \in Seq(Tokens) /\ Len(d) = n /\ \A i \in 1..n : d[i] = g[i]
    <3>. HIDE DEF g
    <3> QED BY <1>1, Prefix
  <2>2. c \in Seq(Tokens) /\ Len(c) = n /\ \A i \in 1..n : c[i] = prompt[i]
    BY Prefix
  <2>3. \A i \in 1..n : i \in 1..m
    BY <1>1
  <2>. HIDE DEF c, d, g
  <2>4. \A i \in 1..n : c[i] = d[i]
    <3>1. \A i \in 1..m : g[i] = prompt[i]
      BY <1>1
    <3> QED BY <2>1, <2>2, <2>3, <3>1
  <2> QED BY <2>1, <2>2, <2>4
<1>3. Sound(kv) /\ HeldIn(kv, found.fork, g)
  BY <1>1 DEF IInv, CacheInv
<1>4. /\ d \in Seq(Tokens) /\ Len(d) = n
      /\ Holds(kv, found.fork, d) /\ (~kv.merged => Follows(kv, found.fork, d))
  <2>1. \A l \in LocsOf(kv.cells, found.fork) : kv.cells[l].pos \in Nat
    BY <1>3, Positions
  <2>2. PICK x : x = found.fork
    OBVIOUS
  <2>3. HeldIn(kv, x, g)
    BY <1>3, <2>2
  <2>. HIDE DEF g
  <2>4. /\ d \in Seq(Tokens) /\ Len(d) = n
        /\ Holds(kv, x, g) => Holds(kv, x, d)
        /\ Follows(kv, x, g) => Follows(kv, x, d)
    BY <1>1, <2>1, <2>2, Cut
  <2>. HIDE DEF d
  <2> QED BY <2>2, <2>3, <2>4 DEF HeldIn
<1>. HIDE DEF c, d, g
<1>5. CASE m > 0 /\ found.fork # s
  <2>. DEFINE k == CopyPrefix(kv, found.fork, s, m)
  <2>1. Forked(found) = k
    BY <1>5 DEF Forked, m
  <2>2. /\ Sound(k) /\ k.merged = kv.merged
        /\ \A t \in Slots \ {s} : SameFor(kv, k, t)
        /\ LocsOf(k.cells, s) = {l \in LocsOf(kv.cells, found.fork) : kv.cells[l].pos < m}
        /\ \A l \in LocsOf(k.cells, s) :
              k.cells[l].pos = kv.cells[l].pos /\ k.data[l] = kv.data[l]
    <3>1. IsCopied(kv, k, found.fork, s, m)
      BY <1>1, <1>3, <1>5, Copied
    <3>. HIDE DEF k, s
    <3> QED BY <3>1 DEF IsCopied
  <2>. HIDE DEF k, s
  <2>3. Holds(k, s, c)
    <3>1. \A p \in 0..n - 1 : p < m
      BY <1>1
    <3>2. ASSUME NEW p \in 0..n - 1 PROVE \E l \in LocsOf(k.cells, s) : k.cells[l].pos = p
      <4>1. PICK l \in LocsOf(kv.cells, found.fork) : kv.cells[l].pos = p
        BY <1>4 DEF Holds
      <4>2. l \in LocsOf(k.cells, s)
        BY <2>2, <3>1, <4>1
      <4> QED BY <2>2, <4>1, <4>2
    <3> QED BY <1>2, <1>4, <3>2 DEF Holds
  <2>4. ~k.merged => Follows(k, s, c)
    BY <1>2, <1>4, <2>2 DEF Follows
  <2> QED BY <2>1, <2>2, <2>3, <2>4 DEF c, s
<1>6. CASE ~(m > 0 /\ found.fork # s)
  <2>1. Forked(found) = kv
    BY <1>6 DEF Forked, m
  <2>2. \A t \in Slots : SameFor(kv, kv, t)
    BY DEF SameFor
  <2>3. CASE found.fork = s
    BY <1>2, <1>3, <1>4, <2>1, <2>2, <2>3 DEF c
  <2>4. CASE m = 0
    <3>1. n = 0 /\ Len(c) = 0
      BY <1>1, <1>2, <1>4, <2>4
    <3>2. Holds(kv, s, c)
      BY <3>1 DEF Holds
    <3>3. Follows(kv, s, c)
      <4>1. \A l \in LocsOf(kv.cells, s) : ~(kv.cells[l].pos < 0)
        BY <1>3, Positions
      <4> QED BY <3>1, <4>1 DEF Follows
    <3> QED BY <1>3, <2>1, <2>2, <3>2, <3>3 DEF c
  <2> QED BY <1>1, <1>6, <2>3, <2>4
<1> QED BY <1>5, <1>6

(* What is behind n goes.                                                  *)
LEMMA CutOff ==
  ASSUME CausalAssumption, InputCacheAssumption, NEW k, Sound(k), NEW s \in Slots,
         NEW n \in Nat, n <= numCtx, NEW c \in Seq(Tokens), Len(c) = n,
         Holds(k, s, c), ~k.merged => Follows(k, s, c)
  PROVE  LET r == RemoveTokens(k, s, n, MaxInt) IN
         /\ Sound(r) /\ r.merged = k.merged
         /\ \A t \in Slots \ {s} : SameFor(k, r, t)
         /\ HeldIn(r, s, c) /\ EndsAt(r, s, n)
<1>. DEFINE r == RemoveTokens(k, s, n, MaxInt)
<1>1. MaxInt \in Nat /\ n <= MaxInt /\ numCtx <= MaxInt /\ numCtx \in Nat
  BY Sizes
<1>2. \A l \in LocsOf(k.cells, s) :
        k.cells[l].pos \in Nat /\ k.cells[l].pos < numCtx /\ ~(k.cells[l].pos >= MaxInt)
  <2>1. \A l \in LocsOf(k.cells, s) : k.cells[l].pos \in Nat /\ k.cells[l].pos < numCtx
    BY Positions
  <2>. HIDE DEF numCtx
  <2> QED BY <1>1, <2>1
<1>3. ~RemoveFails(k, s, MaxInt)
  BY <1>2 DEF RemoveFails, Behind
<1>4. IsRemoved(k, r, s, n, MaxInt)
  BY <1>1, <1>3, Removed
<1>. HIDE DEF r
<1>5. /\ LocsOf(r.cells, s) = {l \in LocsOf(k.cells, s) : k.cells[l].pos < n}
      /\ \A l \in LocsOf(r.cells, s) :
            r.cells[l].pos = k.cells[l].pos /\ r.data[l] = k.data[l]
  <2>1. LocsOf(r.cells, s) =
          {l \in LocsOf(k.cells, s) : k.cells[l].pos < n \/ k.cells[l].pos >= MaxInt}
    BY <1>4 DEF IsRemoved
  <2>2. LocsOf(r.cells, s) = {l \in LocsOf(k.cells, s) : k.cells[l].pos < n}
    BY <1>2, <2>1
  <2> QED BY <1>2, <1>4, <2>2 DEF IsRemoved
<1>6. Holds(r, s, c)
  <2>1. \A p \in 0..Len(c) - 1 : p < n
    OBVIOUS
  <2>2. ASSUME NEW p \in 0..Len(c) - 1 PROVE \E l \in LocsOf(r.cells, s) : r.cells[l].pos = p
    <3>1. PICK l \in LocsOf(k.cells, s) : k.cells[l].pos = p
      BY DEF Holds
    <3>2. l \in LocsOf(r.cells, s)
      BY <1>5, <2>1, <3>1
    <3> QED BY <1>5, <3>1, <3>2
  <2> QED BY <2>2 DEF Holds
<1>7. /\ Sound(r) /\ r.merged = k.merged
      /\ \A t \in Slots \ {s} : SameFor(k, r, t)
  BY <1>4 DEF IsRemoved
<1>8. ~r.merged => Follows(r, s, c)
  BY <1>5, <1>7 DEF Follows
<1>9. EndsAt(r, s, n)
  BY <1>5 DEF EndsAt
<1> QED BY <1>6, <1>7, <1>8, <1>9 DEF HeldIn, r

(* A request keeps the invariant.                                          *)
LEMMA CompletionKeeps ==
  ASSUME CausalAssumption, InputCacheAssumption, IInv,
         NEW prompt \in Prompts, NEW cachePrompt \in CachePrompts, NEW numKeep \in NumKeeps,
         completion(prompt, cachePrompt, numKeep)
  PROVE  IInv'
<1>1. PICK i, found, n :
        /\ i \in Ids /\ seqs[i] = None
        /\ found = (IF multiUserCache THEN findBestCacheSlot(prompt)
                    ELSE findLongestCacheSlot(prompt))
        /\ n = Kept(found, prompt, cachePrompt)
        /\ kv' = RemoveTokens(Forked(found), found.slot, n, MaxInt)
        /\ Inputs' = [Inputs EXCEPT ![found.slot] = SubSeq(prompt, 1, n)]
        /\ lastUsed' = UsedNow(found.slot)
        /\ seqs' = [seqs EXCEPT ![i] =
              [slot |-> found.slot, inputs |-> SubSeq(prompt, n + 1, Len(prompt)),
               numKeep |-> numKeep, numPredicted |-> 0]]
  BY DEF completion
<1>2. UNCHANGED <<multiUserCache, full, panicked>>
  BY DEF completion
<1>3. /\ multiUserCache \in BOOLEAN /\ full = FALSE /\ panicked \in BOOLEAN
      /\ SlotsInv /\ SeqsInv /\ CacheInv
  BY DEF IInv
<1>4. /\ prompt \in Seq(Tokens) /\ prompt # <<>> /\ Len(prompt) \in Nat /\ Len(prompt) <= numCtx
      /\ cachePrompt \in BOOLEAN /\ numCtx \in Nat
  <2>1. prompt \in Seq(Tokens) /\ Len(prompt) \in 1..numCtx /\ cachePrompt \in BOOLEAN
        /\ numCtx \in Nat
    BY Sizes DEF InputCacheAssumption
  <2>. HIDE DEF numCtx
  <2>2. Len(prompt) # 0 /\ Len(prompt) <= numCtx
    BY <2>1
  <2> QED BY <2>1, <2>2
<1>5. IsFound(found, prompt)
  BY <1>1, <1>3, <1>4, Found
<1>. DEFINE s == found.slot
<1>6. s \in Slots /\ ~InUse(s) /\ found.numPast \in 0..Len(prompt)
  BY <1>5 DEF IsFound
<1>7. n \in 0..found.numPast /\ n \in 0..Len(prompt) - 1 /\ n \in Nat
  BY <1>1, <1>4, <1>6, KeptPart
<1>8. n \in 0..Len(prompt) /\ n <= numCtx /\ n < Len(prompt)
  <2>. HIDE DEF numCtx
  <2> QED BY <1>4, <1>7
<1>. DEFINE c == SubSeq(prompt, 1, n)
            rest == SubSeq(prompt, n + 1, Len(prompt))
            k == Forked(found)
<1>9. /\ c \in Seq(Tokens) /\ Len(c) = n
      /\ rest \in Seq(Tokens) /\ rest # <<>>
  <2>1. /\ c \in Seq(Tokens) /\ Len(c) = n
        /\ rest \in Seq(Tokens) /\ Len(rest) = Len(prompt) - n
    BY <1>4, <1>8, Prefix
  <2>2. Len(prompt) - n # 0
    BY <1>4, <1>8
  <2>. HIDE DEF c, rest
  <2> QED BY <2>1, <2>2
<1>10. /\ Sound(k) /\ k.merged = kv.merged
       /\ \A t \in Slots \ {s} : SameFor(kv, k, t)
       /\ Holds(k, s, c) /\ (~k.merged => Follows(k, s, c))
  BY <1>4, <1>5, <1>7, <1>8, ForkHolds
<1>. HIDE DEF c, k, rest
<1>11. kv' = RemoveTokens(k, s, n, MaxInt)
  BY <1>1 DEF k
<1>. HIDE DEF s
<1>12. /\ Sound(kv') /\ kv'.merged = k.merged
       /\ \A t \in Slots \ {s} : SameFor(k, kv', t)
       /\ HeldIn(kv', s, c) /\ EndsAt(kv', s, n)
  BY <1>6, <1>7, <1>8, <1>9, <1>10, <1>11, CutOff
<1>13. /\ Inputs' \in [Slots -> Seq(Tokens)] /\ Inputs'[s] = c
       /\ \A t \in Slots \ {s} : Inputs'[t] = Inputs[t]
  <2>1. Inputs' = [Inputs EXCEPT ![s] = c] /\ Inputs \in [Slots -> Seq(Tokens)]
    BY <1>1, <1>3 DEF s, c, SlotsInv
  <2> QED BY <1>6, <1>9, <2>1
<1>14. SlotsInv'
  <2>1. lastUsed' = UsedNow(s)
    BY <1>1 DEF s
  <2>2. UsedNow(s) \in [Ids -> Slots] /\ \A t \in Slots : \E j \in Ids : UsedNow(s)[j] = t
    BY <1>3, <1>6, UsedLast
  <2>3. \A t \in Slots : Len(Inputs'[t]) <= numCtx
    BY <1>3, <1>8, <1>9, <1>13 DEF SlotsInv
  <2> QED BY <1>13, <2>1, <2>2, <2>3 DEF SlotsInv
<1>. DEFINE q == [slot |-> s, inputs |-> rest, numKeep |-> numKeep, numPredicted |-> 0]
<1>15. /\ seqs'[i] = q /\ q \in Sequence /\ q.inputs # <<>> /\ q.slot = s
       /\ \A j \in Ids \ {i} : seqs'[j] = seqs[j]
       /\ seqs' \in [Ids -> Sequence \cup {None}]
  <2>1. seqs' = [seqs EXCEPT ![i] = q] /\ seqs \in [Ids -> Sequence \cup {None}]
    BY <1>1, <1>3 DEF s, rest, SeqsInv
  <2>2. q \in Sequence /\ q.inputs # <<>> /\ q.slot = s
    BY <1>6, <1>9 DEF Sequence, InputCacheAssumption
  <2>3. i \in Ids
    BY <1>1
  <2>. HIDE DEF q, Sequence
  <2> QED BY <2>1, <2>2, <2>3
<1>. HIDE DEF q
<1>16. \A j \in Ids \ {i} : seqs[j] # None => seqs[j].slot # s
  BY <1>6 DEF InUse
<1>17. SeqsInv'
  <2>1. \A j \in Ids : seqs'[j] # None => seqs'[j].inputs # <<>>
    BY <1>3, <1>15 DEF SeqsInv
  <2>2. \A j, m \in Ids : seqs'[j] # None /\ seqs'[m] # None /\ seqs'[j].slot = seqs'[m].slot
                            => j = m
    BY <1>3, <1>15, <1>16 DEF SeqsInv
  <2> QED BY <1>15, <2>1, <2>2 DEF SeqsInv
<1>18. ASSUME NEW t \in Slots
       PROVE  /\ Holds(kv', t, Inputs'[t]) /\ (~kv'.merged => Follows(kv', t, Inputs'[t]))
              /\ InUse(t)' => EndsAt(kv', t, Len(Inputs'[t]))
  <2>1. CASE t = s
    BY <1>9, <1>12, <1>13, <2>1 DEF HeldIn
  <2>2. CASE t # s
    <3>1. SameFor(kv, k, t) /\ SameFor(k, kv', t) /\ Inputs'[t] = Inputs[t]
      BY <1>10, <1>12, <1>13, <2>2
    <3>2. HeldIn(kv, t, Inputs[t])
      BY <1>3 DEF CacheInv
    <3>3. HeldIn(k, t, Inputs[t])
      BY <3>1, <3>2, <1>10, SameHolds DEF HeldIn
    <3>4. HeldIn(kv', t, Inputs[t])
      BY <3>1, <3>3, <1>12, SameHolds DEF HeldIn
    <3>5. InUse(t)' => InUse(t)
      BY <1>15, <2>2 DEF InUse
    <3> QED BY <3>1, <3>4, <3>5 DEF HeldIn
  <2> QED BY <2>1, <2>2
<1>19. CacheInv'
  BY <1>12, <1>18 DEF CacheInv, HeldIn
<1> QED BY <1>2, <1>3, <1>14, <1>17, <1>19 DEF IInv

-----------------------------------------------------------------------------
(* The invariant holds of the empty cache.                                 *)
LEMMA InitIInv ==
  ASSUME CausalAssumption, InputCacheAssumption, Init
  PROVE  IInv
<1>1. /\ multiUserCache \in BOOLEAN /\ full = FALSE /\ panicked = FALSE
      /\ kv = NewCausalCache /\ Inputs = [s \in Slots |-> <<>>]
      /\ lastUsed = [i \in Ids |-> i - 1] /\ seqs = [i \in Ids |-> None]
  BY DEF Init, InputCacheAssumption
<1>2. SlotsInv
  <2>1. /\ numSlots \in Nat \ {0} /\ numCtx \in Nat /\ Ids = 1..numSlots
        /\ Slots = 0..numSlots - 1
    BY Sizes DEF Ids
  <2>2. lastUsed \in [Ids -> Slots]
    <3>. HIDE DEF numSlots
    <3> QED BY <1>1, <2>1
  <2>3. ASSUME NEW s \in Slots PROVE \E i \in Ids : lastUsed[i] = s
    <3>1. s + 1 \in Ids /\ s + 1 - 1 = s
      <4>. HIDE DEF numSlots
      <4> QED BY <2>1
    <3> QED BY <1>1, <3>1
  <2>4. \A s \in Slots : Inputs[s] = <<>> /\ Len(Inputs[s]) <= numCtx
    BY <1>1, <2>1
  <2>5. Inputs \in [Slots -> Seq(Tokens)]
    BY <1>1
  <2> QED BY <2>2, <2>3, <2>4, <2>5 DEF SlotsInv
<1>3. SeqsInv
  BY <1>1 DEF SeqsInv
<1>4. /\ kv.cells = [l \in Locs |-> FreeCell] /\ kv.data = [l \in Locs |-> FreeData]
      /\ kv.ranges = [s \in Slots |-> noRange] /\ kv.merged = FALSE
      /\ kv = [cells |-> kv.cells, data |-> kv.data, ranges |-> kv.ranges, merged |-> kv.merged]
  BY <1>1 DEF NewCausalCache
<1>5. \A s \in Slots : LocsOf(kv.cells, s) = {}
  BY <1>4 DEF LocsOf, FreeCell
<1>6. Sound(kv)
  <2>1. FreeCell \in Cell /\ FreeData \in Datum /\ noRange \in Spans /\ noRange.min = MaxInt
    BY Sizes DEF FreeCell, Cell, FreeData, Datum, noRange, Spans
  <2>2. /\ kv.cells \in [Locs -> Cell] /\ kv.data \in [Locs -> Datum]
        /\ kv.ranges \in [Slots -> Spans] /\ kv.merged \in BOOLEAN
    <3>1. kv.cells \in [Locs -> Cell]
      BY ONLY <1>4, <2>1
    <3>2. kv.data \in [Locs -> Datum]
      BY ONLY <1>4, <2>1
    <3>3. kv.ranges \in [Slots -> Spans]
      BY ONLY <1>4, <2>1
    <3>4. kv.merged \in BOOLEAN
      BY ONLY <1>4
    <3> QED BY ONLY <3>1, <3>2, <3>3, <3>4
  <2>3. kv \in Caches
    BY <1>4, <2>2 DEF Caches
  <2>4. Filled(kv)
    BY <1>4 DEF Filled
  <2>5. Distinct(kv)
    BY <1>5 DEF Distinct
  <2>6. \A s \in Slots : Covered(kv.ranges[s], LocsOf(kv.cells, s))
    BY <1>4, <1>5, <2>1 DEF Covered
  <2> QED BY <2>3, <2>4, <2>5, <2>6 DEF Sound
<1>7. ASSUME NEW s \in Slots PROVE HeldIn(kv, s, Inputs[s])
  <2>1. Inputs[s] = <<>>
    BY <1>1
  <2> QED BY <1>5, <2>1 DEF HeldIn, Holds, Follows, EndsAt
<1> QED BY <1>1, <1>2, <1>3, <1>6, <1>7 DEF IInv, CacheInv

(* Every step keeps the invariant.                                         *)
LEMMA NextIInv ==
  ASSUME CausalAssumption, InputCacheAssumption, IInv, [Next]_vars
  PROVE  IInv'
<1>1. CASE Next
  <2>1. ASSUME NEW p \in Prompts, NEW c \in CachePrompts, NEW k \in NumKeeps, completion(p, c, k)
        PROVE  IInv'
    BY <2>1, CompletionKeeps
  <2>2. CASE processBatch
    BY <2>2, BatchKeeps
  <2> QED BY <1>1, <2>1, <2>2 DEF Next
<1>2. CASE UNCHANGED vars
  BY <1>2 DEF vars, IInv, SlotsInv, SeqsInv, CacheInv, HeldIn, InUse
<1> QED BY <1>1, <1>2

(* The inductive invariant holds in every reachable state.                 *)
THEOREM Invariance == Spec => []IInv
<1>1. Init => IInv
  BY InitIInv, CausalAssumption, InputCacheAssumption
<1>2. IInv /\ [Next]_vars => IInv'
  BY NextIInv, CausalAssumption, InputCacheAssumption
<1> QED BY <1>1, <1>2, PTL DEF Spec

(* The types of the state.                                                 *)
THEOREM TypeCorrect == Spec => []TypeOK
<1>1. IInv => TypeOK
  <2> SUFFICES ASSUME IInv PROVE TypeOK
    OBVIOUS
  <2>1. Sound(kv)
    BY DEF IInv, CacheInv
  <2>2. ASSUME NEW l \in Locs
        PROVE  /\ kv.cells[l].pos \in 0..numCtx - 1
               /\ kv.cells[l].sequences \subseteq Slots
               /\ kv.data[l] \in [token : Tokens \union {Blank}, pos : Int]
               /\ IsFree(kv.cells, l) => kv.data[l] = FreeData
    <3>1. kv.cells[l] \in Cell /\ kv.data[l] \in Datum
      BY <2>1 DEF Sound, Caches
    <3>2. IsFree(kv.cells, l) => kv.data[l] = FreeData
      BY <2>1 DEF Sound, Filled
    <3>. HIDE DEF numCtx
    <3> QED BY <3>1, <3>2 DEF Cell, Datum
  <2>3. ASSUME NEW i \in Ids, seqs[i] # None
        PROVE  /\ seqs[i].slot \in Slots /\ seqs[i].inputs \in Seq(Tokens)
               /\ seqs[i].inputs # <<>>
               /\ seqs[i].numKeep \in NumKeeps /\ seqs[i].numPredicted \in 0..NumPredict
    <3>1. seqs[i] \in Sequence /\ seqs[i].inputs # <<>>
      BY <2>3 DEF IInv, SeqsInv
    <3> QED BY <3>1 DEF Sequence
  <2>4. /\ multiUserCache \in BOOLEAN /\ full \in BOOLEAN /\ panicked \in BOOLEAN
        /\ \A s \in Slots : Inputs[s] \in Seq(Tokens) /\ Len(Inputs[s]) <= numCtx
        /\ lastUsed \in [Ids -> Slots] /\ \A s \in Slots : \E i \in Ids : lastUsed[i] = s
    BY DEF IInv, SlotsInv
  <2> QED BY <2>2, <2>3, <2>4 DEF TypeOK
<1> QED BY <1>1, Invariance, PTL

(* Whatever is forked, shifted, cut and defragmented, every input of a     *)
(* slot has one cell, and a slot in use nothing behind its inputs.         *)
THEOREM OneCell == Spec => []OneCellPerInput
<1>1. IInv => OneCellPerInput
  <2> SUFFICES ASSUME IInv, NEW s \in Slots
               PROVE  /\ \A p \in 0..Len(Inputs[s]) - 1 : Cardinality(At(s, p)) = 1
                      /\ InUse(s) => \A p \in Len(Inputs[s])..numCtx - 1 : At(s, p) = {}
    BY DEF OneCellPerInput
  <2>1. Sound(kv) /\ HeldIn(kv, s, Inputs[s])
    BY DEF IInv, CacheInv
  <2>2. ASSUME NEW p \in 0..Len(Inputs[s]) - 1 PROVE Cardinality(At(s, p)) = 1
    <3>1. PICK l \in LocsOf(kv.cells, s) : kv.cells[l].pos = p
      BY <2>1 DEF HeldIn, Holds
    <3>2. At(s, p) = {l}
      BY <2>1, <3>1 DEF At, Sound, Distinct
    <3> QED BY <3>2, FS_Singleton
  <2>3. ASSUME InUse(s), NEW p \in Len(Inputs[s])..numCtx - 1 PROVE At(s, p) = {}
    <3>1. \A l \in LocsOf(kv.cells, s) : kv.cells[l].pos < Len(Inputs[s])
      BY <2>1, <2>3 DEF HeldIn, EndsAt
    <3>2. \A l \in LocsOf(kv.cells, s) : kv.cells[l].pos \in Nat
      BY <2>1, Positions, CausalAssumption, InputCacheAssumption
    <3>3. Len(Inputs[s]) \in Nat /\ numCtx \in Nat
      BY Sizes, CausalAssumption, InputCacheAssumption DEF IInv, SlotsInv
    <3>4. Len(Inputs[s]) <= p /\ p \in Nat
      <4>. HIDE DEF numCtx
      <4> QED BY <3>3
    <3> QED BY <3>1, <3>2, <3>3, <3>4 DEF At
  <2> QED BY <2>2, <2>3
<1> QED BY <1>1, Invariance, PTL

(* As long as no two moves were merged, the tensors hold at every cell the *)
(* input the slot has there, its key rotated to that position.             *)
THEOREM DataFollows == Spec => []DataFollowsUnmergedCells
<1>1. IInv => DataFollowsUnmergedCells
  <2> SUFFICES ASSUME IInv, ~kv.merged, NEW s \in Slots, NEW p \in 0..Len(Inputs[s]) - 1,
                      NEW l \in At(s, p)
               PROVE  kv.data[l] = [token |-> Inputs[s][p + 1], pos |-> p]
    BY DEF DataFollowsUnmergedCells, DataFollowsCells
  <2>1. Follows(kv, s, Inputs[s])
    BY DEF IInv, CacheInv, HeldIn
  <2>2. l \in LocsOf(kv.cells, s) /\ kv.cells[l].pos = p
    BY DEF At
  <2>3. p < Len(Inputs[s])
    <3>1. Inputs[s] \in Seq(Tokens)
      BY DEF IInv, SlotsInv
    <3>2. Len(Inputs[s]) \in Nat
      BY <3>1
    <3> QED BY <3>2
  <2> QED BY <2>1, <2>2, <2>3 DEF Follows
<1> QED BY <1>1, Invariance, PTL

(* No cell of a sequence lies outside the range the mask is cut to.        *)
THEOREM RangesCover == Spec => []RangesCoverCells
<1>1. IInv => RangesCoverCells
  BY DEF IInv, CacheInv, Sound, Covered, RangesCoverCells
<1> QED BY <1>1, Invariance, PTL

(* A batch always finds a contiguous place.                                *)
THEOREM PlaceForEveryBatch == Spec => []AlwaysRoom
<1>1. IInv => AlwaysRoom
  BY DEF IInv, AlwaysRoom
<1> QED BY <1>1, Invariance, PTL
=============================================================================
