---------------------------- MODULE CausalCache ----------------------------
(***************************************************************************)
(* The causal key-value cache of ollama_openvino (kvcache/causal.go), as   *)
(* operators on its state: a record of                                     *)
(*    cells   what the metadata says of each location: the position of its *)
(*            token and the sequences that attend to it,                   *)
(*    data    what the tensors hold there: the token that was stored, and  *)
(*            the position its key is rotated to,                          *)
(*    ranges  the locations each sequence may occupy,                      *)
(*    merged  whether a defragmentation merged two moves (history).        *)
(* A free location has no interesting contents; its token reads as blank.  *)
(* All positions are visible to later ones: the window of the sliding      *)
(* caches is not modelled.                                                 *)
(***************************************************************************)
EXTENDS Integers, Sequences, FiniteSets

CONSTANTS Slots,          \* the sequences of the cache
          Capacity,       \* number of locations
          MaxInt,         \* stands for MaxInt and MaxInt32
          Blank           \* the token in a free location

(* The tensors of the cache are indexed with int32.                        *)
ASSUME CausalAssumption ==
    /\ IsFiniteSet(Slots)
    /\ Capacity \in Nat \ {0} /\ MaxInt \in Nat /\ Capacity <= MaxInt

Locs == 0..Capacity - 1
newRange == [min |-> MaxInt, max |-> 0]
noRange == [min |-> MaxInt, max |-> -1]     \* the map has no such sequence
FreeCell == [pos |-> 0, sequences |-> {}]
FreeData == [token |-> Blank, pos |-> 0]

NewCausalCache ==
    [cells |-> [l \in Locs |-> FreeCell], data |-> [l \in Locs |-> FreeData],
     ranges |-> [s \in Slots |-> noRange], merged |-> FALSE]

IsFree(cells, l) == cells[l].sequences = {}
LocsOf(cells, s) == {l \in Locs : s \in cells[l].sequences}

(* The range that covers a set of locations.                               *)
Covering(L) == IF L = {} THEN newRange
               ELSE [min |-> CHOOSE l \in L : \A k \in L : l <= k,
                     max |-> CHOOSE l \in L : \A k \in L : l >= k]
Wider(r, L) == Covering(L \union (IF r.min = MaxInt THEN {} ELSE {r.min, r.max}))

(* Free locations forget their position and contents.                      *)
Tidy(kv) ==
    [kv EXCEPT !.cells = [l \in Locs |-> IF IsFree(kv.cells, l) THEN FreeCell ELSE @[l]],
               !.data = [l \in Locs |-> IF IsFree(kv.cells, l) THEN FreeData ELSE @[l]]]

-----------------------------------------------------------------------------
(* The start of the first block of n free locations, or -1.                *)
findStartLoc(cells, n) ==
    LET starts == {l \in Locs : l + n <= Capacity /\ \A i \in 0..n - 1 : IsFree(cells, l + i)}
    IN IF starts = {} THEN -1 ELSE Covering(starts).min

moveCell(data, src, dst, len) ==
    [l \in Locs |-> IF l \in dst..dst + len - 1 THEN data[src + (l - dst)] ELSE data[l]]

(* One hole is filled with the last cell in use.  The metadata moves at    *)
(* once, the data when the next move is found not to be contiguous.  src   *)
(* is where the search for the last cell goes on; from, to and len are the *)
(* pending move.                                                           *)
FillHole(d, dst) ==
    LET used == {l \in dst + 1..d.src : ~IsFree(d.cells, l)}
        src == Covering(used).max
        contiguous == d.len > 0 /\ src = d.from - d.len /\ dst = d.to + d.len
    IN IF dst >= d.src \/ ~IsFree(d.cells, dst) THEN d
       ELSE IF used = {} THEN [d EXCEPT !.src = dst]
       ELSE [cells |-> [d.cells EXCEPT ![dst] = d.cells[src], ![src] = FreeCell],
             data |-> IF contiguous THEN d.data ELSE moveCell(d.data, d.from, d.to, d.len),
             src |-> src,
             from |-> src,
             to |-> IF contiguous THEN d.to ELSE dst,
             len |-> IF contiguous THEN d.len + 1 ELSE 1,
             merged |-> d.merged \/ contiguous]

(* filled[n]: the first n locations were looked at.                        *)
Compacted(kv) ==
    LET filled[n \in 0..Capacity] ==
            IF n = 0 THEN [cells |-> kv.cells, data |-> kv.data, src |-> Capacity - 1,
                           from |-> 0, to |-> 0, len |-> 0, merged |-> kv.merged]
            ELSE FillHole(filled[n - 1], n - 1)
    IN filled[Capacity]

(* Mutant: the ranges of the sequences are not computed anew.              *)
Mut_DefragKeepsRanges(kv) ==
    LET d == Compacted(kv)
    IN Tidy([cells |-> d.cells, data |-> moveCell(d.data, d.from, d.to, d.len),
             ranges |-> kv.ranges, merged |-> d.merged])

defrag(kv) ==
    LET d == Compacted(kv)
    IN Tidy([cells |-> d.cells, data |-> moveCell(d.data, d.from, d.to, d.len),
             ranges |-> [s \in Slots |-> IF kv.ranges[s] = noRange THEN noRange
                                         ELSE Covering(LocsOf(d.cells, s))],
             merged |-> d.merged])

(* Mutant: the cache is not defragmented.                                  *)
Mut_PlacedAsIs(kv, n) == [kv |-> kv, loc |-> findStartLoc(kv.cells, n)]

(* Where a batch of n tokens goes: after a defragmentation if it must be.  *)
Placed(kv, n) ==
    LET moved == IF findStartLoc(kv.cells, n) = -1 THEN defrag(kv) ELSE kv
    IN [kv |-> moved, loc |-> findStartLoc(moved.cells, n)]

(* A batch is a sequence of [slot, pos, token].  StartForward enters it in *)
(* the metadata, Put stores the tensors.                                   *)
StartForward(kv, loc, batch) ==
    LET at(s) == {loc + i - 1 : i \in {i \in DOMAIN batch : batch[i].slot = s}}
        inBatch(l) == l \in loc..loc + Len(batch) - 1
        entry(l) == batch[l - loc + 1]
    IN [kv EXCEPT
          !.cells = [l \in Locs |-> IF inBatch(l)
                        THEN [pos |-> entry(l).pos, sequences |-> {entry(l).slot}] ELSE @[l]],
          !.ranges = [s \in Slots |-> IF at(s) = {} THEN @[s] ELSE Wider(@[s], at(s))]]

Put(kv, loc, batch) ==
    [kv EXCEPT !.data = [l \in Locs |-> IF l \in loc..loc + Len(batch) - 1
        THEN [token |-> batch[l - loc + 1].token, pos |-> batch[l - loc + 1].pos] ELSE @[l]]]

-----------------------------------------------------------------------------
(* Mutant: dst goes on attending to what it had.                           *)
Mut_CopyOntoOld(kv, src, dst, len) ==
    LET copied(l) == src \in kv.cells[l].sequences /\ kv.cells[l].pos < len
        cells == [l \in Locs |-> [kv.cells[l] EXCEPT !.sequences =
                     @ \union (IF copied(l) THEN {dst} ELSE {})]]
    IN Tidy([kv EXCEPT !.cells = cells, !.ranges[dst] = Covering(LocsOf(cells, dst))])

(* dst attends to the first len tokens of src, and to nothing else.        *)
CopyPrefix(kv, src, dst, len) ==
    LET copied(l) == src \in kv.cells[l].sequences /\ kv.cells[l].pos < len
        cells == [l \in Locs |-> [kv.cells[l] EXCEPT !.sequences =
                     (@ \ {dst}) \union (IF copied(l) THEN {dst} ELSE {})]]
    IN Tidy([kv EXCEPT !.cells = cells, !.ranges[dst] = Covering(LocsOf(cells, dst))])

(* The cells behind the removed interval move up by its length; that is    *)
(* refused when one of them belongs to another sequence too.               *)
Behind(kv, s, endIndex) == {l \in LocsOf(kv.cells, s) : kv.cells[l].pos >= endIndex}
RemoveFails(kv, s, endIndex) ==
    \E l \in Behind(kv, s, endIndex) : kv.cells[l].sequences # {s}

(* Mutant: the keys of the cells that move up are not rotated again.       *)
Mut_RemoveWithoutShift(kv, s, beginIndex, endIndex) ==
    LET offset == beginIndex - endIndex
        removed(l) == s \in kv.cells[l].sequences
                      /\ kv.cells[l].pos >= beginIndex /\ kv.cells[l].pos < endIndex
        cells == [l \in Locs |->
            IF removed(l) THEN [kv.cells[l] EXCEPT !.sequences = @ \ {s}]
            ELSE IF l \in Behind(kv, s, endIndex) THEN [kv.cells[l] EXCEPT !.pos = @ + offset]
            ELSE kv.cells[l]]
        left == LocsOf(cells, s)
    IN Tidy([kv EXCEPT !.cells = cells,
                       !.ranges[s] = IF left = {} THEN noRange ELSE Covering(left)])

RemoveTokens(kv, s, beginIndex, endIndex) ==
    LET offset == beginIndex - endIndex
        removed(l) == s \in kv.cells[l].sequences
                      /\ kv.cells[l].pos >= beginIndex /\ kv.cells[l].pos < endIndex
        cells == [l \in Locs |->
            IF removed(l) THEN [kv.cells[l] EXCEPT !.sequences = @ \ {s}]
            ELSE IF l \in Behind(kv, s, endIndex) THEN [kv.cells[l] EXCEPT !.pos = @ + offset]
            ELSE kv.cells[l]]
        left == LocsOf(cells, s)
    IN Tidy([kv EXCEPT
          !.cells = cells,
          !.ranges[s] = IF left = {} THEN noRange ELSE Covering(left),
          !.data = [l \in Locs |-> IF l \in Behind(kv, s, endIndex)
                           THEN [kv.data[l] EXCEPT !.pos = @ + offset] ELSE kv.data[l]]])
=============================================================================
