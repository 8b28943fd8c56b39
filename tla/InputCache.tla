----------------------------- MODULE InputCache -----------------------------
(***************************************************************************)
(* The input cache of the ollama runner (runner/ollamarunner/cache.go) as  *)
(* the server drives it (runner.go): requests take a slot that already     *)
(* holds a prefix of their prompt, batches of all running sequences go     *)
(* through the causal cache, full slots are shifted, and a slot keeps what *)
(* it holds when its sequence ends.  All of it happens under Server.mu, so *)
(* a step is the start of a request or a whole batch.                      *)
(***************************************************************************)
EXTENDS CausalCache

CONSTANTS
    Tokens,
    Prompts,          \* bound: the prompts of the requests
    Generated,        \* bound: the tokens that are sampled
    CachePrompts,     \* bound: values of cache_prompt in the requests
    NumKeeps,         \* bound: values of num_keep (after NewSequence limits it)
    NumPredict,       \* the option num_predict
    BatchSize,        \* tokens of one sequence in a batch
    MultiUser,        \* values of OLLAMA_MULTIUSER_CACHE to look at
    None

numSlots == Cardinality(Slots)
numCtx == Capacity \div numSlots

ASSUME InputCacheAssumption ==
    /\ Slots # {} /\ Slots = 0..numSlots - 1 /\ numCtx >= 1
    /\ \A p \in Prompts : p \in Seq(Tokens) /\ Len(p) \in 1..numCtx
    /\ Generated \subseteq Tokens /\ CachePrompts \subseteq BOOLEAN
    /\ NumKeeps \subseteq 0..numCtx - 1
    /\ NumPredict \in Nat \ {0} /\ BatchSize \in Nat \ {0} /\ MultiUser \subseteq BOOLEAN
    /\ Tokens \intersect Nat = {}
    /\ None \notin [slot : Slots, inputs : Seq(Tokens), numKeep : Nat, numPredicted : Nat]

VARIABLES
    multiUserCache,
    kv,               \* the causal cache
    Inputs,           \* of each slot: what it is meant to hold
    lastUsed,         \* the slots, least recently used first
    seqs,             \* the running sequences, or None
    full,             \* a batch found no place (history)
    panicked          \* processBatch returned an error
vars == <<multiUserCache, kv, Inputs, lastUsed, seqs, full, panicked>>

Ids == 1..numSlots
InUse(s) == \E i \in Ids : seqs[i] # None /\ seqs[i].slot = s

Init ==
    /\ multiUserCache \in MultiUser
    /\ kv = NewCausalCache
    /\ Inputs = [s \in Slots |-> <<>>]
    /\ lastUsed = [i \in Ids |-> i - 1]
    /\ seqs = [i \in Ids |-> None]
    /\ full = FALSE /\ panicked = FALSE

-----------------------------------------------------------------------------
(* LoadCacheSlot.                                                          *)

countCommonPrefix(s, t) ==
    Cardinality({n \in 1..Len(s) : n <= Len(t) /\ SubSeq(s, 1, n) = SubSeq(t, 1, n)})

(* The first of the slots in S that holds most of the prompt.              *)
Longest(S, prompt) ==
    LET count(s) == countCommonPrefix(Inputs[s], prompt)
        best == {s \in S : \A t \in S : count(s) >= count(t)}
    IN Covering(best).min
Oldest == LET i == CHOOSE i \in Ids : /\ ~InUse(lastUsed[i])
                                      /\ \A j \in 1..i - 1 : InUse(lastUsed[j])
          IN lastUsed[i]

(* Slot s becomes the one that was used last.                              *)
UsedNow(s) ==
    LET p == CHOOSE i \in Ids : lastUsed[i] = s
    IN [i \in Ids |-> IF i < p THEN lastUsed[i]
                      ELSE IF i < numSlots THEN lastUsed[i + 1] ELSE s]

(* The slot to use, how much of the prompt it has, the slot to fork from.  *)
findLongestCacheSlot(prompt) ==
    LET s == Longest({t \in Slots : ~InUse(t)}, prompt)
    IN [slot |-> s, numPast |-> countCommonPrefix(Inputs[s], prompt), fork |-> s]

findBestCacheSlot(prompt) ==
    LET longest == Longest(Slots, prompt)
        n == countCommonPrefix(Inputs[longest], prompt)
        slot == IF n = Len(Inputs[longest]) /\ ~InUse(longest) THEN longest ELSE Oldest
    IN [slot |-> slot, numPast |-> n, fork |-> longest]

(* Mutant: nothing is left of a prompt that the slot holds.                *)
Mut_KeptWhole(found, prompt, cachePrompt) == IF cachePrompt THEN found.numPast ELSE 0

(* What stays of the prompt: one input is left to sample from.             *)
Kept(found, prompt, cachePrompt) ==
    LET n == IF cachePrompt THEN found.numPast ELSE 0
    IN IF n = Len(prompt) THEN n - 1 ELSE n

Forked(found) ==
    IF found.numPast > 0 /\ found.fork # found.slot
    THEN CopyPrefix(kv, found.fork, found.slot, found.numPast) ELSE kv

(* A request comes in, and is given a slot and a place among the running.  *)
completion(prompt, cachePrompt, numKeep) ==
    /\ ~panicked
    /\ \E i \in Ids :
         /\ seqs[i] = None /\ \A j \in 1..i - 1 : seqs[j] # None
         /\ LET found == IF multiUserCache THEN findBestCacheSlot(prompt)
                         ELSE findLongestCacheSlot(prompt)
                n == Kept(found, prompt, cachePrompt)
                s == found.slot
            IN /\ kv' = RemoveTokens(Forked(found), s, n, MaxInt)
               /\ Inputs' = [Inputs EXCEPT ![s] = SubSeq(prompt, 1, n)]
               /\ lastUsed' = UsedNow(s)
               /\ seqs' = [seqs EXCEPT ![i] =
                     [slot |-> s, inputs |-> SubSeq(prompt, n + 1, Len(prompt)),
                      numKeep |-> numKeep, numPredicted |-> 0]]
    /\ UNCHANGED <<multiUserCache, full, panicked>>

-----------------------------------------------------------------------------
(* processBatch.                                                           *)

Larger(a, b) == IF a > b THEN a ELSE b
Smaller(a, b) == IF a < b THEN a ELSE b

ShiftDiscard(inputLen, numKeep) ==
    LET targetFree == Larger((numCtx - numKeep) \div 2, 1)
    IN Larger(targetFree - (numCtx - inputLen), 0)

Discarded(inputs, numKeep, n) ==
    SubSeq(inputs, 1, numKeep) \o SubSeq(inputs, numKeep + n + 1, Len(inputs))

(* The part of the batch of sequence i, added to what comes before it.  A  *)
(* sequence at its limit ends; a full slot is shifted first.               *)
AddToBatch(b, i) ==
    IF seqs[i] = None \/ b.err THEN b
    ELSE IF seqs[i].numPredicted >= NumPredict THEN [b EXCEPT !.seqs[i] = None]
    ELSE
    LET q == seqs[i]
        s == q.slot
        isFull == Len(Inputs[s]) = numCtx
        discard == ShiftDiscard(Len(Inputs[s]), q.numKeep)
        held == IF isFull THEN Discarded(Inputs[s], q.numKeep, discard) ELSE Inputs[s]
        n == Smaller(Smaller(Len(q.inputs), BatchSize), numCtx - Len(held))
        entry(j) == [slot |-> s, pos |-> Len(held) + j - 1, token |-> q.inputs[j]]
    IN IF isFull /\ RemoveFails(b.kv, s, q.numKeep + discard) THEN [b EXCEPT !.err = TRUE]
       ELSE [b EXCEPT
          !.kv = IF isFull THEN RemoveTokens(@, s, q.numKeep, q.numKeep + discard) ELSE @,
          !.batch = @ \o [j \in 1..n |-> entry(j)],
          !.Inputs[s] = held \o SubSeq(q.inputs, 1, n),
          !.seqs[i].inputs = SubSeq(q.inputs, n + 1, Len(q.inputs))]

Assembled ==
    LET upTo[i \in 0..numSlots] ==
            IF i = 0 THEN [kv |-> kv, batch |-> <<>>, Inputs |-> Inputs, seqs |-> seqs, err |-> FALSE]
            ELSE AddToBatch(upTo[i - 1], i)
    IN upTo[numSlots]

(* What a sequence whose inputs are all processed does next: it goes on    *)
(* with a token, or ends, having dropped some tokens of a stop sequence    *)
(* from the end of its slot.                                               *)
Sampling(b, i) == b.seqs[i] # None /\ b.seqs[i].inputs = <<>>
Outcomes == Generated \union 0..NumPredict - 1
Possible(b, i, o) ==
    \/ o \in Generated
    \/ o \in 0..b.seqs[i].numPredicted /\ o <= Len(b.Inputs[b.seqs[i].slot])

Sampled(b, out) ==
    [i \in Ids |-> IF ~Sampling(b, i) THEN b.seqs[i]
                   ELSE IF out[i] \in Tokens
                   THEN [b.seqs[i] EXCEPT !.inputs = <<out[i]>>, !.numPredicted = @ + 1]
                   ELSE None]
Truncated(b, out) ==
    [s \in Slots |->
        LET ending == {i \in Ids : Sampling(b, i) /\ b.seqs[i].slot = s /\ out[i] \notin Tokens}
        IN IF ending = {} THEN b.Inputs[s]
           ELSE SubSeq(b.Inputs[s], 1, Len(b.Inputs[s]) - out[CHOOSE i \in ending : TRUE])]

processBatch ==
    /\ ~panicked
    /\ \E i \in Ids : seqs[i] # None
    /\ \E b \in {Assembled}, p \in {Placed(Assembled.kv, Len(Assembled.batch))} :
          \/ /\ ~b.err /\ b.batch = <<>>
             /\ kv' = b.kv /\ Inputs' = b.Inputs /\ seqs' = b.seqs
             /\ UNCHANGED <<full, panicked>>
          \/ /\ b.err \/ (b.batch # <<>> /\ p.loc = -1)
             /\ panicked' = TRUE /\ full' = ~b.err
             /\ UNCHANGED <<kv, Inputs, seqs>>
          \/ /\ ~b.err /\ b.batch # <<>> /\ p.loc # -1
             /\ kv' = Put(StartForward(p.kv, p.loc, b.batch), p.loc, b.batch)
             /\ \E out \in [Ids -> Outcomes] :
                  /\ \A i \in Ids : IF Sampling(b, i) THEN Possible(b, i, out[i]) ELSE out[i] = 0
                  /\ seqs' = Sampled(b, out) /\ Inputs' = Truncated(b, out)
             /\ UNCHANGED <<full, panicked>>
    /\ UNCHANGED <<multiUserCache, lastUsed>>

Next ==
    \/ \E p \in Prompts, c \in CachePrompts, k \in NumKeeps : completion(p, c, k)
    \/ processBatch

Spec == Init /\ [][Next]_vars
-----------------------------------------------------------------------------
TypeOK ==
    /\ multiUserCache \in BOOLEAN /\ full \in BOOLEAN /\ panicked \in BOOLEAN
    /\ \A l \in Locs : /\ kv.cells[l].pos \in 0..numCtx - 1
                       /\ kv.cells[l].sequences \subseteq Slots
                       /\ kv.data[l] \in [token : Tokens \union {Blank}, pos : Int]
                       /\ IsFree(kv.cells, l) => kv.data[l] = FreeData
    /\ \A s \in Slots : Inputs[s] \in Seq(Tokens) /\ Len(Inputs[s]) <= numCtx
    /\ lastUsed \in [Ids -> Slots] /\ \A s \in Slots : \E i \in Ids : lastUsed[i] = s
    /\ \A i \in Ids : seqs[i] = None \/
          /\ seqs[i].slot \in Slots /\ seqs[i].inputs \in Seq(Tokens)
          /\ seqs[i].inputs # <<>>
          /\ seqs[i].numKeep \in NumKeeps /\ seqs[i].numPredicted \in 0..NumPredict

At(s, p) == {l \in LocsOf(kv.cells, s) : kv.cells[l].pos = p}

(* However slots are forked, shifted, cut and defragmented, every input a  *)
(* slot is meant to hold has one cell, at its position; and while the slot *)
(* is in use there is nothing else a later token would attend to.          *)
OneCellPerInput ==
    \A s \in Slots : /\ \A p \in 0..Len(Inputs[s]) - 1 : Cardinality(At(s, p)) = 1
                     /\ InUse(s) => \A p \in Len(Inputs[s])..numCtx - 1 : At(s, p) = {}

(* The tensors hold at each cell the input the metadata and the slot say,  *)
(* rotated to its position.                                                *)
DataFollowsCells ==
    \A s \in Slots : \A p \in 0..Len(Inputs[s]) - 1 : \A l \in At(s, p) :
        kv.data[l] = [token |-> Inputs[s][p + 1], pos |-> p]

(* ... as long as defrag has not merged two moves into one.                *)
DataFollowsUnmergedCells == ~kv.merged => DataFollowsCells

(* The mask and the views of a batch are cut to the ranges of its          *)
(* sequences: no cell of a sequence lies outside its range.                *)
RangesCoverCells ==
    \A s \in Slots : \A l \in LocsOf(kv.cells, s) : kv.ranges[s].min <= l /\ l <= kv.ranges[s].max

(* With a share of the cache for every slot, and what ended sequences left *)
(* behind in it, a batch always finds a contiguous place.                  *)
AlwaysRoom == ~full
=============================================================================
