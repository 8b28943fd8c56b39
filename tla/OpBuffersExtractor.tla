------------------------- MODULE OpBuffersExtractor -------------------------
(***************************************************************************)
(* OperationBuffersExtractor (cuda_op_buffers_extractor.cpp): which buffer *)
(* of the memory block holds each tensor of a graph, and from which node   *)
(* to which one the buffer is needed; with the schedule by which SubGraph  *)
(* releases dynamic buffers (ops/subgraph.cpp).                            *)
(*                                                                         *)
(* The graph is not an input: each step appends a node together with the   *)
(* handler that the constructor runs for it.  Node i is the i-th node in   *)
(* execution order, and has one output.  A size is a number of units of    *)
(* memory; 0 is the size of a tensor whose shape is dynamic.               *)
(*                                                                         *)
(* ov::MemorySolver (external) gives two buffers the same memory only when *)
(* their lifespans, ends included, have no node in common.                 *)
(***************************************************************************)
EXTENDS Naturals, SequencesExt, FiniteSetsExt

CONSTANTS
    NumNodes,        \* num_ordered_nodes_
    MaxInputs,       \* bound: the inputs of one node
    MaxSize,         \* bound: the size of one output
    Null             \* nullptr

ASSUME ExtractorAssumption ==
    /\ NumNodes \in Nat \ {0} /\ MaxInputs \in Nat \ {0} /\ MaxSize \in Nat
    /\ Null \notin Nat

VARIABLES
    phase,             \* "extract", "extend", "schedule", "done", "refused"
    stable,            \* is_stable_params_ and is_stable_results_: a loop body
    nodes,             \* ordered_nodes: kind, inputs and size of the output
    tensor_names,      \* tensor_names[i]: the TensorID of the output of node i
    tensors,           \* the TensorID objects: parent_tensor_ and offset_
    mutable_buffers,   \* mutable_buffers_
    immutable_buffers, \* the keys of immutable_buffers_
    release            \* <<buffer, node>>: the buffers a node releases

planVars == <<phase, stable, nodes, tensor_names, tensors, mutable_buffers,
          immutable_buffers, release>>

TheEnd == NumNodes + 1   \* later than every node: num_ordered_nodes_
here == Len(nodes) + 1  \* node_idx in the first loop
next_buffer_id == Len(tensors) + 1

IsKind(i, kinds) == nodes[i].kind \in kinds
Sources == {i \in 1..Len(nodes) : ~IsKind(i, {"Result"})}
Inputs(i) == ToSet(nodes[i].inputs)

(* TensorID::GetBuffer and GetOffset: the root, and the sum of the offsets *)
(* up to it, of each of the objects ts.  A parent is younger than its      *)
(* children.                                                               *)
RootOf(ts) ==
    LET root[t \in 1..Len(ts)] == IF ts[t].parent = Null THEN t ELSE root[ts[t].parent]
    IN  root
OffsetOf(ts) ==
    LET sum[t \in 1..Len(ts)] ==
            IF ts[t].parent = Null THEN 0 ELSE ts[t].offset + sum[ts[t].parent]
    IN  sum
GetBuffer(id) == RootOf(tensors)[id]
GetOffset(id) == OffsetOf(tensors)[id]

Buffer(i) == GetBuffer(tensor_names[i])
Offset(i) == GetOffset(tensor_names[i])

InitPlan ==
    /\ phase = "extract"
    /\ stable \in BOOLEAN
    /\ nodes = <<>> /\ tensor_names = <<>> /\ tensors = <<>>
    /\ mutable_buffers = <<>>
    /\ immutable_buffers = {}
    /\ release = {}

-----------------------------------------------------------------------------
(* The first loop of the constructor.                                      *)

Unused == {i \in Sources : ~IsKind(i, {"Parameter"})
                               /\ \A j \in 1..Len(nodes) : i \notin Inputs(j)}

(* The last node is a Result.  get_ordered_ops walks from the Results and  *)
(* the parameters: somebody reads every other node, so that no more nodes  *)
(* may wait for a reader than there are nodes to come.                     *)
AddNode(kind, inputs, size) ==
    /\ phase = "extract"
    /\ (here = NumNodes) => kind = "Result"
    /\ Cardinality(Unused \ ToSet(inputs))
           + (IF kind \in {"Parameter", "Result"} THEN 0 ELSE 1) <= NumNodes - here
    /\ nodes' = Append(nodes, [kind |-> kind, inputs |-> inputs, size |-> size])
    /\ phase' = IF here = NumNodes THEN "extend" ELSE "extract"
    /\ UNCHANGED <<stable, release>>

(* A new TensorID, for the output of this node.                            *)
NewTensor ==
    /\ tensor_names' = Append(tensor_names, next_buffer_id)
    /\ tensors' = Append(tensors, [parent |-> Null, offset |-> 0])

WithBuffer(buffers, start, end, size) ==
    [b \in (DOMAIN buffers) \union {next_buffer_id} |->
        IF b = next_buffer_id THEN [start |-> start, end |-> end, size |-> size]
                              ELSE buffers[b]]

(* get_ordered_ops lists the parameters first.                             *)
extractParameterTensors(size) ==
    /\ \A i \in 1..Len(nodes) : IsKind(i, {"Parameter"})
    /\ AddNode("Parameter", <<>>, size)
    /\ NewTensor
    /\ mutable_buffers' =
           WithBuffer(mutable_buffers, here, IF stable THEN TheEnd ELSE here, size)
    /\ UNCHANGED immutable_buffers

extractImmutableTensors ==
    /\ AddNode("Constant", <<>>, 1)
    /\ NewTensor
    /\ immutable_buffers' = immutable_buffers \union {next_buffer_id}
    /\ UNCHANGED mutable_buffers

(* Any operation that computes; a Reshape with a dynamic input or output   *)
(* goes the same way.                                                      *)
extractMutableTensors(inputs, size) ==
    /\ AddNode("Op", inputs, size)
    /\ NewTensor
    /\ mutable_buffers' = WithBuffer(mutable_buffers, here, here, size)
    /\ UNCHANGED immutable_buffers

(* A Reshape, Squeeze or Unsqueeze of known shape: the same TensorID.      *)
extractReshapeTensors(i) ==
    /\ nodes[i].size # 0
    /\ AddNode("Reshape", <<i>>, nodes[i].size)
    /\ tensor_names' = Append(tensor_names, tensor_names[i])
    /\ UNCHANGED <<tensors, mutable_buffers, immutable_buffers>>

(* Mutant of extractResultTensors: the result is not kept to the end.      *)
Mut_ResultNotKept(i) ==
    /\ AddNode("Result", <<i>>, nodes[i].size)
    /\ tensor_names' = Append(tensor_names, tensor_names[i])
    /\ UNCHANGED <<tensors, mutable_buffers, immutable_buffers>>

(* A Result shares the TensorID of its input, and in a loop body keeps its *)
(* buffer to the end; the buffer is looked up by the id of the tensor, not *)
(* of its root, so that a constant or a part of a Concat is refused.       *)
extractResultTensors(i) ==
    LET id == tensor_names[i] IN
    /\ ~stable \/ id \in DOMAIN mutable_buffers
    /\ AddNode("Result", <<i>>, nodes[i].size)
    /\ tensor_names' = Append(tensor_names, id)
    /\ mutable_buffers' = IF stable THEN [mutable_buffers EXCEPT ![id].end = TheEnd]
                                    ELSE mutable_buffers
    /\ UNCHANGED <<tensors, immutable_buffers>>

(* What ConcatTransformation makes a ConcatOptimized: known shapes, no     *)
(* constants, and inputs that no other Concat takes.                       *)
Optimizable(inputs) ==
    /\ IsInjective(inputs)
    /\ \A i \in ToSet(inputs) :
           /\ ~IsKind(i, {"Constant"}) /\ nodes[i].size # 0
           /\ \A j \in 1..Len(nodes) : IsKind(j, {"Concat"}) => i \notin Inputs(j)

TensorsOf(inputs) == [k \in DOMAIN inputs |-> tensor_names[inputs[k]]]

(* The assertion that every input is a root, and mutable_buffers_.at.      *)
Mergeable(ids) ==
    \A k \in DOMAIN ids : tensors[ids[k]].parent = Null /\ ids[k] \in DOMAIN mutable_buffers

(* The size of the first n of the inputs.                                  *)
SizeOf(ns, inputs, n) ==
    LET sum[k \in 0..Len(inputs)] == IF k = 0 THEN 0 ELSE sum[k - 1] + ns[inputs[k]].size
    IN  sum[n]
TotalSize(inputs) == SizeOf(nodes, inputs, Len(inputs))

(* SetParent on each input: its offset is the size of those before it; of  *)
(* two aliases the later one counts.                                       *)
SetParents(inputs, parent) ==
    [t \in DOMAIN tensors |->
        LET at == {k \in DOMAIN inputs : tensor_names[inputs[k]] = t}
        IN  IF at = {} THEN tensors[t]
            ELSE [parent |-> parent,
                  offset |-> SizeOf(nodes, inputs, Max(at) - 1)]]

Merge(inputs, start) ==
    LET ids == TensorsOf(inputs) IN
    /\ AddNode("Concat", inputs, TotalSize(inputs))
    /\ tensor_names' = Append(tensor_names, next_buffer_id)
    /\ tensors' = Append(SetParents(inputs, next_buffer_id), [parent |-> Null, offset |-> 0])
    /\ mutable_buffers' =
           WithBuffer(Restrict(mutable_buffers, DOMAIN mutable_buffers \ ToSet(ids)),
                      start, here, TotalSize(inputs))
    /\ UNCHANGED immutable_buffers

(* Mutant of mergeConcatMutableTensors: the buffer starts with the node.   *)
Mut_MergeStartsHere(inputs) ==
    /\ Optimizable(inputs) /\ Mergeable(TensorsOf(inputs))
    /\ Merge(inputs, here)

mergeConcatMutableTensors(inputs) ==
    /\ Optimizable(inputs) /\ Mergeable(TensorsOf(inputs))
    /\ Merge(inputs, Min({mutable_buffers[id].start : id \in ToSet(TensorsOf(inputs))}))

(* The inputs a node may have.                                             *)
Lists == UNION {[1..n -> Sources] : n \in 1..MaxInputs}

(* The constructor throws: compile_model fails.                            *)
Refuse ==
    /\ phase = "extract"
    /\ \/ \E inputs \in Lists :
             /\ here < NumNodes
             /\ Optimizable(inputs) /\ ~Mergeable(TensorsOf(inputs))
       \/ \E i \in Sources : stable /\ tensor_names[i] \notin DOMAIN mutable_buffers
    /\ phase' = "refused"
    /\ UNCHANGED <<stable, nodes, tensor_names, tensors, mutable_buffers,
                   immutable_buffers, release>>

-----------------------------------------------------------------------------
UsersOf(b) == {i \in 1..Len(nodes) : \E j \in Inputs(i) : Buffer(j) = b}

(* Mutant of ExtendLifespans: the use by another node ends the lifespan,   *)
(* the first one instead of the last.                                      *)
Mut_EndsWithFirstUse ==
    /\ phase = "extend"
    /\ phase' = "schedule"
    /\ mutable_buffers' = [b \in DOMAIN mutable_buffers |->
           [mutable_buffers[b] EXCEPT !.end =
               IF UsersOf(b) = {} THEN @ ELSE Max({@, Min(UsersOf(b))})]]
    /\ UNCHANGED <<stable, nodes, tensor_names, tensors, immutable_buffers, release>>

(* The second loop of the constructor: a buffer lives until the last node  *)
(* that reads one of its tensors.                                          *)
ExtendLifespans ==
    /\ phase = "extend"
    /\ phase' = "schedule"
    /\ mutable_buffers' = [b \in DOMAIN mutable_buffers |->
           [mutable_buffers[b] EXCEPT !.end = Max({@} \union UsersOf(b))]]
    /\ UNCHANGED <<stable, nodes, tensor_names, tensors, immutable_buffers, release>>

(* SubGraph::isDynamicOp: such a node is run by a DynamicOperation.        *)
IsDynamicOp(i) ==
    /\ ~IsKind(i, {"Constant", "Reshape", "Concat"})
    /\ nodes[i].size = 0 \/ \E j \in Inputs(i) : nodes[j].size = 0

(* A buffer of unknown size is released by the last node that uses it, if  *)
(* that one is a DynamicOperation; otherwise with the inference.           *)
createDynamicReleaseSchedule ==
    /\ phase = "schedule"
    /\ phase' = "done"
    /\ release' = {<<b, mutable_buffers[b].end>> :
                      b \in {b \in DOMAIN mutable_buffers :
                                /\ mutable_buffers[b].size = 0
                                /\ mutable_buffers[b].end <= NumNodes
                                /\ IsDynamicOp(mutable_buffers[b].end)}}
    /\ UNCHANGED <<stable, nodes, tensor_names, tensors, mutable_buffers, immutable_buffers>>

-----------------------------------------------------------------------------
(* A loop body has no dynamic tensors.                                     *)
Sizes == (IF stable THEN 1 ELSE 0)..MaxSize

(* The order of its inputs means nothing to the plan, except in a Concat.  *)
Sorted(inputs) == \A k, m \in DOMAIN inputs : k < m => inputs[k] < inputs[m]

NextPlan ==
    \/ \E s \in Sizes : extractParameterTensors(s)
    \/ extractImmutableTensors
    \/ \E inputs \in Lists, s \in Sizes : Sorted(inputs) /\ extractMutableTensors(inputs, s)
    \/ \E i \in Sources : extractReshapeTensors(i) \/ extractResultTensors(i)
    \/ \E inputs \in Lists : mergeConcatMutableTensors(inputs)
    \/ Refuse
    \/ ExtendLifespans
    \/ createDynamicReleaseSchedule

PlanSpec == InitPlan /\ [][NextPlan]_planVars

-----------------------------------------------------------------------------
(* What the plan is for: running the nodes in order, in memory that        *)
(* buffers share.                                                          *)

(* The nodes that write the output of node i, each with the offset in it   *)
(* at which its part belongs.                                              *)
PartsOf(ns) ==
    LET parts[i \in 1..Len(ns)] ==
            IF ns[i].kind \in {"Reshape", "Result"} THEN parts[ns[i].inputs[1]]
            ELSE IF ns[i].kind = "Concat"
            THEN UNION {{<<w[1], w[2] + SizeOf(ns, ns[i].inputs, k - 1)>> :
                           w \in parts[ns[i].inputs[k]]} : k \in DOMAIN ns[i].inputs}
            ELSE {<<i, 0>>}
    IN  parts
Parts == PartsOf(nodes)

InBlock(i) == Buffer(i) \in DOMAIN mutable_buffers /\ nodes[i].size # 0

(* Two nodes write to the same memory.                                     *)
Collide(i, j) ==
    /\ InBlock(i) /\ InBlock(j)
    /\ LET a == mutable_buffers[Buffer(i)]
           b == mutable_buffers[Buffer(j)]
       IN  IF Buffer(i) = Buffer(j)
           THEN Offset(i) < Offset(j) + nodes[j].size /\ Offset(j) < Offset(i) + nodes[i].size
           ELSE a.end < b.start \/ b.end < a.start

Ops == {i \in 1..Len(nodes) : IsKind(i, {"Op"})}
Parameters == {i \in 1..Len(nodes) : IsKind(i, {"Parameter"})}

(* The nodes that write to the block while the sequence runs: the          *)
(* parameters of a loop body are written before it.                        *)
Writers == IF stable THEN Ops ELSE Ops \union Parameters

(* Every buffer that is needed exists: one for every root of a tensor that *)
(* is not a constant, of the size of all its parts, with lifespans that do *)
(* not end before they start.                                              *)
PlanTypeOK ==
    /\ phase \in {"extract", "extend", "schedule", "done", "refused"}
    /\ Len(tensor_names) = Len(nodes)
    /\ \A i \in 1..Len(nodes) :
           /\ Buffer(i) \in (DOMAIN mutable_buffers) \union immutable_buffers
           /\ InBlock(i) => Offset(i) + nodes[i].size <= mutable_buffers[Buffer(i)].size
    /\ \A b \in DOMAIN mutable_buffers :
           /\ tensors[b].parent = Null
           /\ 1 <= mutable_buffers[b].start
           /\ mutable_buffers[b].start <= mutable_buffers[b].end
           /\ mutable_buffers[b].end <= TheEnd

(* A Concat of two aliases of one tensor: that tensor can be in one of the *)
(* two places only, and the code does not notice.                          *)
AliasesMerged ==
    \E i \in 1..Len(nodes) : IsKind(i, {"Concat"}) /\ ~IsInjective(TensorsOf(nodes[i].inputs))

(* Every part of a tensor that an operation or a Result reads is where the *)
(* operation expects it, and no node has written over it since it was      *)
(* made: Concat and Reshape move no data, and the block is shared.         *)
TensorsSurviveUntilRead ==
    phase = "done" /\ ~AliasesMerged =>
        \A i \in Ops \union {r \in 1..Len(nodes) : IsKind(r, {"Result"})} :
            \A j \in Inputs(i) : \A w \in Parts[j] :
                /\ Buffer(w[1]) = Buffer(j)
                /\ Offset(w[1]) = Offset(j) + w[2]
                /\ \A k \in Writers : w[1] < k /\ k <= i => ~Collide(k, w[1])

(* A Concat took the tensor of node i: the merged buffer ends with its own *)
(* readers, and the end that a loop body asked for is lost.                *)
Merged(i) == tensors[tensor_names[i]].parent # Null

(* In the body of a loop the parameters keep their values from iteration   *)
(* to iteration, and the results theirs until they were copied to the      *)
(* parameters and the outputs, unless a Concat merged them.                *)
StableTensorsSurvive ==
    phase = "done" /\ stable /\ ~AliasesMerged =>
        /\ \A p \in Parameters, k \in Ops : Merged(p) \/ ~Collide(p, k)
        /\ \A r \in 1..Len(nodes) : IsKind(r, {"Result"}) /\ ~Merged(r) =>
               \A w \in Parts[r] :
                   /\ \A k \in Ops : w[1] < k => ~Collide(k, w[1])
                   /\ \A p \in Parameters \ {w[1]} : Merged(p) \/ ~Collide(p, w[1])

(* A dynamic buffer is released by a node after which nobody reads it.     *)
ReleasedAfterLastRead ==
    \A r \in release : \A k \in UsersOf(r[1]) : k <= r[2]
=============================================================================
