-------------------------- MODULE MCInferPipeline --------------------------
(* TLC instances of InferPipeline.  Requests are interchangeable, and so   *)
(* are threads: the runs without liveness use the symmetry.                *)
EXTENDS InferPipeline

Symmetry == Permutations(Requests) \union Permutations(Threads)

AllStages == Stages
=============================================================================
