---------------------- MODULE MCDynamicOperationCache ----------------------
(* DynamicOperationCache for TLC: requests, keys and addresses are         *)
(* interchangeable.                                                        *)
EXTENDS DynamicOperationCache, TLC

Symmetry == Permutations(Requests) \union Permutations(Keys) \union Permutations(Ops)
=============================================================================
