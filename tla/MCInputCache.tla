---------------------------- MODULE MCInputCache ----------------------------
(* Instances of InputCache for TLC.                                        *)
EXTENDS InputCache

CONSTANTS a, b          \* the tokens

TwoSlots == 0..1

(* Prompts that continue, share a prefix with, or differ from one another. *)
SomePrompts == {<<b, a>>, <<a, b, a>>}
=============================================================================
