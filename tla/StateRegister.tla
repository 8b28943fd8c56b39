--------------------------- MODULE StateRegister ---------------------------
(***************************************************************************)
(* What a variable of a stateful model promises (ov::IVariableState): one  *)
(* value, replaced as a whole, and back to zeros of the initial shape when *)
(* it is reset.  A write that fails promises nothing of the value until    *)
(* the next write or reset.                                                *)
(***************************************************************************)
EXTENDS Naturals, Sequences

CONSTANTS Values, MaxLen, InitialLen, Zero

VARIABLES
    value,    \* the elements of the state
    fresh,    \* nothing was written since the last reset
    spoilt    \* the last write failed

Zeros(n) == [i \in 1..n |-> Zero]

Init ==
    /\ value = Zeros(InitialLen)
    /\ fresh = TRUE
    /\ spoilt = FALSE

Write ==
    /\ \E v \in Values, n \in 0..MaxLen : value' = [i \in 1..n |-> v]
    /\ fresh' = FALSE
    /\ spoilt' = FALSE

FailWrite == spoilt' = TRUE /\ UNCHANGED fresh

Reset ==
    /\ value' = Zeros(InitialLen)
    /\ fresh' = TRUE
    /\ spoilt' = FALSE

Next == Write \/ FailWrite \/ Reset

Spec == Init /\ [][Next]_<<value, fresh, spoilt>>
=============================================================================
