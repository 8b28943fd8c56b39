--------------------------- MODULE VariableState ---------------------------
(***************************************************************************)
(* CudaVariableState (cuda_variable_state.hpp), the GPU-resident state of  *)
(* a stateful model such as a KV-cache, with the two operations that use   *)
(* it in an inference, DynamicOperation::executeReadValue and              *)
(* executeAssign (cuda_dynamic_operation.cpp), and the user that calls     *)
(* set_state and reset.                                                    *)
(*                                                                         *)
(* A shape is its number of elements, the element size is one byte.  The   *)
(* state's copies run on the default stream, which waits for the streams   *)
(* of the requests and makes them wait, so copies take effect in the order *)
(* in which they are issued.                                               *)
(*                                                                         *)
(* One action is one critical section of mutex_.                           *)
(***************************************************************************)
EXTENDS Naturals, Sequences

CONSTANTS
    Values,           \* what set_state and Assign may write
    MaxLen,           \* bound on the number of elements
    InitialLen,       \* elements of initial_shape_ (0 for an empty KV-cache)
    MallocMayFail,    \* cudaMalloc may fail
    Zero, Junk, InitValue,    \* elements: zeroed, never written, initializer
    None

ASSUME StateAssumption ==
    /\ MaxLen \in Nat /\ InitialLen \in 0..MaxLen
    /\ MallocMayFail \in BOOLEAN
    /\ {Zero, Junk, InitValue} \intersect Values = {}

VARIABLES
    has_init,         \* the ReadValue node has an initializer input
    current_shape,
    device_buffer,    \* the elements of the allocation, Len = capacity_bytes_
    is_reset,
    pc,               \* where the inference is
    shape,            \* what state->shape() returned to executeReadValue
    byte_size,        \* what state->device_buffer_byte_size() returned
    out,              \* [shape, buffer] registered for ReadValue, or None
    want,             \* what ReadValue shall produce: the state when it began,
                      \* or None when the user touched it since (history)
    broken            \* the last call of set_state failed to allocate (history)

vars == <<has_init, current_shape, device_buffer, is_reset, pc, shape, byte_size,
          out, want, broken>>

stateVars == <<current_shape, device_buffer, is_reset>>
localVars == <<has_init, pc, shape, byte_size, out>>

Fill(n, x) == [i \in 1..n |-> x]

capacity_bytes == Len(device_buffer)

Init ==
    /\ has_init \in BOOLEAN
    /\ current_shape = InitialLen
    /\ device_buffer = Fill(InitialLen, Zero)
    /\ is_reset = TRUE
    /\ pc = "idle"
    /\ shape = 0
    /\ byte_size = 0
    /\ out = None
    /\ want = None
    /\ broken = FALSE

-----------------------------------------------------------------------------
(* The buffer after ensure_device_buffer(n): it only grows, and loses its  *)
(* contents when it does.                                                  *)
Ensured(n) == IF n > capacity_bytes THEN Fill(n, Junk) ELSE device_buffer

(* n elements of the state; beyond the allocation, whatever is there.      *)
Elements(n) ==
    [i \in 1..n |-> IF i <= capacity_bytes THEN device_buffer[i] ELSE Junk]

(* The first n elements of the buffer become x.                            *)
Overwritten(b, n, x) == [i \in DOMAIN b |-> IF i <= n THEN x ELSE b[i]]

(* The user calls at any time; what an inference in progress reads is then *)
(* no longer determined.                                                   *)
Touched == want' = IF pc = "idle" THEN want ELSE None

(* set_state(v of n elements).                                             *)
SetState(v, n) ==
    /\ current_shape' = n
    /\ device_buffer' = Overwritten(Ensured(n), n, v)
    /\ is_reset' = FALSE
    /\ broken' = FALSE
    /\ Touched
    /\ UNCHANGED localVars

(* set_state whose cudaMalloc throws: the shape is set, the rest is not.   *)
FailSetState(n) ==
    /\ MallocMayFail
    /\ n > capacity_bytes
    /\ current_shape' = n
    /\ broken' = TRUE
    /\ Touched
    /\ UNCHANGED <<device_buffer, is_reset, localVars>>

(* Mutant of Reset: the state keeps the shape it has grown to.             *)
Mut_ResetKeepsShape ==
    /\ device_buffer' = Fill(capacity_bytes, Zero)
    /\ is_reset' = TRUE
    /\ broken' = FALSE
    /\ Touched
    /\ UNCHANGED <<current_shape, localVars>>

(* reset().                                                                *)
Reset ==
    /\ current_shape' = InitialLen
    /\ device_buffer' = Fill(capacity_bytes, Zero)
    /\ is_reset' = TRUE
    /\ broken' = FALSE
    /\ Touched
    /\ UNCHANGED localVars

-----------------------------------------------------------------------------
(* An inference: ReadValue, then Assign.                                   *)

(* is_reset_state(): the state is in use.                                  *)
ReadStored ==
    /\ pc = "idle"
    /\ ~is_reset
    /\ want' = IF broken THEN None ELSE Elements(current_shape)
    /\ out' = None
    /\ pc' = "shape"
    /\ UNCHANGED <<has_init, broken, stateVars, shape, byte_size>>

ReadShape ==
    /\ pc = "shape"
    /\ shape' = current_shape
    /\ pc' = "size"
    /\ UNCHANGED <<has_init, broken, stateVars, byte_size, out, want>>

ReadSize ==
    /\ pc = "size"
    /\ byte_size' = current_shape
    /\ pc' = "copy"
    /\ UNCHANGED <<has_init, broken, stateVars, shape, out, want>>

(* read_device_state into a new allocation of byte_size, which is then     *)
(* registered with the shape.                                              *)
Copy ==
    /\ pc = "copy"
    /\ out' = [shape |-> shape,
               buffer |-> [i \in 1..byte_size |->
                             IF i <= current_shape THEN Elements(current_shape)[i] ELSE Junk]]
    /\ pc' = "compute"
    /\ UNCHANGED <<has_init, broken, stateVars, shape, byte_size, want>>

(* is_reset_state(): first inference or after a reset, with an initializer *)
(* of n elements.                                                          *)
ReadInitializer(n) ==
    /\ pc = "idle"
    /\ is_reset
    /\ has_init
    /\ want' = Fill(n, InitValue)
    /\ out' = [shape |-> n, buffer |-> Fill(n, InitValue)]
    /\ pc' = "compute"
    /\ UNCHANGED <<has_init, broken, stateVars, shape, byte_size>>

(* ... without one: zeros of the shape that the state has when it is asked *)
(* for it, in another critical section.                                    *)
ReadReset ==
    /\ pc = "idle"
    /\ is_reset
    /\ ~has_init
    /\ want' = IF broken THEN None ELSE Elements(current_shape)
    /\ out' = None
    /\ pc' = "zeros"
    /\ UNCHANGED <<has_init, broken, stateVars, shape, byte_size>>

FillZeros ==
    /\ pc = "zeros"
    /\ out' = [shape |-> current_shape, buffer |-> Fill(current_shape, Zero)]
    /\ pc' = "compute"
    /\ UNCHANGED <<has_init, broken, stateVars, shape, byte_size, want>>

(* Mutant of Assign: the flag that reset() set stays.                      *)
Mut_AssignKeepsReset(v, n) ==
    /\ pc = "compute"
    /\ device_buffer' = Overwritten(Ensured(n), n, v)
    /\ current_shape' = n
    /\ broken' = FALSE
    /\ pc' = "idle"
    /\ UNCHANGED <<has_init, is_reset, shape, byte_size, out, want>>

(* Mutant of Assign: the buffer is not grown when it exists already.       *)
Mut_AssignDoesNotGrow(v, n) ==
    /\ pc = "compute"
    /\ device_buffer' = IF capacity_bytes = 0 THEN Fill(n, v)
                        ELSE Overwritten(device_buffer, n, v)
    /\ current_shape' = n
    /\ is_reset' = FALSE
    /\ broken' = FALSE
    /\ pc' = "idle"
    /\ UNCHANGED <<has_init, shape, byte_size, out, want>>

(* update_device_state(v of n elements) at the end of the inference.       *)
Assign(v, n) ==
    /\ pc = "compute"
    /\ device_buffer' = Overwritten(Ensured(n), n, v)
    /\ current_shape' = n
    /\ is_reset' = FALSE
    /\ broken' = FALSE
    /\ pc' = "idle"
    /\ UNCHANGED <<has_init, shape, byte_size, out, want>>

(* The inference fails on the way to its Assign, or in it: cudaMalloc      *)
(* throws before anything is changed.                                      *)
FailInference ==
    /\ pc # "idle"
    /\ pc' = "idle"
    /\ UNCHANGED <<has_init, broken, stateVars, shape, byte_size, out, want>>

User ==
    \/ \E v \in Values, n \in 0..MaxLen : SetState(v, n)
    \/ \E n \in 0..MaxLen : FailSetState(n)
    \/ Reset

Inference ==
    \/ ReadStored
    \/ ReadShape
    \/ ReadSize
    \/ Copy
    \/ \E n \in 0..MaxLen : ReadInitializer(n)
    \/ ReadReset
    \/ FillZeros
    \/ \E v \in Values, n \in 0..MaxLen : Assign(v, n)
    \/ FailInference

Next == User \/ Inference

Spec == Init /\ [][Next]_vars

-----------------------------------------------------------------------------
(* Every variable has its type, and a state that is reset has its initial  *)
(* shape.                                                                  *)
TypeOK ==
    /\ has_init \in BOOLEAN /\ is_reset \in BOOLEAN /\ broken \in BOOLEAN
    /\ current_shape \in 0..MaxLen
    /\ device_buffer \in Seq(Values \union {Zero, Junk})
    /\ capacity_bytes <= MaxLen
    /\ is_reset /\ ~broken => current_shape = InitialLen
    /\ pc \in {"idle", "shape", "size", "copy", "zeros", "compute"}
    /\ shape \in 0..MaxLen /\ byte_size \in 0..MaxLen

(* The copies of the state are of its logical size, and that never exceeds *)
(* what is allocated, however the shape grows and shrinks ("a shrunk shape *)
(* never over-reads the buffer"); after a set_state that failed to         *)
(* allocate the next call that succeeds makes it so again.                 *)
CopiesStayInBuffer == ~broken => current_shape <= capacity_bytes

(* ReadValue hands the inference the state as it was: the shape and the    *)
(* elements that the last of set_state, reset and Assign left, or the      *)
(* initializer if that was a reset (or there was none yet).                *)
ReadValueSeesState ==
    out # None /\ want # None => out.shape = Len(want) /\ out.buffer = want

(* The state is a register that is read and written as a whole, whatever   *)
(* the allocation holds beyond its shape, until a write fails.             *)
Register == INSTANCE StateRegister WITH
    value  <- Elements(current_shape),
    fresh  <- is_reset,
    spoilt <- broken

ImplementsStateRegister == Register!Spec
=============================================================================
