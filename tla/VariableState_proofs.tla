------------------------ MODULE VariableState_proofs ------------------------
(***************************************************************************)
(* Proofs about VariableState, for every set of values and every bound on  *)
(* the shape: types, that copies stay in the buffer, that ReadValue sees   *)
(* the state, and that the state implements StateRegister.                 *)
(***************************************************************************)
EXTENDS VariableState, TLAPS

(* What a freshly filled or overwritten buffer looks like.                 *)
Contents == Values \cup {Zero, Junk}

LEMMA Filled ==
  ASSUME NEW S, NEW x \in S, NEW n \in Nat
  PROVE  /\ Fill(n, x) \in Seq(S)
         /\ Len(Fill(n, x)) = n
         /\ \A i \in 1..n : Fill(n, x)[i] = x
BY DEF Fill

LEMMA Written ==
  ASSUME NEW S, NEW b \in Seq(S), NEW x \in S, NEW n \in Nat
  PROVE  /\ Overwritten(b, n, x) \in Seq(S)
         /\ Len(Overwritten(b, n, x)) = Len(b)
         /\ \A i \in 1..Len(b) : Overwritten(b, n, x)[i] = IF i <= n THEN x ELSE b[i]
BY DEF Overwritten

(* ensure_device_buffer(n) leaves room for n elements, and never less than *)
(* there was.                                                              *)
LEMMA Grown ==
  ASSUME device_buffer \in Seq(Contents), NEW n \in Nat
  PROVE  /\ Ensured(n) \in Seq(Contents)
         /\ Len(Ensured(n)) >= n
         /\ Len(Ensured(n)) >= capacity_bytes
         /\ Len(Ensured(n)) = n \/ Len(Ensured(n)) = capacity_bytes
<1>1. Junk \in Contents
  BY DEF Contents
<1>2. Fill(n, Junk) \in Seq(Contents) /\ Len(Fill(n, Junk)) = n
  BY <1>1, Filled
<1>3. Len(device_buffer) \in Nat
  OBVIOUS
<1> QED BY <1>2, <1>3 DEF Ensured, capacity_bytes

(* The buffer after a write of n elements x.                               *)
LEMMA WrittenState ==
  ASSUME device_buffer \in Seq(Contents), NEW n \in Nat, NEW x \in Values
  PROVE  LET b == Overwritten(Ensured(n), n, x)
         IN  /\ b \in Seq(Contents)
             /\ Len(b) >= n
             /\ Len(b) >= capacity_bytes
             /\ Len(b) = n \/ Len(b) = capacity_bytes
             /\ \A i \in 1..n : b[i] = x
<1>1. x \in Contents
  BY DEF Contents
<1>2. /\ Ensured(n) \in Seq(Contents)
      /\ Len(Ensured(n)) >= n
      /\ Len(Ensured(n)) >= capacity_bytes
      /\ Len(Ensured(n)) = n \/ Len(Ensured(n)) = capacity_bytes
  BY Grown
<1> DEFINE b == Overwritten(Ensured(n), n, x)
<1>3. /\ b \in Seq(Contents)
      /\ Len(b) = Len(Ensured(n))
      /\ \A i \in 1..Len(Ensured(n)) : b[i] = IF i <= n THEN x ELSE Ensured(n)[i]
  BY <1>1, <1>2, Written
<1>4. \A i \in 1..n : b[i] = x
  <2>1. Len(Ensured(n)) \in Nat
    BY <1>2
  <2> QED BY <1>2, <1>3, <2>1
<1> QED BY <1>2, <1>3, <1>4

-----------------------------------------------------------------------------
(* Every variable keeps its type, for every set of values and every bound *)
(* on the shape, whatever cudaMalloc and the user do.                      *)
THEOREM TypeCorrect == Spec => []TypeOK
<1>. USE StateAssumption DEF capacity_bytes
<1>1. Init => TypeOK
  <2> SUFFICES ASSUME Init PROVE TypeOK
    OBVIOUS
  <2>1. InitialLen \in Nat /\ InitialLen <= MaxLen
    OBVIOUS
  <2>2. device_buffer \in Seq(Contents) /\ Len(device_buffer) = InitialLen
    BY <2>1, Filled DEF Init, Contents
  <2>3. /\ current_shape = InitialLen /\ current_shape \in 0..MaxLen
        /\ shape \in 0..MaxLen /\ byte_size \in 0..MaxLen
    BY <2>1 DEF Init
  <2>4. capacity_bytes <= MaxLen
    BY <2>1, <2>2
  <2>5. /\ has_init \in BOOLEAN /\ is_reset \in BOOLEAN /\ broken \in BOOLEAN
        /\ pc = "idle"
    BY DEF Init
  <2> QED BY <2>2, <2>3, <2>4, <2>5 DEF TypeOK, Contents
<1>2. TypeOK /\ [Next]_vars => TypeOK'
  <2> SUFFICES ASSUME TypeOK, [Next]_vars PROVE TypeOK'
    OBVIOUS
  <2>0. /\ device_buffer \in Seq(Contents) /\ Len(device_buffer) \in Nat
        /\ Len(device_buffer) <= MaxLen /\ 0..MaxLen \subseteq Nat
    BY DEF TypeOK, Contents
  <2>1. ASSUME NEW v \in Values, NEW n \in 0..MaxLen, SetState(v, n) PROVE TypeOK'
    <3>0. n \in Nat /\ n <= MaxLen
      BY <2>0
    <3>1. /\ device_buffer' \in Seq(Contents)
          /\ Len(device_buffer') = n \/ Len(device_buffer') = Len(device_buffer)
      BY <2>0, <2>1, <3>0, WrittenState DEF SetState
    <3>2. Len(device_buffer') <= MaxLen
      BY <2>0, <3>0, <3>1
    <3> QED BY <2>1, <3>1, <3>2 DEF SetState, localVars, TypeOK, Contents
  <2>2. ASSUME NEW n \in 0..MaxLen, FailSetState(n) PROVE TypeOK'
    BY <2>2 DEF FailSetState, localVars, TypeOK
  <2>3. CASE Reset
    <3>1. /\ device_buffer' \in Seq(Contents) /\ Len(device_buffer') = Len(device_buffer)
      BY <2>0, <2>3, Filled DEF Reset, Contents
    <3> QED BY <2>0, <2>3, <3>1 DEF Reset, localVars, TypeOK, Contents
  <2>4. CASE ReadStored
    BY <2>4 DEF ReadStored, stateVars, TypeOK
  <2>5. CASE ReadShape
    BY <2>5 DEF ReadShape, stateVars, TypeOK
  <2>6. CASE ReadSize
    BY <2>6 DEF ReadSize, stateVars, TypeOK
  <2>7. CASE Copy
    BY <2>7 DEF Copy, stateVars, TypeOK
  <2>8. ASSUME NEW n \in 0..MaxLen, ReadInitializer(n) PROVE TypeOK'
    BY <2>8 DEF ReadInitializer, stateVars, TypeOK
  <2>9. CASE ReadReset
    BY <2>9 DEF ReadReset, stateVars, TypeOK
  <2>10. CASE FillZeros
    BY <2>10 DEF FillZeros, stateVars, TypeOK
  <2>11. ASSUME NEW v \in Values, NEW n \in 0..MaxLen, Assign(v, n) PROVE TypeOK'
    <3>0. n \in Nat /\ n <= MaxLen
      BY <2>0
    <3>1. /\ device_buffer' \in Seq(Contents)
          /\ Len(device_buffer') = n \/ Len(device_buffer') = Len(device_buffer)
      BY <2>0, <2>11, <3>0, WrittenState DEF Assign
    <3>2. Len(device_buffer') <= MaxLen
      BY <2>0, <3>0, <3>1
    <3> QED BY <2>11, <3>1, <3>2 DEF Assign, TypeOK, Contents
  <2>12. CASE FailInference
    BY <2>12 DEF FailInference, stateVars, TypeOK
  <2>13. CASE UNCHANGED vars
    BY <2>13 DEF vars, TypeOK
  <2> QED
    BY <2>1, <2>2, <2>3, <2>4, <2>5, <2>6, <2>7, <2>8, <2>9, <2>10, <2>11, <2>12, <2>13
    DEF Next, User, Inference
<1> QED BY <1>1, <1>2, PTL DEF Spec

-----------------------------------------------------------------------------
(* Copies of the state stay in its buffer unless a set_state has failed to *)
(* allocate.  Inductive with a buffer that is never smaller than the       *)
(* initial shape, which reset() returns to without allocating.             *)
Fits == CopiesStayInBuffer /\ InitialLen <= capacity_bytes

LEMMA FitsInitially == Init => Fits
<1> SUFFICES ASSUME Init PROVE Fits
  OBVIOUS
<1>1. InitialLen \in Nat
  BY StateAssumption
<1>2. Len(device_buffer) = InitialLen
  BY <1>1, Filled DEF Init
<1> QED BY <1>1, <1>2 DEF Init, Fits, CopiesStayInBuffer, capacity_bytes

LEMMA FitsStays == TypeOK /\ Fits /\ [Next]_vars => Fits'
<1> SUFFICES ASSUME TypeOK, Fits, [Next]_vars PROVE Fits'
  OBVIOUS
<1>. USE StateAssumption DEF capacity_bytes, Fits, CopiesStayInBuffer
<1>0. /\ device_buffer \in Seq(Contents) /\ Len(device_buffer) \in Nat
      /\ 0..MaxLen \subseteq Nat /\ InitialLen \in Nat
  BY DEF TypeOK, Contents
<1>1. ASSUME NEW v \in Values, NEW n \in 0..MaxLen, SetState(v, n) PROVE Fits'
  <2>1. /\ Len(device_buffer') >= n /\ Len(device_buffer') >= Len(device_buffer)
        /\ Len(device_buffer') \in Nat
    BY <1>0, <1>1, WrittenState DEF SetState
  <2> QED BY <1>0, <1>1, <2>1 DEF SetState
<1>2. ASSUME NEW n \in 0..MaxLen, FailSetState(n) PROVE Fits'
  BY <1>2 DEF FailSetState
<1>3. CASE Reset
  <2>1. Len(device_buffer') = Len(device_buffer)
    BY <1>0, <1>3, Filled DEF Reset, Contents
  <2> QED BY <1>3, <2>1 DEF Reset
<1>4. ASSUME NEW v \in Values, NEW n \in 0..MaxLen, Assign(v, n) PROVE Fits'
  <2>1. /\ Len(device_buffer') >= n /\ Len(device_buffer') >= Len(device_buffer)
        /\ Len(device_buffer') \in Nat
    BY <1>0, <1>4, WrittenState DEF Assign
  <2> QED BY <1>0, <1>4, <2>1 DEF Assign
<1>5. CASE UNCHANGED <<stateVars, broken>>
  BY <1>5 DEF stateVars
<1>6. CASE UNCHANGED vars
  BY <1>6 DEF vars
<1> QED
  BY <1>1, <1>2, <1>3, <1>4, <1>5, <1>6
  DEF Next, User, Inference, ReadStored, ReadShape, ReadSize, Copy, ReadInitializer,
      ReadReset, FillZeros, FailInference

(* The logical size of the state never exceeds what is allocated for it,   *)
(* for every MaxLen and InitialLen, unless the last set_state failed to    *)
(* allocate (CudaVariableState's copies are of the logical size).          *)
THEOREM StateFits == Spec => []CopiesStayInBuffer
<1>1. Fits => CopiesStayInBuffer
  BY DEF Fits
<1> QED BY <1>1, FitsInitially, FitsStays, TypeCorrect, PTL DEF Spec

-----------------------------------------------------------------------------
(* The elements of the state after each of the calls that change it.       *)
LEMMA ElementsWritten ==
  ASSUME device_buffer \in Seq(Contents), NEW n \in Nat, NEW x \in Values,
         current_shape' = n, device_buffer' = Overwritten(Ensured(n), n, x)
  PROVE  Elements(current_shape)' = [i \in 1..n |-> x]
<1>1. /\ device_buffer' \in Seq(Contents)
      /\ Len(device_buffer') >= n
      /\ \A i \in 1..n : device_buffer'[i] = x
  BY WrittenState
<1>2. Len(device_buffer') \in Nat
  BY <1>1
<1>3. \A i \in 1..n : i <= Len(device_buffer')
  BY <1>1, <1>2
<1> QED BY <1>1, <1>3 DEF Elements, capacity_bytes

LEMMA ElementsReset ==
  ASSUME device_buffer \in Seq(Contents), Fits, Reset
  PROVE  Elements(current_shape)' = [i \in 1..InitialLen |-> Zero]
<1>1. /\ current_shape' = InitialLen
      /\ device_buffer' = Fill(Len(device_buffer), Zero)
  BY DEF Reset, capacity_bytes
<1>2. /\ Len(device_buffer) \in Nat /\ InitialLen \in Nat
      /\ InitialLen <= Len(device_buffer)
  BY StateAssumption DEF Fits, capacity_bytes
<1>3. /\ Len(device_buffer') = Len(device_buffer)
      /\ \A i \in 1..Len(device_buffer) : device_buffer'[i] = Zero
  BY <1>1, <1>2, Filled DEF Contents
<1>4. \A i \in 1..InitialLen : i \in 1..Len(device_buffer) /\ i <= Len(device_buffer')
  BY <1>2, <1>3
<1> QED BY <1>1, <1>3, <1>4 DEF Elements, capacity_bytes

(* The state that the user and the inferences share is a register: set,    *)
(* reset and assigned as a whole, whatever the buffer has been through.    *)
THEOREM RefinesRegister == Spec => ImplementsStateRegister
<1>1. Init => Register!Init
  <2> SUFFICES ASSUME Init PROVE Register!Init
    OBVIOUS
  <2>1. InitialLen \in Nat
    BY StateAssumption
  <2>2. /\ Len(device_buffer) = InitialLen
        /\ \A i \in 1..InitialLen : device_buffer[i] = Zero
    BY <2>1, Filled DEF Init
  <2>3. \A i \in 1..InitialLen : i <= Len(device_buffer)
    BY <2>1, <2>2
  <2>4. Elements(current_shape) = [i \in 1..InitialLen |-> Zero]
    BY <2>2, <2>3 DEF Init, Elements, capacity_bytes
  <2> QED BY <2>4 DEF Init, Register!Init, Register!Zeros
<1>2. TypeOK /\ Fits /\ [Next]_vars
        => [Register!Next]_<<Elements(current_shape), is_reset, broken>>
  <2> SUFFICES ASSUME TypeOK, Fits, [Next]_vars
               PROVE  [Register!Next]_<<Elements(current_shape), is_reset, broken>>
    OBVIOUS
  <2>0. device_buffer \in Seq(Contents) /\ 0..MaxLen \subseteq Nat
    BY StateAssumption DEF TypeOK, Contents
  <2>1. ASSUME NEW v \in Values, NEW n \in 0..MaxLen, SetState(v, n)
        PROVE  Register!Next
    <3>1. Elements(current_shape)' = [i \in 1..n |-> v]
      BY <2>0, <2>1, ElementsWritten DEF SetState
    <3> QED BY <2>1, <3>1 DEF SetState, Register!Next, Register!Write
  <2>2. ASSUME NEW n \in 0..MaxLen, FailSetState(n) PROVE Register!Next
    BY <2>2 DEF FailSetState, Register!Next, Register!FailWrite
  <2>3. CASE Reset
    <3>1. Elements(current_shape)' = [i \in 1..InitialLen |-> Zero]
      BY <2>0, <2>3, ElementsReset
    <3> QED BY <2>3, <3>1 DEF Reset, Register!Next, Register!Reset, Register!Zeros
  <2>4. ASSUME NEW v \in Values, NEW n \in 0..MaxLen, Assign(v, n)
        PROVE  Register!Next
    <3>1. Elements(current_shape)' = [i \in 1..n |-> v]
      BY <2>0, <2>4, ElementsWritten DEF Assign
    <3> QED BY <2>4, <3>1 DEF Assign, Register!Next, Register!Write
  <2>5. CASE UNCHANGED <<stateVars, broken>>
    BY <2>5 DEF stateVars, Elements, capacity_bytes
  <2>6. CASE UNCHANGED vars
    BY <2>6 DEF vars, Elements, capacity_bytes
  <2> QED
    BY <2>1, <2>2, <2>3, <2>4, <2>5, <2>6
    DEF Next, User, Inference, ReadStored, ReadShape, ReadSize, Copy,
        ReadInitializer, ReadReset, FillZeros, FailInference
<1> QED
  BY <1>1, <1>2, FitsInitially, FitsStays, TypeCorrect, PTL
  DEF Spec, ImplementsStateRegister, Register!Spec

-----------------------------------------------------------------------------
(* What an inference that nobody disturbs has read so far.  A reset state  *)
(* is zeros, which is why executeReadValue need not copy it.               *)
Undisturbed == want # None /\ pc \in {"shape", "size", "copy", "zeros"}

Reading ==
    /\ is_reset => \A i \in 1..capacity_bytes : device_buffer[i] = Zero
    /\ Undisturbed => ~broken /\ want = Elements(current_shape)
    /\ Undisturbed /\ pc \in {"size", "copy"} => shape = current_shape
    /\ Undisturbed /\ pc = "copy" => byte_size = current_shape
    /\ Undisturbed /\ pc = "zeros" => is_reset
    /\ ReadValueSeesState

(* ReadValue hands the inference the state as the last write left it.      *)
THEOREM ReadsSeeState == Spec => []ReadValueSeesState
<1>. USE DEF capacity_bytes
<1>1. Init => Reading
  <2> SUFFICES ASSUME Init PROVE Reading
    OBVIOUS
  <2>1. InitialLen \in Nat
    BY StateAssumption
  <2>2. \A i \in 1..Len(device_buffer) : device_buffer[i] = Zero
    BY <2>1, Filled DEF Init
  <2> QED BY <2>2 DEF Init, Reading, Undisturbed, ReadValueSeesState
<1>2. TypeOK /\ Fits /\ Reading /\ [Next]_vars => Reading'
  <2> SUFFICES ASSUME TypeOK, Fits, Reading, [Next]_vars PROVE Reading'
    OBVIOUS
  <2>0. /\ device_buffer \in Seq(Contents) /\ Len(device_buffer) \in Nat
        /\ current_shape \in Nat /\ MaxLen \in Nat
    BY StateAssumption DEF TypeOK, Contents
  <2>1. ASSUME NEW v \in Values, NEW n \in 0..MaxLen, SetState(v, n)
        PROVE  Reading'
    BY <2>1 DEF SetState, Touched, localVars, Reading, Undisturbed, ReadValueSeesState
  <2>2. ASSUME NEW n \in 0..MaxLen, FailSetState(n) PROVE Reading'
    BY <2>2 DEF FailSetState, Touched, localVars, Reading, Undisturbed, ReadValueSeesState
  <2>3. CASE Reset
    <3>1. /\ Len(device_buffer') = Len(device_buffer)
          /\ \A i \in 1..Len(device_buffer) : device_buffer'[i] = Zero
      BY <2>0, <2>3, Filled DEF Reset, Contents
    <3> QED
      BY <2>3, <3>1
      DEF Reset, Touched, localVars, Reading, Undisturbed, ReadValueSeesState
  <2>4. CASE ReadStored
    BY <2>4 DEF ReadStored, stateVars, Reading, Undisturbed, ReadValueSeesState, Elements
  <2>5. CASE ReadShape
    BY <2>5 DEF ReadShape, stateVars, Reading, Undisturbed, ReadValueSeesState, Elements
  <2>6. CASE ReadSize
    BY <2>6 DEF ReadSize, stateVars, Reading, Undisturbed, ReadValueSeesState, Elements
  <2>7. CASE Copy
    <3>1. CASE want = None
      BY <2>7, <3>1 DEF Copy, stateVars, Reading, Undisturbed, ReadValueSeesState
    <3>2. CASE want # None
      <4>1. /\ want = Elements(current_shape)
            /\ shape = current_shape /\ byte_size = current_shape
        BY <2>7, <3>2 DEF Copy, Reading, Undisturbed
      <4>2. out'.buffer = want /\ out'.shape = current_shape
        <5>1. \A i \in 1..current_shape : i <= current_shape
          BY <2>0
        <5>2. out'.buffer = [i \in 1..current_shape |-> Elements(current_shape)[i]]
          BY <2>7, <4>1, <5>1 DEF Copy
        <5> QED BY <2>7, <4>1, <5>2 DEF Copy, Elements
      <4>3. Len(want) = current_shape
        BY <2>0, <4>1 DEF Elements
      <4> QED
        BY <2>7, <4>2, <4>3
        DEF Copy, stateVars, Reading, Undisturbed, ReadValueSeesState
    <3> QED BY <3>1, <3>2
  <2>8. ASSUME NEW n \in 0..MaxLen, ReadInitializer(n) PROVE Reading'
    <3>1. n \in Nat
      BY <2>0
    <3>2. Len(want') = n /\ out'.shape = n /\ out'.buffer = want'
      BY <2>8, <3>1 DEF ReadInitializer, Fill
    <3> QED
      BY <2>8, <3>2
      DEF ReadInitializer, stateVars, Reading, Undisturbed, ReadValueSeesState
  <2>9. CASE ReadReset
    BY <2>9 DEF ReadReset, stateVars, Reading, Undisturbed, ReadValueSeesState, Elements
  <2>10. CASE FillZeros
    <3>1. CASE want = None
      BY <2>10, <3>1 DEF FillZeros, stateVars, Reading, Undisturbed, ReadValueSeesState
    <3>2. CASE want # None
      <4>1. want = Elements(current_shape) /\ is_reset /\ ~broken
        BY <2>10, <3>2 DEF FillZeros, Reading, Undisturbed
      <4>2. current_shape <= Len(device_buffer)
        BY <4>1 DEF Fits, CopiesStayInBuffer
      <4>3. \A i \in 1..current_shape : i <= Len(device_buffer) /\ i \in 1..Len(device_buffer)
        BY <2>0, <4>2
      <4>4. want = [i \in 1..current_shape |-> Zero]
        BY <4>1, <4>3 DEF Elements, Reading
      <4>5. Len(want) = current_shape
        BY <2>0, <4>4
      <4>6. out'.shape = current_shape /\ out'.buffer = want
        BY <2>10, <4>4 DEF FillZeros, Fill
      <4> QED
        BY <2>10, <4>5, <4>6
        DEF FillZeros, stateVars, Reading, Undisturbed, ReadValueSeesState
    <3> QED BY <3>1, <3>2
  <2>11. ASSUME NEW v \in Values, NEW n \in 0..MaxLen, Assign(v, n)
         PROVE  Reading'
    BY <2>11 DEF Assign, Reading, Undisturbed, ReadValueSeesState
  <2>12. CASE FailInference
    BY <2>12 DEF FailInference, stateVars, Reading, Undisturbed, ReadValueSeesState
  <2>13. CASE UNCHANGED vars
    BY <2>13 DEF vars, Reading, Undisturbed, ReadValueSeesState, Elements
  <2> QED
    BY <2>1, <2>2, <2>3, <2>4, <2>5, <2>6, <2>7, <2>8, <2>9, <2>10, <2>11, <2>12, <2>13
    DEF Next, User, Inference
<1>3. Reading => ReadValueSeesState
  BY DEF Reading
<1> QED BY <1>1, <1>2, <1>3, FitsInitially, FitsStays, TypeCorrect, PTL DEF Spec
=============================================================================
