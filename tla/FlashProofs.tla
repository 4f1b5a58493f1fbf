---------------------------- MODULE FlashProofs -----------------------------
(* Proofs about what is kept on the device's flash: the A/B slot, for every  *)
(* set of values, every value size and every width of the index, and the     *)
(* event log, for any items and sizes of their encodings, any size of the    *)
(* write buffer and any size of the partition.  The two share no state.      *)
EXTENDS AbWrite, NorFlashLog, SequenceTheorems, WellFoundedInduction, TLAPS

-----------------------------------------------------------------------------
(* The A/B slot. *)

\* The two slots are each other's other slot.
LEMMA OtherSlot ==
  ASSUME NEW s \in SlotIds
  PROVE  Other(s) \in SlotIds /\ Other(s) # s /\ Other(Other(s)) = s
         /\ SlotIds = {s, Other(s)}
BY DEF Other, SlotIds

\* Every state of AbSlot's flash and of its running write is well typed.
THEOREM AbWriteTypeOK == WriteSpec => []TypeOK
<1> USE ValuesAssumption, ChunksAssumption, IndexMaxAssumption
<1>1. WriteInit => TypeOK
  BY DEF WriteInit, TypeOK, SlotIds, SlotStates, Erased, NoIndex
<1>2. TypeOK /\ [WriteNext]_writeVars => TypeOK'
  <2> SUFFICES ASSUME TypeOK, [WriteNext]_writeVars PROVE TypeOK'
    OBVIOUS
  <2> USE DEF TypeOK
  <2>1. ASSUME NEW v \in Values, BeginWrite(v) PROVE TypeOK'
    <3>1. CurrentIndex \in -1 .. IndexMax - 1 /\ CurrentSlot \in SlotIds
      BY DEF CurrentIndex, CurrentSlot, ReadIndex, SlotIds, SlotStates, NoIndex
    <3>2. index' \in 0 .. IndexMax - 1
      BY <2>1, <3>1 DEF BeginWrite
    <3>3. slot' \in SlotIds
      BY <2>1, <3>1, OtherSlot DEF BeginWrite, SlotIds
    <3> QED BY <2>1, <3>2, <3>3 DEF BeginWrite
  <2>2. CASE PanicWrite
    BY <2>2 DEF PanicWrite
  <2>3. CASE EraseSlot
    BY <2>3 DEF EraseSlot, SlotStates, Erased, NoIndex
  <2>4. CASE ProgramChunk
    <3> DEFINE written == [index |-> index, value |-> value, chunks |-> slots[slot].chunks + 1]
    <3>1. written \in SlotStates
      BY DEF SlotStates, NoIndex
    <3>2. slots' = [slots EXCEPT ![slot] = written]
      BY <2>4 DEF ProgramChunk
    <3>3. slots' \in [SlotIds -> SlotStates]
      BY <3>1, <3>2
    <3> HIDE DEF written
    <3> QED BY <2>4, <3>3, OtherSlot DEF ProgramChunk
  <2>5. CASE WritePowerLoss
    BY <2>5 DEF WritePowerLoss
  <2>6. CASE UNCHANGED writeVars
    BY <2>6 DEF writeVars
  <2> QED BY <2>1, <2>2, <2>3, <2>4, <2>5, <2>6 DEF WriteNext
<1> QED BY <1>1, <1>2, PTL DEF WriteSpec

\* The invariant of a write: slots are prefixes of encodings, a write leaves
\* the current state alone until the new one is complete, and equal indexes
\* mean equal values.
THEOREM AbWriteInvariant == WriteSpec => []WriteInvariant
<1> USE ValuesAssumption, ChunksAssumption, IndexMaxAssumption
<1>1. WriteInit => WriteInvariant
  BY DEF WriteInit, WriteInvariant, SlotIds, SlotWellFormed, WriteInProgress,
         SameIndexSameValue, ReadIndex
<1>2. TypeOK /\ WriteInvariant /\ [WriteNext]_writeVars => WriteInvariant'
  <2> SUFFICES ASSUME TypeOK, WriteInvariant, [WriteNext]_writeVars PROVE WriteInvariant'
    OBVIOUS
  <2>1. ASSUME NEW v \in Values, BeginWrite(v) PROVE WriteInvariant'
    <3>1. slots' = slots BY <2>1 DEF BeginWrite
    <3>2. WriteInProgress'
      BY <2>1 DEF BeginWrite, WriteInProgress, CurrentSlot, CurrentIndex, ReadIndex,
                  Other, SlotIds, TypeOK, SlotStates, NoIndex
    <3> QED BY <3>1, <3>2 DEF WriteInvariant, SlotWellFormed, SameIndexSameValue, ReadIndex
  <2>2. CASE PanicWrite
    BY <2>2 DEF PanicWrite, WriteInvariant, SlotWellFormed, WriteInProgress,
                SameIndexSameValue, ReadIndex
  <2>3. CASE EraseSlot
    <3>1. /\ slots' = [slots EXCEPT ![slot] = Erased] /\ phase = "erase" /\ phase' = "program"
          /\ UNCHANGED <<round, slot, index, value>>
      BY <2>3 DEF EraseSlot
    <3>2. slots'[slot] = Erased /\ slots'[Other(slot)] = slots[Other(slot)]
      BY <3>1, OtherSlot DEF TypeOK
    <3>3. \A s \in SlotIds : SlotWellFormed(s)'
      BY <3>1, <3>2, OtherSlot DEF WriteInvariant, SlotWellFormed, TypeOK
    <3>4. WriteInProgress'
      BY <3>1, <3>2 DEF WriteInvariant, WriteInProgress, TypeOK, Erased, NoIndex
    <3>5. SameIndexSameValue'
      <4>1. CASE slots[Other(slot)] = Erased
        BY <3>2, <4>1, OtherSlot DEF SameIndexSameValue, ReadIndex, TypeOK, Other, SlotIds
      <4>2. CASE slots[Other(slot)] # Erased
        <5>1. slots[Other(slot)].index >= 0
          BY <4>2, OtherSlot DEF WriteInvariant, SlotWellFormed, TypeOK
        <5> QED BY <3>2, <5>1 DEF SameIndexSameValue, ReadIndex, TypeOK, Other, SlotIds,
                                  Erased, NoIndex
      <4> QED BY <4>1, <4>2
    <3> QED BY <3>3, <3>4, <3>5 DEF WriteInvariant
  <2>4. CASE ProgramChunk
    <3> DEFINE written == [index |-> index, value |-> value, chunks |-> slots[slot].chunks + 1]
    <3>1. phase = "program" /\ slots' = [slots EXCEPT ![slot] = written] /\ index' = index
      BY <2>4 DEF ProgramChunk
    <3>2. slots'[slot] = written /\ slots'[Other(slot)] = slots[Other(slot)]
      BY <3>1, OtherSlot DEF TypeOK
    <3>3. value \in Values /\ NChunks[value] \in Nat \ {0}
      BY <3>1 DEF TypeOK
    <3>4. slots[slot].chunks \in Nat /\ slots[slot].chunks < NChunks[value]
      BY <3>1, <3>3 DEF WriteInvariant, WriteInProgress, TypeOK, Erased, SlotStates
    <3>5. written.chunks \in 1 .. NChunks[value]
      BY <3>3, <3>4
    <3>6. \A s \in SlotIds : SlotWellFormed(s)'
      <4>1. slots'[slot] = written => \/ slots'[slot] = Erased
                \/ /\ slots'[slot].index \in 0 .. IndexMax - 1
                   /\ slots'[slot].value \in Values
                   /\ slots'[slot].chunks \in 1 .. NChunks[slots'[slot].value]
        BY <3>3, <3>5 DEF TypeOK
      <4> QED BY <3>2, <4>1, OtherSlot DEF WriteInvariant, SlotWellFormed, TypeOK
    <3>7. SameIndexSameValue'
      <4>1. round = 1 => slots[Other(slot)].index # index
        BY <3>1, OtherSlot DEF WriteInvariant, WriteInProgress, TypeOK, SlotStates, NoIndex
      <4>2. round = 2 => slots[Other(slot)].value = value
        BY <3>1 DEF WriteInvariant, WriteInProgress
      <4> QED BY <3>2, <4>1, <4>2 DEF SameIndexSameValue, ReadIndex, TypeOK, Other, SlotIds
    <3>8. WriteInProgress'
      <4>1. CASE written.chunks < NChunks[value]
        <5>1. UNCHANGED <<phase, round, slot, index, value>>
          BY <2>4, <4>1 DEF ProgramChunk
        <5> QED BY <3>1, <3>2, <4>1, <5>1 DEF WriteInvariant, WriteInProgress, TypeOK
      <4>2. CASE ~(written.chunks < NChunks[value]) /\ round = 1
        <5>1. /\ phase' = "erase" /\ round' = 2 /\ slot' = Other(slot)
              /\ UNCHANGED <<index, value>>
          BY <2>4, <4>2 DEF ProgramChunk
        <5>2. written.chunks = NChunks[value]
          BY <3>3, <3>5, <4>2
        <5>3. slots'[Other(slot')] = [index |-> index, value |-> value, chunks |-> NChunks[value]]
          BY <3>2, <5>1, <5>2, OtherSlot DEF TypeOK
        <5>4. slots'[slot'].index = index - 1
          BY <3>1, <3>2, <4>2, <5>1 DEF WriteInvariant, WriteInProgress
        <5> HIDE DEF written
        <5> QED BY <5>1, <5>3, <5>4 DEF WriteInProgress, TypeOK
      <4>3. CASE ~(written.chunks < NChunks[value]) /\ round = 2
        <5>1. phase' = "idle"
          BY <2>4, <4>3 DEF ProgramChunk
        <5> QED BY <5>1 DEF WriteInProgress
      <4> QED BY <4>1, <4>2, <4>3 DEF TypeOK
    <3> QED BY <3>6, <3>7, <3>8 DEF WriteInvariant
  <2>5. CASE WritePowerLoss
    BY <2>5 DEF WritePowerLoss, WriteInvariant, SlotWellFormed, WriteInProgress,
                SameIndexSameValue, ReadIndex
  <2>6. CASE UNCHANGED writeVars
    BY <2>6 DEF writeVars, WriteInvariant, SlotWellFormed, WriteInProgress,
                SameIndexSameValue, ReadIndex
  <2> QED BY <2>1, <2>2, <2>3, <2>4, <2>5, <2>6 DEF WriteNext
<1> QED BY <1>1, <1>2, AbWriteTypeOK, PTL DEF WriteSpec

\* Equal indexes mean equal values, for every value size.
THEOREM AbWriteSameIndexSameValue == WriteSpec => []SameIndexSameValue
<1>1. WriteInvariant => SameIndexSameValue
  BY DEF WriteInvariant
<1> QED BY <1>1, AbWriteInvariant, PTL

\* A slot with a strictly larger index than the other one is current.
LEMMA LargerIndexIsCurrent ==
  ASSUME TypeOK, NEW s \in SlotIds, slots[s].index > slots[Other(s)].index
  PROVE  CurrentSlot = s /\ CurrentIndex = slots[s].index
BY DEF CurrentSlot, CurrentIndex, ReadIndex, Other, SlotIds, TypeOK, SlotStates, NoIndex

\* No step lets the current index fall back.
LEMMA StepIndexNeverFallsBack ==
  ASSUME TypeOK, TypeOK', WriteInvariant, [WriteNext]_writeVars
  PROVE  CurrentIndex' >= CurrentIndex
<1> USE DEF CurrentSlot, CurrentIndex, ReadIndex
<1>1. CurrentIndex \in Int
  BY DEF TypeOK, SlotIds, SlotStates, NoIndex
<1>2. CASE slots' = slots
  BY <1>1, <1>2
<1>3. CASE EraseSlot
  <2>1. slots'[slot].index = -1 /\ slots'[Other(slot)] = slots[Other(slot)]
    BY <1>3, OtherSlot DEF EraseSlot, TypeOK, Erased, NoIndex
  <2>2. slots[slot].index <= slots[Other(slot)].index
    BY <1>3, OtherSlot, IndexMaxAssumption
       DEF EraseSlot, WriteInvariant, WriteInProgress, TypeOK, SlotStates, NoIndex
  <2> QED BY <2>1, <2>2 DEF TypeOK, SlotIds, SlotStates, NoIndex, Other
<1>4. CASE ProgramChunk
  <2>1. slots'[slot].index = index /\ slots'[Other(slot)] = slots[Other(slot)]
    BY <1>4, OtherSlot DEF ProgramChunk, TypeOK
  <2>2. slots[slot].index <= index /\ slots[Other(slot)].index <= index
    BY <1>4, OtherSlot, IndexMaxAssumption
       DEF ProgramChunk, WriteInvariant, WriteInProgress, TypeOK, SlotStates, NoIndex
  <2> QED BY <2>1, <2>2, IndexMaxAssumption DEF TypeOK, SlotIds, SlotStates, NoIndex, Other
<1> QED BY <1>2, <1>3, <1>4 DEF WriteNext, BeginWrite, PanicWrite, WritePowerLoss, writeVars

\* The index that write continues from never falls back, for every value
\* size: no power loss can make write reuse a committed index.
THEOREM AbWriteIndexNeverFallsBack == WriteSpec => IndexNeverFallsBack
<1>1. TypeOK /\ TypeOK' /\ WriteInvariant /\ [WriteNext]_writeVars
        => [CurrentIndex' >= CurrentIndex]_writeVars
  BY StepIndexNeverFallsBack
<1> QED BY <1>1, AbWriteTypeOK, AbWriteInvariant, PTL DEF WriteSpec, IndexNeverFallsBack

\* Once a write returned, some slot carries an index.
StoredOnce == returned # Absent => CurrentIndex >= 0

LEMMA StoredOnceInvariant == WriteSpec => []StoredOnce
<1>1. WriteInit => StoredOnce
  BY DEF WriteInit, StoredOnce
<1>2. TypeOK /\ TypeOK' /\ WriteInvariant /\ StoredOnce /\ [WriteNext]_writeVars => StoredOnce'
  <2> SUFFICES ASSUME TypeOK, TypeOK', WriteInvariant, StoredOnce, [WriteNext]_writeVars
               PROVE  StoredOnce'
    OBVIOUS
  <2>1. CurrentIndex' >= CurrentIndex /\ CurrentIndex \in Int /\ CurrentIndex' \in Int
    BY StepIndexNeverFallsBack
       DEF CurrentIndex, CurrentSlot, ReadIndex, TypeOK, SlotIds, SlotStates, NoIndex
  <2>2. CASE returned' = returned
    BY <2>1, <2>2 DEF StoredOnce
  <2>3. CASE ProgramChunk
    <3>1. slots'[slot].index = index /\ index >= 0
      BY <2>3, IndexMaxAssumption DEF ProgramChunk, TypeOK
    <3> QED BY <3>1 DEF StoredOnce, CurrentIndex, CurrentSlot, ReadIndex, TypeOK,
                        SlotIds, SlotStates, NoIndex
  <2> QED BY <2>2, <2>3 DEF WriteNext, BeginWrite, PanicWrite, EraseSlot, WritePowerLoss, writeVars
<1> QED BY <1>1, <1>2, AbWriteTypeOK, AbWriteInvariant, PTL DEF WriteSpec

\* When every value fits one buffer, a slot that carries an index is readable.
LEMMA SingleChunkReadable ==
  ASSUME SingleChunk, TypeOK, WriteInvariant, NEW s \in SlotIds
  PROVE  /\ slots[s].index >= 0 => Complete(s) /\ ReadSlot(s) = slots[s].value
         /\ slots[s].index < 0 => slots[s] = Erased /\ ReadSlot(s) = Absent
<1>1. CASE slots[s] = Erased
  BY <1>1, ValuesAssumption DEF Erased, NoIndex, ReadSlot, Complete
<1>2. CASE slots[s] # Erased
  <2>1. /\ slots[s].index \in 0 .. IndexMax - 1
        /\ slots[s].value \in Values
        /\ slots[s].chunks \in 1 .. NChunks[slots[s].value]
    BY <1>2 DEF WriteInvariant, SlotWellFormed
  <2>2. slots[s].chunks = NChunks[slots[s].value] /\ slots[s].value # Absent
    BY <2>1, ValuesAssumption DEF SingleChunk
  <2> QED BY <2>1, <2>2, IndexMaxAssumption DEF Complete, ReadSlot
<1> QED BY <1>1, <1>2

\* A state whose write returned is never lost when every value fits one
\* 256-byte buffer, whatever power losses follow.
THEOREM AbWriteStateNeverLost ==
  ASSUME SingleChunk
  PROVE  WriteSpec => []StateNeverLost
<1>1. TypeOK /\ WriteInvariant /\ StoredOnce => StateNeverLost
  <2> SUFFICES ASSUME TypeOK, WriteInvariant, returned # Absent, CurrentIndex >= 0
               PROVE  Read # Absent
    BY DEF StoredOnce, StateNeverLost
  <2>1. CurrentSlot \in SlotIds
    BY DEF CurrentSlot, SlotIds
  <2>2. Complete(CurrentSlot)
    BY <2>1, SingleChunkReadable DEF CurrentIndex, ReadIndex
  <2> QED BY <2>2 DEF Read, ReadSlot, Complete
<1> QED BY <1>1, AbWriteTypeOK, AbWriteInvariant, StoredOnceInvariant, PTL

\* What is read from a slot with the larger index.
LEMMA ReadLarger ==
  ASSUME TypeOK, NEW s \in SlotIds, slots[s].index > slots[Other(s)].index
  PROVE  Read = ReadSlot(s) /\ CurrentIndex = slots[s].index
BY LargerIndexIsCurrent DEF Read

\* A step that leaves the slots alone leaves the register alone.
LEMMA SameSlotsSameRegister ==
  ASSUME slots' = slots
  PROVE  Read' = Read /\ CurrentIndex' = CurrentIndex
BY DEF Read, ReadSlot, Complete, CurrentSlot, CurrentIndex, ReadIndex

\* Erasing a slot during a write does not change what is read.
LEMMA EraseInvisible ==
  ASSUME SingleChunk, TypeOK, TypeOK', WriteInvariant, WriteInvariant', EraseSlot
  PROVE  Read' = Read /\ CurrentIndex' = CurrentIndex
<1> DEFINE o == Other(slot)
<1>1. slot \in SlotIds /\ o \in SlotIds /\ o # slot /\ Other(o) = slot
  BY OtherSlot DEF TypeOK
<1>2. slots'[slot] = Erased /\ slots'[o] = slots[o] /\ slot' = slot
  BY <1>1 DEF EraseSlot, TypeOK
<1>3. slots[slot].index <= slots[o].index
  BY <1>1, IndexMaxAssumption
     DEF EraseSlot, WriteInvariant, WriteInProgress, TypeOK, SlotStates, NoIndex
<1>4. CASE slots[o].index < 0
  <2>1. slots[o] = Erased /\ slots[slot] = Erased
    BY <1>1, <1>3, <1>4, SingleChunkReadable DEF TypeOK, SlotStates, NoIndex
  <2>2. slots' = slots
    BY <2>1, <1>1 DEF EraseSlot, TypeOK
  <2> QED BY <2>2, SameSlotsSameRegister
<1>5. CASE slots[o].index >= 0
  <2>1. Read' = slots[o].value /\ CurrentIndex' = slots[o].index
    <3>1. slots'[o].index > slots'[slot].index
      BY <1>1, <1>2, <1>5 DEF Erased, NoIndex, TypeOK, SlotStates
    <3>2. CurrentSlot' = o /\ CurrentIndex' = slots[o].index
      BY <1>1, <1>2, <3>1 DEF CurrentSlot, CurrentIndex, ReadIndex, SlotIds, Other, TypeOK,
                              SlotStates, NoIndex
    <3>3. slots'[o].value # Absent /\ slots'[o].chunks = NChunks[slots'[o].value]
      BY <1>1, <1>2, <1>5, SingleChunkReadable DEF Complete
    <3> HIDE DEF o
    <3> QED BY <1>2, <3>2, <3>3 DEF Read, ReadSlot, Complete
  <2>2. Read = slots[o].value /\ CurrentIndex = slots[o].index
    <3>1. CASE slots[slot].index < slots[o].index
      BY <1>1, <1>5, <3>1, ReadLarger, SingleChunkReadable DEF TypeOK, SlotStates, NoIndex
    <3>2. CASE slots[slot].index = slots[o].index
      <4>1. slots[slot].value = slots[o].value
        BY <1>1, <3>2 DEF WriteInvariant, SameIndexSameValue, ReadIndex, SlotIds
      <4>2. ReadSlot(slot) = slots[o].value /\ ReadSlot(o) = slots[o].value
        BY <1>1, <1>5, <3>2, <4>1, SingleChunkReadable
      <4> QED BY <1>1, <3>2, <4>2 DEF Read, CurrentSlot, CurrentIndex, ReadIndex, SlotIds
    <3>3. slots[slot].index \in Int /\ slots[o].index \in Int
      BY <1>1 DEF TypeOK, SlotStates, NoIndex
    <3> QED BY <1>3, <3>1, <3>2, <3>3
  <2> QED BY <2>1, <2>2
<1> QED BY <1>1, <1>4, <1>5 DEF TypeOK, SlotStates, NoIndex

\* With one chunk, programming the first slot makes the new value the one
\* that is read and programming the second changes nothing.
LEMMA ProgramTakesEffect ==
  ASSUME SingleChunk, TypeOK, TypeOK', WriteInvariant, WriteInvariant', ProgramChunk
  PROVE  /\ Read' = value /\ CurrentIndex' = index
         /\ round = 1 => CurrentIndex = index - 1
         /\ round = 2 => Read = value /\ CurrentIndex = index
<1> DEFINE o == Other(slot)
<1>1. /\ slot \in SlotIds /\ o \in SlotIds /\ o # slot /\ Other(o) = slot
      /\ phase = "program" /\ index \in 0 .. IndexMax - 1 /\ value \in Values
  BY OtherSlot DEF TypeOK, ProgramChunk
<1>2. slots[slot] = Erased
  BY <1>1, ChunksAssumption
     DEF WriteInvariant, SlotWellFormed, WriteInProgress, SingleChunk
<1>3. /\ slots'[slot] = [index |-> index, value |-> value, chunks |-> 1]
      /\ slots'[o] = slots[o]
  BY <1>1, <1>2 DEF ProgramChunk, Erased, TypeOK
<1>4. NChunks[value] = 1 /\ value # Absent
  BY <1>1, ValuesAssumption DEF SingleChunk
<1>5. CASE round = 1
  <2>1. slots[o].index = index - 1
    BY <1>1, <1>5 DEF WriteInvariant, WriteInProgress
  <2>2. CurrentIndex = index - 1
    BY <1>1, <1>2, <2>1, IndexMaxAssumption
       DEF CurrentIndex, CurrentSlot, ReadIndex, Erased, NoIndex, SlotIds
  <2>3. CurrentSlot' = slot /\ CurrentIndex' = index
    BY <1>1, <1>3, <2>1, IndexMaxAssumption
       DEF CurrentIndex, CurrentSlot, ReadIndex, SlotIds
  <2>4. Read' = value
    BY <1>3, <1>4, <2>3 DEF Read, ReadSlot, Complete
  <2> QED BY <1>5, <2>2, <2>3, <2>4
<1>6. CASE round = 2
  <2>1. slots[o] = [index |-> index, value |-> value, chunks |-> 1]
    BY <1>1, <1>4, <1>6 DEF WriteInvariant, WriteInProgress
  <2>2. CurrentSlot = o /\ CurrentIndex = index
    BY <1>1, <1>2, <2>1, IndexMaxAssumption
       DEF CurrentIndex, CurrentSlot, ReadIndex, Erased, NoIndex, SlotIds
  <2>3. CurrentSlot' = 0 /\ CurrentIndex' = index
    BY <1>1, <1>3, <2>1, IndexMaxAssumption
       DEF CurrentIndex, CurrentSlot, ReadIndex, SlotIds
  <2>4. \A s \in SlotIds : slots'[s] = [index |-> index, value |-> value, chunks |-> 1]
    BY <1>1, <1>3, <2>1 DEF SlotIds
  <2>5. Read' = value
    BY <1>4, <2>3, <2>4 DEF Read, ReadSlot, Complete, SlotIds
  <2>6. Read = value
    BY <1>4, <2>1, <2>2 DEF Read, ReadSlot, Complete
  <2> QED BY <1>6, <2>2, <2>3, <2>5, <2>6
<1> QED BY <1>5, <1>6 DEF TypeOK

\* The A/B slot implements an atomic register for values that fit one
\* buffer: initial states and steps map to those of AtomicRegister.
THEOREM AbWriteRefinesAtomicRegister ==
  ASSUME SingleChunk
  PROVE  WriteSpec => RefinesAtomicRegister
<1>1. WriteInit => Register!Init
  BY ValuesAssumption
     DEF WriteInit, Register!Init, Read, ReadSlot, Complete, CurrentSlot, CurrentIndex, ReadIndex,
         Erased, NoIndex, SlotIds, Call
<1>2. TypeOK /\ TypeOK' /\ WriteInvariant /\ WriteInvariant' /\ [WriteNext]_writeVars
        => [Register!Next]_(Register!vars)
  <2> SUFFICES ASSUME TypeOK, TypeOK', WriteInvariant, WriteInvariant', [WriteNext]_writeVars
               PROVE  [Register!Next]_(Register!vars)
    OBVIOUS
  <2> USE DEF Register!Next, Register!vars
  <2>1. ASSUME NEW v \in Values, BeginWrite(v) PROVE Register!Begin(v)
    BY <2>1, SameSlotsSameRegister DEF BeginWrite, Register!Begin, Call
  <2>2. CASE PanicWrite
    BY <2>2, SameSlotsSameRegister DEF PanicWrite, Call
  <2>3. CASE EraseSlot
    BY <2>3, EraseInvisible DEF EraseSlot, Call, TypeOK
  <2>4. CASE ProgramChunk
    <3>1. ~(slots[slot].chunks + 1 < NChunks[value])
      <4>1. value \in Values /\ slots[slot].chunks \in Nat
        BY <2>4 DEF ProgramChunk, TypeOK, SlotStates
      <4> QED BY <4>1 DEF SingleChunk
    <3>2. CASE round = 1
      <4>1. Register!TakeEffect
        BY <2>4, <3>1, <3>2, ProgramTakesEffect, IndexMaxAssumption
           DEF ProgramChunk, Register!TakeEffect, Call, TypeOK
      <4> QED BY <4>1
    <3>3. CASE round = 2
      <4>1. Register!Return
        BY <2>4, <3>1, <3>3, ProgramTakesEffect DEF ProgramChunk, Register!Return, Call
      <4> QED BY <4>1
    <3> QED BY <3>2, <3>3 DEF TypeOK
  <2>5. CASE WritePowerLoss
    <3>1. Register!PowerLoss
      BY <2>5, SameSlotsSameRegister DEF WritePowerLoss, Register!PowerLoss, Call
    <3> QED BY <3>1
  <2>6. CASE UNCHANGED writeVars
    BY <2>6, SameSlotsSameRegister DEF writeVars, Call
  <2> QED BY <2>1, <2>2, <2>3, <2>4, <2>5, <2>6 DEF WriteNext
<1> QED BY <1>1, <1>2, AbWriteTypeOK, AbWriteInvariant, PTL
        DEF WriteSpec, RefinesAtomicRegister, Register!Spec

-----------------------------------------------------------------------------
(* The event log.  What seek_iter reads is a recursive function of the       *)
(* position; the facts about it are proved by looking at the least distance  *)
(* from the end of the partition at which they could fail.                   *)

\* A non-empty set of naturals has a least element.
LEMMA LeastNatural ==
  ASSUME NEW S, S \subseteq Nat, S # {}
  PROVE  \E m \in S : \A k \in S : m <= k
<1>1. PICK m \in S : \A k \in S : ~ (<<k, m>> \in OpToRel(<, Nat))
  BY WFMin, NatLessThanWellFounded
<1>2. \A k \in S : ~ (k < m)
  BY <1>1 DEF OpToRel
<1> QED BY <1>2

\* Downward induction: a set of positions that has every position all of whose
\* successors it has, has them all.
LEMMA DownwardInduction ==
  ASSUME NEW G,
         \A p \in 0 .. Capacity : (\A q \in p + 1 .. Capacity : q \in G) => p \in G
  PROVE  \A p \in 0 .. Capacity : p \in G
<1> DEFINE bad == {n \in 0 .. Capacity : Capacity - n \notin G}
<1>1. SUFFICES ASSUME NEW p \in 0 .. Capacity, p \notin G PROVE FALSE
  OBVIOUS
<1>2. Capacity \in Nat
  BY LogAssumption
<1>3. Capacity - p \in bad
  BY <1>1, <1>2
<1>4. bad \subseteq Nat
  BY <1>2
<1>5. PICK m \in bad : \A k \in bad : m <= k
  <2> HIDE DEF bad
  <2> QED BY <1>3, <1>4, LeastNatural
<1>6. \A q \in Capacity - m + 1 .. Capacity : q \in G
  <2> SUFFICES ASSUME NEW q \in Capacity - m + 1 .. Capacity, q \notin G PROVE FALSE
    OBVIOUS
  <2>1. Capacity - q \in bad
    BY <1>2, <1>5
  <2>2. m <= Capacity - q
    BY <1>5, <2>1
  <2> QED BY <1>2, <1>5, <2>2
<1>7. Capacity - m \in 0 .. Capacity
  BY <1>2, <1>5
<1> QED BY <1>5, <1>6, <1>7

----------------------------------------------------------------------------
(* Reading *)

\* What is found at a position has one length and ends in the partition.
LEMMA EntriesAtFacts ==
  ASSUME NEW f, NEW p \in 0 .. Capacity - 1, NEW x \in EntriesAt(f, p)
  PROVE  /\ x[1] \in 1 .. Capacity /\ x[2] \in Items
         /\ p + x[1] < Capacity
         /\ p + 1 + x[1] \in p + 1 .. Capacity
         /\ f[p] = {LengthWord(x[1])}
         /\ x[2] \in Decodes(f, p, x[1])
<1>1. /\ x[1] \in Lengths(f, p) /\ x[2] \in Items /\ x[2] \in Decodes(f, p, x[1])
  BY DEF EntriesAt
<1>2. x[1] \in 1 .. Capacity /\ f[p] = {LengthWord(x[1])} /\ p + x[1] < Capacity
  <2> HIDE DEF LengthWord
  <2> QED BY <1>1 DEF Lengths
<1>3. \A n \in 1 .. Capacity : p + n < Capacity => p + 1 + n \in p + 1 .. Capacity
  BY LogAssumption
<1> QED BY <1>1, <1>2, <1>3

\* A turn of seek_iter looks only at what it finds further on.
LEMMA ReadEntryLooksAhead ==
  ASSUME NEW f, NEW p \in 0 .. Capacity, NEW g, NEW h,
         \A q \in p + 1 .. Capacity : g[q] = h[q]
  PROVE  ReadEntry(f, p, g) = ReadEntry(f, p, h)
<1>1. CASE p = Capacity \/ f[p] = {} \/ EntriesAt(f, p) = {}
  BY <1>1 DEF ReadEntry
<1>2. CASE p # Capacity /\ f[p] # {} /\ EntriesAt(f, p) # {}
  <2>1. PICK e : e = CHOOSE x \in EntriesAt(f, p) : TRUE
    OBVIOUS
  <2>2. e \in EntriesAt(f, p)
    BY <1>2, <2>1
  <2>3. p \in 0 .. Capacity - 1
    BY <1>2, LogAssumption
  <2>4. g[p + 1 + e[1]] = h[p + 1 + e[1]]
    BY <2>2, <2>3, EntriesAtFacts
  <2> QED BY <1>2, <2>1, <2>4 DEF ReadEntry
<1> QED BY <1>1, <1>2

\* There is a function that is what seek_iter finds from every position on.
LEMMA ReadFromExists ==
  ASSUME NEW f
  PROVE  \E g : g = [p \in 0 .. Capacity |-> ReadEntry(f, p, g)]
<1> DEFINE Solves(g, q) == \A p \in q .. Capacity : g[p] = ReadEntry(f, p, g)
           G == {q \in 0 .. Capacity : \E g : Solves(g, q)}
<1>1. ASSUME NEW q \in 0 .. Capacity, \A r \in q + 1 .. Capacity : r \in G
      PROVE  q \in G
  <2>1. PICK g : \A p \in q + 1 .. Capacity : g[p] = ReadEntry(f, p, g)
    <3>1. CASE q = Capacity
      BY <3>1, LogAssumption
    <3>2. CASE q # Capacity
      <4>1. q + 1 \in G
        BY <1>1, <3>2, LogAssumption
      <4> QED BY <4>1
    <3> QED BY <3>1, <3>2
  <2> DEFINE h == [p \in q .. Capacity |-> IF p = q THEN ReadEntry(f, q, g) ELSE g[p]]
  <2>2. \A p \in q .. Capacity : p # q => p \in q + 1 .. Capacity
    BY LogAssumption
  <2>3. \A p \in q + 1 .. Capacity : h[p] = g[p]
    BY LogAssumption
  <2>4. h[q] = ReadEntry(f, q, g)
    BY LogAssumption
  <2> HIDE DEF h
  <2>5. ASSUME NEW p \in q .. Capacity
        PROVE  ReadEntry(f, p, h) = ReadEntry(f, p, g)
    <3>1. p \in 0 .. Capacity
      BY LogAssumption
    <3>2. \A r \in p + 1 .. Capacity : r \in q + 1 .. Capacity
      BY LogAssumption
    <3> QED BY <2>3, <3>1, <3>2, ReadEntryLooksAhead
  <2>6. Solves(h, q)
    BY <2>1, <2>2, <2>3, <2>4, <2>5
  <2> QED BY <2>6
<1>2. 0 \in G
  <2> HIDE DEF G
  <2> QED BY <1>1, DownwardInduction, LogAssumption
<1>3. PICK g : Solves(g, 0)
  BY <1>2
<1> DEFINE h == [p \in 0 .. Capacity |-> g[p]]
<1>4. \A p \in 0 .. Capacity : ReadEntry(f, p, h) = ReadEntry(f, p, g)
  <2> SUFFICES ASSUME NEW p \in 0 .. Capacity PROVE ReadEntry(f, p, h) = ReadEntry(f, p, g)
    OBVIOUS
  <2>1. \A r \in p + 1 .. Capacity : h[r] = g[r]
    BY LogAssumption
  <2> HIDE DEF h
  <2> QED BY <2>1, ReadEntryLooksAhead
<1>5. h = [p \in 0 .. Capacity |-> ReadEntry(f, p, h)]
  BY <1>3, <1>4
<1> QED BY <1>5

\* What seek_iter finds is what one turn of it makes of what it finds further on.
LEMMA ReadFromUnfolds ==
  ASSUME NEW f
  PROVE  \A p \in 0 .. Capacity : ReadFrom(f)[p] = ReadEntry(f, p, ReadFrom(f))
<1> DEFINE F == CHOOSE g : g = [p \in 0 .. Capacity |-> ReadEntry(f, p, g)]
<1>1. ReadFrom(f) = F
  BY DEF ReadFrom
<1>2. F = [p \in 0 .. Capacity |-> ReadEntry(f, p, F)]
  BY ReadFromExists
<1> HIDE DEF F
<1> QED BY <1>1, <1>2

\* What seek_iter finds from a position on: items, and an erased word that ends
\* them.
LEMMA ReadFromType ==
  ASSUME NEW f
  PROVE  \A p \in 0 .. Capacity :
           LET r == ReadFrom(f)[p]
           IN  /\ r \in [ok : BOOLEAN, items : Seq(Items), end : Nat]
               /\ r.ok => r.end \in p .. Capacity - 1 /\ f[r.end] = {}
<1> DEFINE Good(p, r) == /\ r \in [ok : BOOLEAN, items : Seq(Items), end : Nat]
                         /\ r.ok => r.end \in p .. Capacity - 1 /\ f[r.end] = {}
           G == {p \in 0 .. Capacity : Good(p, ReadFrom(f)[p])}
<1>a. <<>> \in Seq(Items)
  OBVIOUS
<1>b. ASSUME NEW p \in 0 .. Capacity PROVE Good(p, Unreadable)
  BY <1>a DEF Unreadable
<1>c. ASSUME NEW p \in 0 .. Capacity - 1, f[p] = {} PROVE Good(p, End(p))
  <2>1. p \in Nat /\ p \in p .. Capacity - 1
    BY LogAssumption
  <2> QED BY <1>a, <1>c, <2>1 DEF End
<1>1. ASSUME NEW p \in 0 .. Capacity, \A q \in p + 1 .. Capacity : q \in G
      PROVE  p \in G
  <2>1. ReadFrom(f)[p] = ReadEntry(f, p, ReadFrom(f))
    BY ReadFromUnfolds
  <2>2. CASE p = Capacity \/ (f[p] # {} /\ EntriesAt(f, p) = {})
    <3>1. ReadFrom(f)[p] = Unreadable
      BY <2>1, <2>2 DEF ReadEntry
    <3> HIDE DEF Good
    <3> QED BY <1>b, <3>1
  <2>3. CASE p # Capacity /\ f[p] = {}
    <3>1. ReadFrom(f)[p] = End(p)
      BY <2>1, <2>3 DEF ReadEntry
    <3>2. p \in 0 .. Capacity - 1
      BY <2>3, LogAssumption
    <3> HIDE DEF Good
    <3> QED BY <1>c, <2>3, <3>1, <3>2
  <2>4. CASE p # Capacity /\ f[p] # {} /\ EntriesAt(f, p) # {}
    <3>1. PICK e : e = CHOOSE x \in EntriesAt(f, p) : TRUE
      OBVIOUS
    <3>2. e \in EntriesAt(f, p)
      BY <2>4, <3>1
    <3>3. p \in 0 .. Capacity - 1
      BY <2>4, LogAssumption
    <3>4. e[1] \in 1 .. Capacity /\ e[2] \in Items /\ p + 1 + e[1] \in p + 1 .. Capacity
      BY <3>2, <3>3, EntriesAtFacts
    <3>5. PICK rest : rest = ReadFrom(f)[p + 1 + e[1]]
      OBVIOUS
    <3>6. Good(p + 1 + e[1], rest)
      BY <1>1, <3>4, <3>5
    <3>7. ReadFrom(f)[p] =
            IF rest.ok THEN [ok |-> TRUE, items |-> <<e[2]>> \o rest.items, end |-> rest.end]
                       ELSE Unreadable
      BY <2>1, <2>4, <3>1, <3>5 DEF ReadEntry
    <3>8. <<e[2]>> \o rest.items \in Seq(Items)
      BY <3>4, <3>6
    <3>9. rest.ok => rest.end \in p .. Capacity - 1 /\ f[rest.end] = {}
      BY <3>4, <3>6, LogAssumption
    <3>10. CASE rest.ok
      <4>1. Good(p, [ok |-> TRUE, items |-> <<e[2]>> \o rest.items, end |-> rest.end])
        BY <3>6, <3>8, <3>9, <3>10
      <4> HIDE DEF Good
      <4> QED BY <3>7, <3>10, <4>1
    <3>11. CASE ~ rest.ok
      <4> HIDE DEF Good
      <4> QED BY <1>b, <3>7, <3>11
    <3> QED BY <3>10, <3>11
  <2> QED BY <2>2, <2>3, <2>4
<1>2. \A p \in 0 .. Capacity : p \in G
  <2> HIDE DEF G
  <2> QED BY <1>1, DownwardInduction
<1> QED BY <1>2

\* What is found at a position is made of the words up to its last one.
LEMMA EntriesAtAgree ==
  ASSUME NEW f, NEW g, NEW p \in 0 .. Capacity - 1, NEW x \in EntriesAt(f, p),
         \A q \in p .. p + x[1] : g[q] = f[q]
  PROVE  EntriesAt(g, p) = EntriesAt(f, p)
<1>1. /\ x[1] \in 1 .. Capacity
      /\ f[p] = {LengthWord(x[1])}
  BY EntriesAtFacts
<1>2. g[p] = f[p]
  BY <1>1
<1>3. \A n \in 1 .. Capacity : f[p] = {LengthWord(n)} => n = x[1]
  <2>1. \A n \in 1 .. Capacity : {LengthWord(n)} = {LengthWord(x[1])} => LengthWord(n) = LengthWord(x[1])
    OBVIOUS
  <2>2. \A n \in 1 .. Capacity : LengthWord(n) = LengthWord(x[1]) => n = x[1]
    BY DEF LengthWord
  <2> QED BY <1>1, <2>1, <2>2
<1>4. Lengths(g, p) = Lengths(f, p) /\ \A n \in Lengths(f, p) : n = x[1]
  <2> HIDE DEF LengthWord
  <2> QED BY <1>2, <1>3 DEF Lengths
<1>5. \A k \in 1 .. x[1] : g[p + k] = f[p + k]
  BY <1>1
<1>6. Decodes(g, p, x[1]) = Decodes(f, p, x[1])
  <2> HIDE DEF BodyWord
  <2> QED BY <1>5 DEF Decodes
<1> QED BY <1>4, <1>6 DEF EntriesAt

\* g is f in front of e.
SameBefore(f, g, e) == \A q \in 0 .. e - 1 : g[q] = f[q]

\* A log of f that ends at e is a log of g that goes on with what g has there.
ReadsOn(f, g, e) ==
  \A p \in 0 .. Capacity :
    ReadFrom(f)[p].ok /\ ReadFrom(f)[p].end = e =>
      /\ ReadFrom(g)[p].ok = ReadFrom(g)[e].ok
      /\ ReadFrom(g)[e].ok =>
           /\ ReadFrom(g)[p].items = ReadFrom(f)[p].items \o ReadFrom(g)[e].items
           /\ ReadFrom(g)[p].end = ReadFrom(g)[e].end

\* What is found behind the end of a log is found behind its items, from any
\* position in it.
LEMMA ReadOnAtEnd ==
  ASSUME NEW f, NEW g, NEW e \in 0 .. Capacity,
         SameBefore(f, g, e)
  PROVE  ReadsOn(f, g, e)
<1> DEFINE Good(p, r, s, tail) ==
             r.ok /\ r.end = e =>
               /\ s.ok = tail.ok
               /\ tail.ok => s.items = r.items \o tail.items /\ s.end = tail.end
           G == {p \in 0 .. Capacity : Good(p, ReadFrom(f)[p], ReadFrom(g)[p], ReadFrom(g)[e])}
<1>1. PICK tail : tail = ReadFrom(g)[e]
  OBVIOUS
<1>2. tail \in [ok : BOOLEAN, items : Seq(Items), end : Nat]
  BY <1>1, ReadFromType
<1>3. ASSUME NEW p \in 0 .. Capacity, \A q \in p + 1 .. Capacity : q \in G
      PROVE  p \in G
  <2>1. SUFFICES ASSUME ReadFrom(f)[p].ok, ReadFrom(f)[p].end = e
                 PROVE  Good(p, ReadFrom(f)[p], ReadFrom(g)[p], tail)
    BY <1>1
  <2>2. ReadFrom(f)[p] = ReadEntry(f, p, ReadFrom(f))
    BY ReadFromUnfolds
  <2>3. p \in 0 .. Capacity - 1 /\ e \in p .. Capacity - 1
    BY <2>1, ReadFromType, LogAssumption
  <2>4. CASE f[p] = {}
    <3>1. ReadFrom(f)[p] = End(p)
      BY <2>2, <2>3, <2>4, LogAssumption DEF ReadEntry
    <3>2. p = e /\ ReadFrom(f)[p].items = <<>>
      BY <2>1, <3>1 DEF End
    <3>3. <<>> \o tail.items = tail.items
      BY <1>2
    <3> QED BY <1>1, <3>2, <3>3
  <2>5. CASE f[p] # {}
    <3>1. EntriesAt(f, p) # {}
      BY <2>1, <2>2, <2>3, <2>5, LogAssumption DEF ReadEntry, Unreadable
    <3>2. PICK x : x = CHOOSE y \in EntriesAt(f, p) : TRUE
      OBVIOUS
    <3>3. x \in EntriesAt(f, p)
      BY <3>1, <3>2
    <3>4. /\ x[1] \in 1 .. Capacity /\ x[2] \in Items /\ p + 1 + x[1] \in p + 1 .. Capacity
          /\ f[p] = {LengthWord(x[1])}
      BY <2>3, <3>3, EntriesAtFacts
    <3>5. PICK rest : rest = ReadFrom(f)[p + 1 + x[1]]
      OBVIOUS
    <3>6. ReadFrom(f)[p] =
            IF rest.ok THEN [ok |-> TRUE, items |-> <<x[2]>> \o rest.items, end |-> rest.end]
                       ELSE Unreadable
      BY <2>2, <2>3, <2>5, <3>1, <3>2, <3>5, LogAssumption DEF ReadEntry
    <3>7. rest.ok /\ rest.end = e /\ ReadFrom(f)[p].items = <<x[2]>> \o rest.items
      BY <2>1, <3>6 DEF Unreadable
    <3>8. /\ p + 1 + x[1] \in 0 .. Capacity
          /\ rest \in [ok : BOOLEAN, items : Seq(Items), end : Nat]
          /\ e \in p + 1 + x[1] .. Capacity - 1
      <4>1. p + 1 + x[1] \in 0 .. Capacity
        BY <3>4
      <4> QED BY <4>1, <3>5, <3>7, ReadFromType
    <3>9. EntriesAt(g, p) = EntriesAt(f, p) /\ g[p] = f[p]
      <4>1. \A q \in p .. p + x[1] : q \in 0 .. e - 1
        BY <2>3, <3>4, <3>8
      <4>2. \A q \in p .. p + x[1] : g[q] = f[q]
        BY <4>1 DEF SameBefore
      <4>3. p \in p .. p + x[1]
        BY <3>4
      <4> QED BY <4>2, <4>3, <2>3, <3>3, EntriesAtAgree
    <3>10. PICK rest2 : rest2 = ReadFrom(g)[p + 1 + x[1]]
      OBVIOUS
    <3>11. ReadFrom(g)[p] =
            IF rest2.ok THEN [ok |-> TRUE, items |-> <<x[2]>> \o rest2.items, end |-> rest2.end]
                        ELSE Unreadable
      <4>1. ReadFrom(g)[p] = ReadEntry(g, p, ReadFrom(g))
        BY ReadFromUnfolds
      <4> QED BY <4>1, <2>3, <2>5, <3>1, <3>2, <3>9, <3>10, LogAssumption DEF ReadEntry
    <3>12. Good(p + 1 + x[1], rest, rest2, tail)
      BY <1>1, <1>3, <3>4, <3>5, <3>10
    <3>13. rest2.ok = tail.ok /\ (tail.ok => rest2.items = rest.items \o tail.items /\ rest2.end = tail.end)
      BY <3>7, <3>12
    <3>14. <<x[2]>> \o (rest.items \o tail.items) = (<<x[2]>> \o rest.items) \o tail.items
      <4>1. <<x[2]>> \in Seq(Items) /\ rest.items \in Seq(Items) /\ tail.items \in Seq(Items)
        BY <1>2, <3>4, <3>8
      <4>2. \A s, t, u \in Seq(Items) : (s \o t) \o u = s \o (t \o u)
        BY ConcatAssociative, SMTT(30)
      <4> QED BY <4>1, <4>2, Zenon
    <3>15. CASE tail.ok
      <4>1. ReadFrom(g)[p] = [ok |-> TRUE, items |-> <<x[2]>> \o rest2.items, end |-> rest2.end]
        BY <3>11, <3>13, <3>15
      <4>2. ReadFrom(g)[p].ok /\ ReadFrom(g)[p].items = <<x[2]>> \o rest2.items
              /\ ReadFrom(g)[p].end = rest2.end
        BY <4>1
      <4>3. ReadFrom(g)[p].ok = TRUE /\ tail.ok = TRUE
        BY <1>2, <3>15, <4>1
      <4> QED BY <3>7, <3>13, <3>14, <3>15, <4>2, <4>3
    <3>16. CASE ~ tail.ok
      <4>1. tail.ok = FALSE /\ rest2.ok = FALSE
        BY <1>2, <3>13, <3>16
      <4>2. ReadFrom(g)[p] = Unreadable
        BY <3>11, <4>1
      <4>3. ReadFrom(g)[p].ok = FALSE
        BY <4>2 DEF Unreadable
      <4> QED BY <3>16, <4>1, <4>3
    <3> QED BY <3>15, <3>16
  <2> QED BY <2>4, <2>5
<1>4. \A p \in 0 .. Capacity : p \in G
  <2> HIDE DEF G
  <2> QED BY <1>3, DownwardInduction
<1> QED BY <1>4 DEF ReadsOn

----------------------------------------------------------------------------
(* The log *)

\* The word at p, at or behind the position: erased, or programmed by the push
\* that is running.
Ahead(p) ==
  IF p - pos \in 1 .. done /\ p - pos <= Words[item] THEN {BodyWord(item, p - pos)} ELSE {}

\* As long as no push was cut short, the log reads as what was pushed and ends at
\* the position; behind the position there is only what the running push wrote.
LogIsWhole ==
  /\ pos < Capacity => Entries(flash).ok /\ Entries(flash).items = entries /\ Entries(flash).end = pos
  /\ pos = Capacity => ~ Entries(flash).ok
  /\ \A p \in pos .. Capacity - 1 : flash[p] = Ahead(p)

LogType ==
  /\ flash = [p \in Positions |-> flash[p]]
  /\ pos \in 0 .. Capacity
  /\ done \in Nat
  /\ entries \in Seq(Items)
  /\ torn \in BOOLEAN

\* Where a push stands.
PushStands ==
  \/ pc \in {"idle", "boot", "failed"} /\ item = None /\ done = 0
  \/ pc = "body" /\ item \in Items /\ done < Words[item]
  \/ pc = "length" /\ item \in Items /\ done >= Words[item] /\ pos + Words[item] < Capacity

LogInvariant == LogType /\ PushStands /\ (~ torn => LogIsWhole)

\* An erased word at the position ends the log there.
LEMMA ErasedEndsLog ==
  ASSUME NEW g, NEW e \in 0 .. Capacity - 1, g[e] = {}
  PROVE  ReadFrom(g)[e] = End(e)
<1>1. e \in 0 .. Capacity /\ e # Capacity
  BY LogAssumption
<1>2. ReadFrom(g)[e] = ReadEntry(g, e, ReadFrom(g))
  BY <1>1, ReadFromUnfolds
<1> QED BY <1>1, <1>2 DEF ReadEntry

\* A flash that is the same in front of the position and erased at it has the
\* same log.
LEMMA SameLog ==
  ASSUME LogType, pos < Capacity, LogIsWhole, NEW g,
         SameBefore(flash, g, pos),
         g[pos] = {}
  PROVE  Entries(g).ok /\ Entries(g).items = entries /\ Entries(g).end = pos
<1>1. pos \in 0 .. Capacity - 1 /\ pos \in 0 .. Capacity /\ 0 \in 0 .. Capacity
  BY LogAssumption DEF LogType
<1>2. ReadFrom(g)[pos] = End(pos)
  BY <1>1, ErasedEndsLog
<1>3. ReadFrom(flash)[0].ok /\ ReadFrom(flash)[0].end = pos /\ ReadFrom(flash)[0].items = entries
  BY DEF LogIsWhole, Entries
<1>4. /\ ReadFrom(g)[pos].ok = TRUE
      /\ ReadFrom(g)[pos].items = <<>>
      /\ ReadFrom(g)[pos].end = pos
  BY <1>2 DEF End
<1>5. /\ ReadFrom(g)[0].ok = TRUE
      /\ ReadFrom(g)[0].items = entries \o <<>>
      /\ ReadFrom(g)[0].end = pos
  <2>1. ReadFrom(flash)[0].ok /\ ReadFrom(flash)[0].end = pos =>
          /\ ReadFrom(g)[0].ok = ReadFrom(g)[pos].ok
          /\ ReadFrom(g)[pos].ok =>
               /\ ReadFrom(g)[0].items = ReadFrom(flash)[0].items \o ReadFrom(g)[pos].items
               /\ ReadFrom(g)[0].end = ReadFrom(g)[pos].end
    <3>1. ReadsOn(flash, g, pos)
      BY <1>1, ReadOnAtEnd
    <3> QED BY <1>1, <3>1 DEF ReadsOn
  <2> QED BY <1>3, <1>4, <2>1
<1>6. entries \o <<>> = entries
  BY DEF LogType
<1> QED BY <1>5, <1>6 DEF Entries

LEMMA WriteBodyKeepsLog ==
  ASSUME LogInvariant, WriteBody
  PROVE  LogInvariant'
<1>1. /\ item \in Items /\ Words[item] \in Nat /\ done < Words[item] /\ done \in Nat
      /\ pos \in Nat /\ BufWords \in Nat \ {0} /\ Capacity \in Nat
      /\ item # None
  BY LogAssumption DEF LogInvariant, LogType, PushStands, WriteBody
<1>2. NextWords \subseteq 1 .. Words[item] /\ done + 1 \in NextWords
  BY <1>1 DEF NextWords
<1>3. pos < Capacity
  BY <1>1, <1>2 DEF WriteBody, WriteFits
<1>4. LogType'
  BY <1>1 DEF LogInvariant, LogType, WriteBody, Positions
<1>5. PushStands'
  <2>1. CASE done + BufWords >= Words[item]
    <3>1. Words[item] \in NextWords
      BY <1>1, <2>1 DEF NextWords
    <3>2. pos + Words[item] < Capacity
      BY <3>1 DEF WriteBody, WriteFits
    <3> QED BY <1>1, <2>1, <3>2 DEF WriteBody, PushStands
  <2>2. CASE ~ (done + BufWords >= Words[item])
    BY <1>1, <2>2 DEF WriteBody, PushStands
  <2> QED BY <2>1, <2>2
<1>6. ASSUME ~ torn' PROVE LogIsWhole'
  <2>1. LogIsWhole /\ LogType
    BY <1>6 DEF LogInvariant, WriteBody
  <2>2. \A p \in Positions : flash'[p] =
          IF p - pos \in NextWords THEN flash[p] \cup {BodyWord(item, p - pos)} ELSE flash[p]
    BY DEF WriteBody
  <2>3. SameBefore(flash, flash', pos)
    <3> SUFFICES ASSUME NEW q \in 0 .. pos - 1 PROVE flash'[q] = flash[q]
      BY DEF SameBefore
    <3>1. q \in Positions /\ q - pos \notin NextWords
      BY <1>1, <1>2, <1>3 DEF Positions
    <3> QED BY <2>2, <3>1
  <2>4. flash'[pos] = {}
    <3>1. pos \in Positions /\ pos \in pos .. Capacity - 1 /\ pos - pos \notin NextWords
      BY <1>1, <1>2, <1>3 DEF Positions
    <3>2. flash[pos] = Ahead(pos)
      BY <2>1, <3>1 DEF LogIsWhole
    <3>3. Ahead(pos) = {}
      <4>1. pos - pos \notin 1 .. done
        BY <1>1
      <4> QED BY <4>1 DEF Ahead
    <3> QED BY <2>2, <3>1, <3>2, <3>3
  <2>5. Entries(flash').ok /\ Entries(flash').items = entries /\ Entries(flash').end = pos
    BY <1>3, <2>1, <2>3, <2>4, SameLog
  <2>6. pos' = pos /\ entries' = entries /\ item' = item /\ done' = done + BufWords
    BY DEF WriteBody
  <2>7. ASSUME NEW p \in pos .. Capacity - 1 PROVE flash'[p] = Ahead(p)'
    <3>1. p \in Positions /\ p - pos \in Nat
      BY <1>1 DEF Positions
    <3>2. flash[p] = Ahead(p)
      BY <2>1 DEF LogIsWhole
    <3>3. Ahead(p)' = IF p - pos \in 1 .. done + BufWords /\ p - pos <= Words[item]
                        THEN {BodyWord(item, p - pos)} ELSE {}
      BY <2>6 DEF Ahead
    <3>4. p - pos \in NextWords => Ahead(p) = {} /\ p - pos \in 1 .. done + BufWords /\ p - pos <= Words[item]
      BY <1>1, <3>1 DEF NextWords, Ahead
    <3>5. p - pos \notin NextWords =>
            ((p - pos \in 1 .. done + BufWords /\ p - pos <= Words[item])
               <=> (p - pos \in 1 .. done /\ p - pos <= Words[item]))
      BY <1>1, <3>1 DEF NextWords
    <3>6. CASE p - pos \in NextWords
      <4>1. flash'[p] = {} \cup {BodyWord(item, p - pos)}
        BY <2>2, <3>1, <3>2, <3>4, <3>6
      <4> QED BY <3>3, <3>4, <3>6, <4>1
    <3>7. CASE p - pos \notin NextWords
      <4>1. flash'[p] = Ahead(p)
        BY <2>2, <3>1, <3>2, <3>7
      <4> QED BY <3>3, <3>5, <3>7, <4>1 DEF Ahead
    <3> QED BY <3>6, <3>7
  <2>8. Entries(flash)' = Entries(flash')
    OBVIOUS
  <2>9. ~ (pos' = Capacity)
    BY <1>1, <1>3, <2>6
  <2> QED BY <2>5, <2>6, <2>7, <2>8, <2>9 DEF LogIsWhole
<1> QED BY <1>4, <1>5, <1>6 DEF LogInvariant

LEMMA WriteLengthKeepsLog ==
  ASSUME LogInvariant, WriteLength
  PROVE  LogInvariant'
<1> DEFINE W == Words[item]
           e == pos + 1 + W
<1>1. /\ item \in Items /\ W \in Nat \ {0} /\ done >= W /\ done \in Nat
      /\ pos \in Nat /\ Capacity \in Nat /\ pos + W < Capacity
  BY LogAssumption DEF LogInvariant, LogType, PushStands, WriteLength
<1>2. /\ pos' = e /\ entries' = Append(entries, item) /\ item' = None /\ done' = 0 /\ pc' = "idle"
      /\ torn' = torn
      /\ flash' = [flash EXCEPT ![pos] = @ \cup {LengthWord(W)}]
  <2>1. pos + Words[item] + 1 = e
    BY <1>1
  <2> HIDE DEF e
  <2> QED BY <2>1 DEF WriteLength
<1>3. e \in 0 .. Capacity /\ pos \in 0 .. Capacity - 1 /\ pos \in 0 .. Capacity
  BY <1>1
<1> HIDE DEF W
<1>4. LogType'
  <2>1. flash' = [p \in Positions |-> flash'[p]]
    <3> HIDE DEF e
    <3> QED BY <1>2 DEF LogInvariant, LogType
  <2>2. Append(entries, item) \in Seq(Items)
    BY <1>1 DEF LogInvariant, LogType
  <2> HIDE DEF e
  <2> QED BY <1>2, <1>3, <2>1, <2>2 DEF LogInvariant, LogType
<1>5. PushStands'
  BY <1>2 DEF PushStands
<1>6. ASSUME ~ torn' PROVE LogIsWhole'
  <2>1. LogIsWhole /\ LogType
    BY <1>2, <1>6 DEF LogInvariant
  <2>2. DOMAIN flash = Positions
    BY <2>1 DEF LogType
  <2>3. \A q \in Positions : q # pos => flash'[q] = flash[q]
    BY <1>2, <2>2
  <2>4. flash'[pos] = {LengthWord(W)}
    <3>1. pos \in Positions /\ pos \in pos .. Capacity - 1
      BY <1>1, <1>3 DEF Positions
    <3>2. flash[pos] = Ahead(pos)
      BY <2>1, <3>1 DEF LogIsWhole
    <3>3. Ahead(pos) = {}
      <4>1. pos - pos \notin 1 .. done
        BY <1>1
      <4> QED BY <4>1 DEF Ahead
    <3> QED BY <1>2, <2>2, <3>1, <3>2, <3>3
  <2>5. \A k \in 1 .. W : flash'[pos + k] = {BodyWord(item, k)}
    <3> SUFFICES ASSUME NEW k \in 1 .. W PROVE flash'[pos + k] = {BodyWord(item, k)}
      OBVIOUS
    <3>1. /\ pos + k \in Positions /\ pos + k \in pos .. Capacity - 1 /\ pos + k # pos
          /\ (pos + k) - pos = k /\ k \in 1 .. done /\ k <= W
      BY <1>1 DEF Positions
    <3>2. flash[pos + k] = Ahead(pos + k)
      BY <2>1, <3>1 DEF LogIsWhole
    <3>3. Ahead(pos + k) = {BodyWord(item, k)}
      <4>1. Ahead(pos + k) =
              IF (pos + k) - pos \in 1 .. done /\ (pos + k) - pos <= W THEN {BodyWord(item, (pos + k) - pos)} ELSE {}
        BY DEF Ahead, W
      <4> QED BY <3>1, <4>1
    <3> QED BY <2>3, <3>1, <3>2, <3>3
  <2>6. EntriesAt(flash', pos) = {<<W, item>>}
    <3>1. \A n : LengthWord(n) = LengthWord(W) => n = W
      BY DEF LengthWord
    <3>2. \A n : {LengthWord(n)} = {LengthWord(W)} => LengthWord(n) = LengthWord(W)
      OBVIOUS
    <3>3. Lengths(flash', pos) = {W}
      <4>1. W \in 1 .. Capacity
        BY <1>1
      <4> HIDE DEF LengthWord
      <4> QED BY <1>1, <2>4, <3>1, <3>2, <4>1 DEF Lengths
    <3>4. item \in Decodes(flash', pos, W)
      <4> HIDE DEF BodyWord
      <4> QED BY <1>1, <2>5 DEF Decodes, W
    <3>5. \A i \in Decodes(flash', pos, W) : i = item
      <4> SUFFICES ASSUME NEW i \in Decodes(flash', pos, W) PROVE i = item
        OBVIOUS
      <4>1. 1 \in 1 .. W
        BY <1>1
      <4>2. flash'[pos + 1] = {BodyWord(i, 1)} /\ flash'[pos + 1] = {BodyWord(item, 1)}
        BY <2>5, <4>1 DEF Decodes
      <4>3. BodyWord(i, 1) = BodyWord(item, 1)
        BY <4>2
      <4> QED BY <4>3 DEF BodyWord
    <3>6. Decodes(flash', pos, W) = {item}
      BY <3>4, <3>5
    <3>7. ASSUME NEW x \in EntriesAt(flash', pos) PROVE x = <<W, item>>
      <4>1. x \in {W} \X Items /\ x[2] \in Decodes(flash', pos, x[1])
        BY <3>3 DEF EntriesAt
      <4> QED BY <3>6, <4>1
    <3>8. <<W, item>> \in EntriesAt(flash', pos)
      <4>1. <<W, item>> \in {W} \X Items
        BY <1>1
      <4> QED BY <3>3, <3>4, <4>1 DEF EntriesAt
    <3> QED BY <3>7, <3>8
  <2>7. PICK rest : rest = ReadFrom(flash')[e]
    OBVIOUS
  <2>8. ReadFrom(flash')[pos] =
          IF rest.ok THEN [ok |-> TRUE, items |-> <<item>> \o rest.items, end |-> rest.end]
                     ELSE Unreadable
    <3>1. ReadFrom(flash')[pos] = ReadEntry(flash', pos, ReadFrom(flash'))
      BY <1>3, ReadFromUnfolds
    <3>2. pos # Capacity /\ flash'[pos] # {}
      BY <1>1, <2>4
    <3>3. (CHOOSE x \in EntriesAt(flash', pos) : TRUE) = <<W, item>> /\ EntriesAt(flash', pos) # {}
      BY <2>6
    <3>4. <<W, item>>[1] = W /\ <<W, item>>[2] = item
      OBVIOUS
    <3> QED BY <2>7, <3>1, <3>2, <3>3, <3>4 DEF ReadEntry
  <2>9. ReadFrom(flash)[0].ok /\ ReadFrom(flash)[0].end = pos /\ ReadFrom(flash)[0].items = entries
    <3>1. pos < Capacity
      BY <1>1
    <3> QED BY <2>1, <3>1 DEF LogIsWhole, Entries
  <2>10. SameBefore(flash, flash', pos)
    <3>1. \A q \in 0 .. pos - 1 : q \in Positions /\ q # pos
      BY <1>1 DEF Positions
    <3> QED BY <2>3, <3>1 DEF SameBefore
  <2>11. /\ ReadFrom(flash')[0].ok = ReadFrom(flash')[pos].ok
         /\ ReadFrom(flash')[pos].ok =>
              /\ ReadFrom(flash')[0].items = entries \o ReadFrom(flash')[pos].items
              /\ ReadFrom(flash')[0].end = ReadFrom(flash')[pos].end
    <3>1. 0 \in 0 .. Capacity
      BY LogAssumption
    <3>2. ReadsOn(flash, flash', pos)
      BY <1>3, <2>10, ReadOnAtEnd
    <3> QED BY <2>9, <3>1, <3>2 DEF ReadsOn
  <2>12. \A p \in e .. Capacity - 1 : flash'[p] = {}
    <3> SUFFICES ASSUME NEW p \in e .. Capacity - 1 PROVE flash'[p] = {}
      OBVIOUS
    <3>1. p \in Positions /\ p \in pos .. Capacity - 1 /\ p # pos /\ ~ (p - pos <= W)
      BY <1>1 DEF Positions
    <3>2. flash[p] = Ahead(p) /\ Ahead(p) = {}
      BY <2>1, <3>1 DEF LogIsWhole, Ahead, W
    <3> QED BY <2>3, <3>1, <3>2
  <2>13. e < Capacity => Entries(flash').ok /\ Entries(flash').items = Append(entries, item) /\ Entries(flash').end = e
    <3> SUFFICES ASSUME e < Capacity
                 PROVE  Entries(flash').ok /\ Entries(flash').items = Append(entries, item) /\ Entries(flash').end = e
      OBVIOUS
    <3>1. e \in 0 .. Capacity - 1 /\ e \in e .. Capacity - 1
      BY <1>1
    <3>2. rest = End(e)
      BY <2>7, <2>12, <3>1, ErasedEndsLog
    <3>3. ReadFrom(flash')[pos] = [ok |-> TRUE, items |-> <<item>> \o <<>>, end |-> e]
      BY <2>8, <3>2 DEF End
    <3>4. <<item>> \o <<>> = <<item>> /\ entries \o <<item>> = Append(entries, item)
      BY <1>1, <2>1 DEF LogType
    <3>5. ReadFrom(flash')[pos].ok /\ ReadFrom(flash')[pos].items = <<item>> /\ ReadFrom(flash')[pos].end = e
      BY <3>3, <3>4
    <3> QED BY <2>11, <3>4, <3>5 DEF Entries
  <2>14. e = Capacity => ~ Entries(flash').ok
    <3> SUFFICES ASSUME e = Capacity PROVE ~ Entries(flash').ok
      OBVIOUS
    <3>1. rest = Unreadable
      <4>1. rest = ReadEntry(flash', e, ReadFrom(flash'))
        BY <1>3, <2>7, ReadFromUnfolds
      <4> QED BY <4>1 DEF ReadEntry
    <3>2. ~ ReadFrom(flash')[pos].ok
      BY <2>8, <3>1 DEF Unreadable
    <3> QED BY <2>11, <3>2 DEF Entries
  <2>15. \A p \in e .. Capacity - 1 : Ahead(p)' = {}
    BY <1>1, <1>2 DEF Ahead
  <2>16. Entries(flash)' = Entries(flash')
    OBVIOUS
  <2> HIDE DEF e
  <2> QED BY <1>2, <2>12, <2>13, <2>14, <2>15, <2>16 DEF LogIsWhole
<1> QED BY <1>4, <1>5, <1>6 DEF LogInvariant

\* A restart leaves the flash as it is; it is torn when the push had begun.
LEMMA RestartKeepsLog ==
  ASSUME LogInvariant, Restart
  PROVE  LogInvariant'
<1>1. LogType'
  BY DEF LogInvariant, LogType, Restart
<1>2. PushStands'
  BY DEF Restart, PushStands
<1>3. ASSUME ~ torn' PROVE LogIsWhole'
  <2>1. ~ torn /\ (item = None \/ ~ (done > 0))
    BY <1>3 DEF Restart
  <2>2. done = 0
    BY <2>1, LogAssumption DEF LogInvariant, LogType, PushStands
  <2>3. /\ flash' = flash /\ pos' = pos /\ entries' = entries /\ done' = 0
        /\ LogType /\ LogIsWhole
    BY <2>1 DEF Restart, LogInvariant
  <2>4. \A p \in pos .. Capacity - 1 : Ahead(p)' = {} /\ Ahead(p) = {}
    BY <2>2, <2>3 DEF LogType, Ahead
  <2>5. Entries(flash)' = Entries(flash)
    BY <2>3
  <2> QED BY <2>3, <2>4, <2>5 DEF LogIsWhole
<1> QED BY <1>1, <1>2, <1>3 DEF LogInvariant

LEMMA BootKeepsLog ==
  ASSUME LogInvariant, Boot
  PROVE  LogInvariant'
<1>1. /\ flash' = flash /\ item' = item /\ done' = done /\ entries' = entries /\ torn' = torn
      /\ pc = "boot" /\ item = None /\ done = 0
  BY DEF Boot, LogInvariant, PushStands
<1>2. Entries(flash).ok => Entries(flash).end \in 0 .. Capacity - 1
  <2>1. 0 \in 0 .. Capacity
    BY LogAssumption
  <2> QED BY <2>1, ReadFromType DEF Entries
<1>3. LogType'
  BY <1>1, <1>2, LogAssumption DEF LogInvariant, LogType, Boot
<1>4. PushStands'
  BY <1>1 DEF Boot, PushStands
<1>5. ASSUME ~ torn' PROVE LogIsWhole'
  <2>1. LogIsWhole /\ LogType
    BY <1>1, <1>5 DEF LogInvariant
  <2>2. pos' = pos
    <3>1. CASE Entries(flash).ok
      BY <2>1, <3>1, LogAssumption DEF Boot, LogIsWhole, LogType
    <3>2. CASE ~ Entries(flash).ok
      BY <3>2 DEF Boot
    <3> QED BY <3>1, <3>2
  <2>3. \A p : Ahead(p)' = Ahead(p)
    BY <1>1, <2>2 DEF Ahead
  <2>4. Entries(flash)' = Entries(flash)
    BY <1>1
  <2> QED BY <1>1, <2>1, <2>2, <2>3, <2>4 DEF LogIsWhole
<1> QED BY <1>3, <1>4, <1>5 DEF LogInvariant

LEMMA InitIsWhole ==
  ASSUME Init
  PROVE  LogInvariant
<1>1. LogType
  BY LogAssumption DEF Init, LogType, Positions
<1>2. PushStands
  BY DEF Init, PushStands
<1>3. 0 \in 0 .. Capacity - 1 /\ flash[0] = {} /\ pos = 0 /\ entries = <<>>
  BY LogAssumption DEF Init, Positions
<1>4. Entries(flash) = End(0)
  BY <1>3, ErasedEndsLog DEF Entries
<1>5. \A p \in pos .. Capacity - 1 : flash[p] = Ahead(p)
  BY LogAssumption DEF Init, Positions, Ahead
<1>6. Entries(flash).ok /\ Entries(flash).items = entries /\ Entries(flash).end = pos
  BY <1>3, <1>4 DEF End
<1> QED BY <1>1, <1>2, <1>3, <1>5, <1>6, LogAssumption DEF LogInvariant, LogIsWhole

LEMMA NextKeepsLog ==
  ASSUME LogInvariant, [Next]_vars
  PROVE  LogInvariant'
<1>1. ASSUME NEW i \in Items, BeginPush(i) PROVE LogInvariant'
  <2>1. /\ flash' = flash /\ pos' = pos /\ entries' = entries /\ torn' = torn
        /\ pc' = "body" /\ item' = i /\ done' = 0 /\ done = 0
    BY <1>1 DEF BeginPush, LogInvariant, PushStands
  <2>2. LogType'
    BY <2>1 DEF LogInvariant, LogType
  <2>3. PushStands'
    BY <1>1, <2>1, LogAssumption DEF PushStands
  <2>4. ASSUME ~ torn' PROVE LogIsWhole'
    <3>1. \A p \in pos .. Capacity - 1 : Ahead(p)' = {} /\ Ahead(p) = {}
      BY <2>1 DEF LogInvariant, LogType, Ahead
    <3>2. Entries(flash)' = Entries(flash)
      BY <2>1
    <3> QED BY <2>1, <2>4, <3>1, <3>2 DEF LogInvariant, LogIsWhole
  <2> QED BY <2>2, <2>3, <2>4 DEF LogInvariant
<1>2. CASE UNCHANGED vars
  <2>1. Entries(flash)' = Entries(flash) /\ \A p : Ahead(p)' = Ahead(p)
    BY <1>2 DEF vars, Ahead
  <2> QED BY <1>2, <2>1 DEF vars, LogInvariant, LogType, PushStands, LogIsWhole
<1> QED BY <1>1, <1>2, WriteBodyKeepsLog, WriteLengthKeepsLog, RestartKeepsLog, BootKeepsLog
        DEF Next, PushFails, PowerLoss

----------------------------------------------------------------------------
\* A push is atomic, for any items, any write buffer and any size of the
\* partition: as long as none was cut short and the log is not full to the last
\* word, a boot at any moment finds what was pushed, in order (push, seek_iter).
THEOREM LogPushIsAtomic == Spec => []PushAtomic
<1>1. LogInvariant => PushAtomic
  BY LogAssumption DEF LogInvariant, LogType, LogIsWhole, PushAtomic, Full
<1> QED BY <1>1, InitIsWhole, NextKeepsLog, PTL DEF Spec

\* A boot goes on where the last push ended: whenever no push runs, the position
\* is where seek_iter finds the end of the log.
THEOREM LogBootFindsEnd == Spec => []BootFindsEnd
<1>1. LogInvariant => BootFindsEnd
  BY LogAssumption DEF LogInvariant, LogType, LogIsWhole, BootFindsEnd, Full
<1> QED BY <1>1, InitIsWhole, NextKeepsLog, PTL DEF Spec

=============================================================================
