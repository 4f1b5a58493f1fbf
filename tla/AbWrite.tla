------------------------------ MODULE AbWrite -------------------------------
(***************************************************************************)
(* AbSlot of frostsnap_embedded/src/ab_write.rs: one persistent value kept *)
(* in two flash slots.  A write picks the slot that is not current and the *)
(* next index, erases and programs that slot, then does the same to the    *)
(* other slot.  A slot is programmed through a 256-byte buffer, so a value *)
(* takes one nor_write call or several, and the power can fail between any *)
(* two flash operations.  The index is in the first 256 bytes.             *)
(*                                                                         *)
(* Abstracted: a stored value is a member of Values and the bincode        *)
(* encoding only counts as the number of nor_write calls it takes.         *)
(***************************************************************************)
EXTENDS Integers

CONSTANTS
  Values,    (* the states that are stored                                 *)
  Absent,    (* None, what read returns without a decodable state          *)
  NChunks,   (* NChunks[v]: nor_write calls that programming v takes       *)
  IndexMax   (* u32::MAX, the index an erased sector reads as              *)

ASSUME ValuesAssumption == Absent \notin Values
ASSUME ChunksAssumption == NChunks \in [Values -> Nat \ {0}]
ASSUME IndexMaxAssumption == IndexMax \in Nat \ {0}

VARIABLES
  slots,     (* slots[s]: what the sectors of slot s hold                  *)
  phase,     (* where the running write is                                 *)
  round,     (* 1 while next_slot is written, 2 while other_slot is        *)
  slot,      (* the slot being written                                     *)
  index,     (* index of the slot_value being written                      *)
  value,     (* its value                                                  *)
  returned   (* history: the value of the last write that returned         *)

writeVars == <<slots, phase, round, slot, index, value, returned>>

SlotIds == {0, 1}

\* Option<u32> of read_index; -1 ranks below every index as None does.
NoIndex == -1

Other(s) == (s + 1) % 2

\* A slot as programmed so far: the first `chunks` buffers of the encoding
\* of [index, value].
Erased == [index |-> NoIndex, value |-> Absent, chunks |-> 0]

SlotStates ==
  [index : NoIndex .. IndexMax - 1, value : Values \cup {Absent}, chunks : Nat]

ReadIndex(s) == slots[s].index

\* Mutant: only slot 0 is consulted.
CurrentSlotBlind == 0

CurrentSlot == IF ReadIndex(1) > ReadIndex(0) THEN 1 ELSE 0

CurrentIndex == ReadIndex(CurrentSlot)

Complete(s) == slots[s].value # Absent /\ slots[s].chunks = NChunks[slots[s].value]

\* Slot::read: an erased slot and one whose tail is still erased do not decode.
ReadSlot(s) == IF Complete(s) THEN slots[s].value ELSE Absent

Read == ReadSlot(CurrentSlot)

----------------------------------------------------------------------------
WriteInit ==
  /\ slots = [s \in SlotIds |-> Erased]
  /\ phase = "idle"
  /\ round = 1
  /\ slot = 0
  /\ index = 0
  /\ value = Absent
  /\ returned = Absent

\* Mutant: always start with slot 0.
BeginWriteSlot0(v) ==
  /\ phase = "idle"
  /\ CurrentIndex + 1 # IndexMax
  /\ phase' = "erase"
  /\ round' = 1
  /\ slot' = 0
  /\ index' = CurrentIndex + 1
  /\ value' = v
  /\ UNCHANGED <<slots, returned>>

\* The head of write: choose next_slot and next_index.
BeginWrite(v) ==
  /\ phase = "idle"
  /\ CurrentIndex + 1 # IndexMax
  /\ phase' = "erase"
  /\ round' = 1
  /\ slot' = IF CurrentIndex = NoIndex THEN 0 ELSE Other(CurrentSlot)
  /\ index' = CurrentIndex + 1
  /\ value' = v
  /\ UNCHANGED <<slots, returned>>

\* "slot has been written too many times"
PanicWrite ==
  /\ phase = "idle"
  /\ CurrentIndex + 1 = IndexMax
  /\ phase' = "panicked"
  /\ UNCHANGED <<slots, round, slot, index, value, returned>>

\* Slot::write: erase_all.
EraseSlot ==
  /\ phase = "erase"
  /\ slots' = [slots EXCEPT ![slot] = Erased]
  /\ phase' = "program"
  /\ UNCHANGED <<round, slot, index, value, returned>>

\* Slot::write: the next nor_write of the encoder or of the final flush.
ProgramChunk ==
  LET written == [index  |-> index,
                  value  |-> value,
                  chunks |-> slots[slot].chunks + 1]
  IN
  /\ phase = "program"
  /\ slots' = [slots EXCEPT ![slot] = written]
  /\ IF written.chunks < NChunks[value]
       THEN UNCHANGED <<phase, round, slot, index, value, returned>>
       ELSE IF round = 1
       THEN /\ phase' = "erase"
            /\ round' = 2
            /\ slot' = Other(slot)
            /\ UNCHANGED <<index, value, returned>>
       ELSE /\ phase' = "idle"
            /\ round' = 1
            /\ value' = Absent
            /\ returned' = value
            /\ UNCHANGED <<slot, index>>

\* The power fails between two flash operations and comes back; the call and
\* everything in memory is gone.
WritePowerLoss ==
  /\ phase' = "idle"
  /\ round' = 1
  /\ value' = Absent
  /\ UNCHANGED <<slots, slot, index, returned>>

WriteNext ==
  \/ \E v \in Values : BeginWrite(v)
  \/ PanicWrite
  \/ EraseSlot
  \/ ProgramChunk
  \/ WritePowerLoss

WriteSpec == WriteInit /\ [][WriteNext]_writeVars

----------------------------------------------------------------------------
(* Properties *)

TypeOK ==
  /\ slots \in [SlotIds -> SlotStates]
  /\ phase \in {"idle", "erase", "program", "panicked"}
  /\ round \in {1, 2}
  /\ slot \in SlotIds
  /\ index \in 0 .. IndexMax - 1
  /\ value \in Values \cup {Absent}
  /\ returned \in Values \cup {Absent}
  /\ (phase \in {"erase", "program"}) <=> (value # Absent)

\* Two slots that carry the same index carry the same value: read and write
\* settle a tie for slot 0, which is only sound if a tie means "same write".
\* Without it an interrupted write and a later one could share an index
\* (current_slot_and_index, and the index reuse its comment warns of).
SameIndexSameValue ==
  ReadIndex(0) = ReadIndex(1) => slots[0].value = slots[1].value

\* A step never lets the index that write continues from fall back, so no
\* power loss makes a later write reuse an index that was already committed.
IndexNeverFallsBack == [][CurrentIndex' >= CurrentIndex]_writeVars

\* "we make sure the state of the system we're managing is never lost": once a
\* write has returned, every later read finds a state, whatever writes were
\* cut short by a power loss in between (AbSlot::write, AbSlot::read).
StateNeverLost == phase = "idle" /\ returned # Absent => Read # Absent

\* What a slot can hold: nothing, or a programmed prefix of an encoding.
SlotWellFormed(s) ==
  \/ slots[s] = Erased
  \/ /\ slots[s].index \in 0 .. IndexMax - 1
     /\ slots[s].value \in Values
     /\ slots[s].chunks \in 1 .. NChunks[slots[s].value]

\* What holds in the middle of a write: in the first round the other slot
\* holds the state that is current, in the second it holds the new state.
WriteInProgress ==
  phase \in {"erase", "program"} =>
    /\ slots[slot].index <= index
    /\ phase = "erase" /\ round = 1 => slots[slot].index < index
    /\ round = 1 => slots[Other(slot)].index = index - 1
    /\ round = 2 => slots[Other(slot)] =
                      [index |-> index, value |-> value, chunks |-> NChunks[value]]
    /\ phase = "program" =>
         \/ slots[slot] = Erased
         \/ slots[slot].index = index /\ slots[slot].value = value
                /\ slots[slot].chunks < NChunks[value]

\* The inductive invariant that SameIndexSameValue and IndexNeverFallsBack
\* rest on; it holds whatever a value's size.
WriteInvariant ==
  /\ \A s \in SlotIds : SlotWellFormed(s)
  /\ WriteInProgress
  /\ SameIndexSameValue

\* When every value fits the buffer a state that was stored always has a
\* completely programmed slot that is current.
SingleChunk == \A v \in Values : NChunks[v] = 1

\* AbSlot as an atomic register: it takes effect with the last chunk of the
\* first of the two slots and the second slot is never observable.
Call ==
  CASE phase \in {"idle", "panicked"}            -> "idle"
    [] phase \in {"erase", "program"} /\ round = 1 -> "writing"
    [] phase \in {"erase", "program"} /\ round = 2 -> "written"

Register == INSTANCE AtomicRegister
  WITH register <- Read, version <- CurrentIndex, call <- Call, pending <- value

\* Whoever calls read and write sees an atomic register whatever the flash
\* steps and power losses in between (AbSlot::write and AbSlot::read).
RefinesAtomicRegister == Register!Spec

=============================================================================
