------------------------ MODULE FirmwareUpgradeProofs ------------------------
(***************************************************************************)
(* Proofs about FirmwareUpgrade: for every chain of devices, any number of *)
(* chunks, upgrades and faults, a device that loses its power anywhere in  *)
(* an upgrade starts a complete firmware, and it is the one the device     *)
(* takes itself to be running; a chunk is sent down only to a device that  *)
(* reads it at once, by the handshake of ready bytes; and a device enters  *)
(* the transfer when it is ready, or was not counted as it should be.      *)
(***************************************************************************)
EXTENDS FirmwareUpgrade, SequenceTheorems, TLAPS

-----------------------------------------------------------------------------
(* The two slots. *)

(* The slot that runs and the spare one are the two slots.                 *)
LEMMA SlotsLemma ==
  ASSUME NEW f \in FlashStates, CurrentSlot(f) # NoSlot
  PROVE  /\ CurrentSlot(f) \in Slots /\ NextSlot(f) \in Slots
         /\ NextSlot(f) = 1 - CurrentSlot(f)
         /\ ActivePartition(f) = CurrentSlot(f)
         /\ f.otadata[CurrentSlot(f)] \in Nat \ {0}
  BY DEF FlashStates, CurrentSlot, NextSlot, ActivePartition, Other, Slots, NoSlot

(* The bootloader takes the slot that current_slot takes.                  *)
LEMMA BootLemma ==
  ASSUME NEW f \in FlashStates, Numbered(f)
  PROVE  BootSlot(f) = CurrentSlot(f)
  BY DEF FlashStates, Numbered, BootSlot, CurrentSlot, Slots, NoSlot

(* Erasing or writing the spare image leaves the otadata alone.            *)
LEMMA ImageLemma ==
  ASSUME NEW f \in FlashStates, NEW s \in Slots, NEW i \in Images, Numbered(f),
         NEW g, g = [f EXCEPT !.image[s] = i]
  PROVE  /\ g \in FlashStates /\ Numbered(g)
         /\ CurrentSlot(g) = CurrentSlot(f) /\ NextSlot(g) = NextSlot(f)
         /\ g.image[s] = i
         /\ \A t \in Slots : t # s => g.image[t] = f.image[t]
  BY DEF FlashStates, Numbered, CurrentSlot, NextSlot, Slots, Images

(* switch_partition, first half: the otadata of the spare slot is erased.  *)
LEMMA EraseLemma ==
  ASSUME NEW f \in FlashStates, Numbered(f),
         NEW g, g = [f EXCEPT !.otadata[NextSlot(f)] = 0]
  PROVE  /\ g \in FlashStates /\ Numbered(g)
         /\ CurrentSlot(g) = CurrentSlot(f) /\ NextSlot(g) = NextSlot(f)
         /\ g.image = f.image
  BY SlotsLemma DEF FlashStates, Numbered, CurrentSlot, NextSlot, Other, Slots, NoSlot

(* Second half: the next number selects the spare slot.                    *)
LEMMA SwitchLemma ==
  ASSUME NEW f \in FlashStates, Numbered(f),
         NEW g, g = [f EXCEPT !.otadata[NextSlot(f)] = NextSeq(f)]
  PROVE  /\ g \in FlashStates /\ Numbered(g)
         /\ CurrentSlot(g) = NextSlot(f)
         /\ g.image = f.image
  BY SMTT(30), SlotsLemma DEF FlashStates, Numbered, CurrentSlot, NextSlot, NextSeq, Other, Slots, NoSlot

-----------------------------------------------------------------------------
(* Types. *)

(* A frame that is put on links of frames leaves links of frames.          *)
LEMMA PutType ==
  ASSUME NEW links \in [Devices -> Seq(Frames)], NEW to, NEW frame \in Frames
  PROVE  Put(links, to, frame) \in [Devices -> Seq(Frames)]
  BY DEF Put

(* The flags are taken as values of a set, which is all the types need.    *)
LEMMA ConstantFlags == TRUE \in Flags /\ FALSE \in Flags
  BY DEF Flags

Loops == {"run", "transfer", "verify", "switch", "reset", "parked", "panicked"}
Modes == {None, "confirm", "erase", "ready", "passive", "forward"}

(* A device's record with new fields is one, with the loop it is given.    *)
LEMMA LoopRecord ==
  ASSUME NEW r \in DeviceStates, NEW l \in Loops
  PROVE  /\ [r EXCEPT !.loop = l] \in DeviceStates
         /\ [r EXCEPT !.loop = l].loop = l
  BY DEF DeviceStates, Loops, Modes

(* ... with a new mode.                                                    *)
LEMMA ModeRecord ==
  ASSUME NEW r \in DeviceStates, NEW m \in Modes
  PROVE  /\ [r EXCEPT !.mode = m] \in DeviceStates
         /\ [r EXCEPT !.mode = m].loop = r.loop
  BY DEF DeviceStates, Loops, Modes

(* ... warned of an upgrade.                                               *)
LEMMA WarnedRecord ==
  ASSUME NEW r \in DeviceStates, NEW m \in Modes, NEW n \in Nat
  PROVE  /\ [r EXCEPT !.mode = m, !.upgrade = n] \in DeviceStates
         /\ [r EXCEPT !.mode = m, !.upgrade = n].loop = r.loop
  BY DEF DeviceStates, Loops, Modes

(* ... with a link that went down.                                         *)
LEMMA LinkRecord ==
  ASSUME NEW r \in DeviceStates
  PROVE  /\ [r EXCEPT !.link = "on"] \in DeviceStates
         /\ [r EXCEPT !.link = "on"].loop = r.loop
  BY DEF DeviceStates

(* So is one that has just got power.                                      *)
LEMMA FreshRecords ==
  /\ Idle \in DeviceStates /\ Idle.loop = "run"
  /\ Booted \in DeviceStates /\ Booted.loop = "run"
  /\ [Booted EXCEPT !.link = "up"] \in DeviceStates
  /\ [Booted EXCEPT !.link = "up"].loop = "run"
  BY ConstantFlags DEF Booted, Idle, None, DeviceStates

(* A protocol's record with new fields is one.                             *)
LEMMA ProtocolRecords ==
  ASSUME NEW p \in Protocols, NEW b \in Flags
  PROVE  /\ [p EXCEPT !.sent = b] \in Protocols
         /\ [p EXCEPT !.abort = b] \in Protocols
  BY DEF Protocols

(* A new protocol has the type of one.                                     *)
LEMMA NewProtocol ==
  ASSUME NEW S \in SUBSET Devices, NEW T \in SUBSET Devices
  PROVE  Protocol(S, T) \in Protocols
  BY ConstantFlags DEF Protocols, Protocol

(* So has none.                                                            *)
LEMMA NoProtocolType == NoProtocol \in Protocols
  BY NewProtocol DEF NoProtocol

-----------------------------------------------------------------------------
(* The devices' steps.  No step but Verify brings a device to the write of *)
(* its otadata.                                                            *)

NoneSwitches == \A e \in Devices : dev'[e].loop = "switch" => dev[e].loop = "switch"
DevStep == dev' \in [Devices -> DeviceStates] /\ NoneSwitches

(* A step that gives one device a record that does not switch.             *)
LEMMA OneDevice ==
  ASSUME TypeOK, NEW d \in Devices, NEW r \in DeviceStates,
         r.loop = "switch" => dev[d].loop = "switch",
         dev' = [dev EXCEPT ![d] = r]
  PROVE  DevStep
  BY DEF TypeOK, DevStep, NoneSwitches


(* A frame is read and the rest is left.                                   *)
LEMMA HeadType ==
  ASSUME TypeOK, NEW d \in Devices, down[d] # <<>>
  PROVE  /\ Head(down[d]) \in Frames
         /\ [down EXCEPT ![d] = Tail(@)] \in [Devices -> Seq(Frames)]
<1>1. down[d] \in Seq(Frames)
  BY DEF TypeOK
<1> QED BY <1>1, HeadTailProperties DEF TypeOK

(* The loop's handling of a frame.                                         *)
LEMMA RecvStep ==
  ASSUME TypeOK, NEW d \in Devices, Recv(d)
  PROVE  DevStep /\ down' \in [Devices -> Seq(Frames)]
<1>1. down[d] # <<>> /\ dev[d].loop = "run"
  BY DEF Recv, Listening
<1>2. Head(down[d]) \in Frames /\ [down EXCEPT ![d] = Tail(@)] \in [Devices -> Seq(Frames)]
  BY <1>1, HeadType
<1>3. down' \in [Devices -> Seq(Frames)]
  BY <1>2, PutType DEF Recv
<1>4. PICK r : /\ dev' = [dev EXCEPT ![d] = r]
               /\ \/ r = Warned(d, Head(down[d]).upgrade)
                  \/ r = [dev[d] EXCEPT !.mode = None]
                  \/ r = Enters(d)
                  \/ r = Panics(d)
  <2>1. Head(down[d]).kind \in {"Prepare", "Cancel", "Enter", "chunk", "garbled"}
    BY <1>2 DEF Frames
  <2> QED BY <2>1 DEF Recv
<1>5. dev[d] \in DeviceStates /\ Head(down[d]).upgrade \in Nat
  BY <1>2 DEF TypeOK, Frames
<1>6. r \in DeviceStates /\ r.loop # "switch"
  <2>1. CASE r = Warned(d, Head(down[d]).upgrade)
    <3>1. (IF Running(d) = "new" THEN "passive" ELSE "confirm") \in Modes
      BY DEF Modes
    <3> QED BY <1>1, <1>5, <2>1, <3>1, WarnedRecord DEF Warned
  <2>2. CASE r = [dev[d] EXCEPT !.mode = None]
    BY <1>1, <1>5, <2>2, ModeRecord DEF Modes
  <2>3. Panics(d) \in DeviceStates /\ Panics(d).loop # "switch"
    BY <1>5, LoopRecord DEF Panics, Loops
  <2>4. CASE r = Enters(d)
    <3>1. (Below(d) # {}) \in Flags /\ (Below(d) = {}) \in Flags
      BY Zenon DEF Flags
    <3>2. "transfer" \in Loops /\ "transfer" # "switch"
      BY DEF Loops
    <3> DEFINE new == [dev[d] EXCEPT !.loop = "transfer", !.below = Below(d) # {},
                                     !.belowReady = Below(d) = {}]
    <3>3. new \in DeviceStates /\ new.loop = "transfer"
      BY <1>5, <3>1, <3>2 DEF DeviceStates, Loops
    <3>4. r = new \/ r = Panics(d)
      BY <2>4 DEF Enters
    <3> HIDE DEF new
    <3> QED BY <2>3, <3>2, <3>3, <3>4
  <2> QED BY <1>4, <2>1, <2>2, <2>3, <2>4
<1> QED BY <1>3, <1>4, <1>6, OneDevice

(* The poll of an upgrade that was confirmed or is passive.                *)
LEMMA PollModeStep ==
  ASSUME TypeOK, NEW d \in Devices, PollMode(d)
  PROVE  DevStep /\ acks' \subseteq [from : Devices, upgrade : Nat]
<1> DEFINE new == [dev[d] EXCEPT !.mode = IF @ = "erase" THEN "ready" ELSE "forward"]
           Rec(e) == IF e \in Above(d) /\ dev[e].loop = "transfer"
                       THEN Panics(e) ELSE [dev EXCEPT ![d] = new][e]
<1>1. \A e \in Devices : dev[e] \in DeviceStates
  BY DEF TypeOK
<1>2. new \in DeviceStates /\ new.loop = dev[d].loop
  <2>1. (IF dev[d].mode = "erase" THEN "ready" ELSE "forward") \in Modes
    BY DEF Modes
  <2> QED BY <1>1, <2>1, ModeRecord
<1>3. \A e \in Devices : Panics(e) \in DeviceStates /\ Panics(e).loop = "panicked"
  BY <1>1, LoopRecord DEF Panics, Loops
<1>4. \A e \in Devices : [dev EXCEPT ![d] = new][e] = IF e = d THEN new ELSE dev[e]
  BY DEF TypeOK
<1>5. \A e \in Devices : Rec(e) \in DeviceStates
                         /\ (Rec(e).loop = "switch" => dev[e].loop = "switch")
  BY <1>1, <1>2, <1>3, <1>4
<1>6. dev' = [e \in Devices |-> Rec(e)]
  BY DEF PollMode
<1>7. dev[d].upgrade \in Nat
  BY <1>1 DEF DeviceStates
<1>8. acks' \subseteq [from : Devices, upgrade : Nat]
  BY <1>7 DEF PollMode, TypeOK
<1> HIDE DEF new, Rec
<1> QED BY <1>5, <1>6, <1>8 DEF DevStep, NoneSwitches

(* A chunk.                                                                *)
LEMMA ReadChunkStep ==
  ASSUME TypeOK, NEW d \in Devices, ReadChunk(d)
  PROVE  DevStep /\ down' \in [Devices -> Seq(Frames)]
<1>1. Head(down[d]) \in Frames /\ [down EXCEPT ![d] = Tail(@)] \in [Devices -> Seq(Frames)]
  BY HeadType DEF ReadChunk
<1>2. down' \in [Devices -> Seq(Frames)]
  BY <1>1, PutType DEF ReadChunk
<1> DEFINE count == dev[d].count + 1
           garbled == dev[d].garbled \/ Head(down[d]).kind # "chunk"
           ready == ~dev[d].below
           loop == IF count < Chunks THEN "transfer"
                   ELSE IF Upgrading(d) THEN "verify" ELSE "reset"
           new == [dev[d] EXCEPT !.count = count, !.garbled = garbled, !.belowReady = ready,
                                 !.told = FALSE, !.loop = loop]
<1>3. dev[d] \in DeviceStates
  BY DEF TypeOK
<1>4. garbled \in Flags /\ ready \in Flags
  BY Zenon DEF Flags
<1>5. count \in Nat /\ loop \in Loops /\ loop # "switch"
  BY <1>3 DEF DeviceStates, Loops
<1>6. dev' = [dev EXCEPT ![d] = new]
  BY DEF ReadChunk
<1>7. new \in DeviceStates /\ new.loop = loop
  <2> HIDE DEF count, garbled, ready, loop
  <2> QED BY <1>3, <1>4, <1>5, ConstantFlags DEF DeviceStates, Loops
<1> HIDE DEF loop, new
<1> QED BY <1>2, <1>5, <1>6, <1>7, OneDevice

(* Ready bytes.                                                            *)
LEMMA SignalStep ==
  ASSUME TypeOK, NEW d \in Devices, Signal(d)
  PROVE  DevStep /\ readyByte' \in [Devices -> Nat]
<1> DEFINE ready == Ready(d)
           told == dev[d].told \/ Ready(d)
           new == [dev[d] EXCEPT !.belowReady = ready, !.told = told]
<1>1. dev[d] \in DeviceStates
  BY DEF TypeOK
<1>2. ready \in Flags /\ told \in Flags
  <2>1. ready \in BOOLEAN
    BY Zenon DEF Ready
  <2> QED BY <2>1, Zenon DEF Flags
<1>3. dev' = [dev EXCEPT ![d] = new]
  BY DEF Signal
<1>4. new \in DeviceStates /\ new.loop = dev[d].loop
  <2> HIDE DEF ready, told
  <2> QED BY <1>1, <1>2 DEF DeviceStates
<1>5. readyByte' \in [Devices -> Nat]
  BY DEF Signal, TypeOK
<1> HIDE DEF new
<1> QED BY <1>3, <1>4, <1>5, OneDevice

(* What resets, plugging and unplugging do to the records of all devices.  *)
LEMMA PowerStep ==
  ASSUME TypeOK, NEW d \in Devices, Reset(d) \/ Unplug(d) \/ PlugIn(d) \/ Join(d) \/ Confirm(d)
  PROVE  DevStep
<1>1. \A e \in Devices : dev[e] \in DeviceStates
  BY DEF TypeOK
<1>2. CASE Reset(d)
  <2> DEFINE Rec(e) == IF e = d THEN Booted
                       ELSE IF e \in Downwards(d) /\ dev[e].link = "up"
                         THEN [dev[e] EXCEPT !.link = "on"] ELSE dev[e]
  <2>1. \A e \in Devices : Rec(e) \in DeviceStates
                           /\ (Rec(e).loop = "switch" => dev[e].loop = "switch")
    BY <1>1, LinkRecord, FreshRecords
  <2>2. dev' = [e \in Devices |-> Rec(e)]
    BY <1>2 DEF Reset
  <2> HIDE DEF Rec
  <2> QED BY <2>1, <2>2 DEF DevStep, NoneSwitches
<1>3. CASE Unplug(d)
  <2> DEFINE Rec(e) == IF e \in Downwards(d) THEN Idle ELSE dev[e]
  <2>1. \A e \in Devices : Rec(e) \in DeviceStates
                           /\ (Rec(e).loop = "switch" => dev[e].loop = "switch")
    BY <1>1, FreshRecords
  <2>2. dev' = [e \in Devices |-> Rec(e)]
    BY <1>3 DEF Unplug
  <2> HIDE DEF Rec
  <2> QED BY <2>1, <2>2 DEF DevStep, NoneSwitches
<1>4. CASE PlugIn(d)
  BY <1>4, FreshRecords, OneDevice DEF PlugIn
<1>5. CASE Join(d)
  BY <1>5, FreshRecords, OneDevice DEF Join
<1>6. CASE Confirm(d)
  <2>1. [dev[d] EXCEPT !.mode = "erase"] \in DeviceStates
        /\ [dev[d] EXCEPT !.mode = "erase"].loop = dev[d].loop
    BY <1>1, ModeRecord DEF Modes
  <2>2. dev' = [dev EXCEPT ![d] = [dev[d] EXCEPT !.mode = "erase"]]
    BY <1>6 DEF Confirm
  <2> QED BY <2>1, <2>2, OneDevice
<1> QED BY <1>2, <1>3, <1>4, <1>5, <1>6

(* The steps of the end of a transfer: the next record of the device.      *)
LEMMA EndStep ==
  ASSUME TypeOK, NEW d \in Devices, Verify(d) \/ Switch(d)
  PROVE  /\ dev' \in [Devices -> DeviceStates]
         /\ \A e \in Devices \ {d} : dev'[e] = dev[e]
         /\ Verify(d) => (dev'[d].loop = "switch" => Verdict(d))
         /\ Switch(d) => dev'[d].loop = "reset"
<1> DEFINE loop == IF dev[d].loop = "switch" THEN "reset"
                   ELSE IF Verdict(d) THEN "switch" ELSE "parked"
           new == [dev[d] EXCEPT !.loop = loop]
<1>1. dev[d] \in DeviceStates /\ loop \in Loops
  BY DEF TypeOK, Loops
<1>2. new \in DeviceStates /\ new.loop = loop
  BY <1>1, LoopRecord
<1>3. dev' = [dev EXCEPT ![d] = new]
  BY DEF Verify, Switch
<1>4. Switch(d) => loop = "reset"
  BY DEF Switch
<1>5. loop = "switch" => Verdict(d)
  OBVIOUS
<1> HIDE DEF loop, new
<1> QED BY <1>2, <1>3, <1>4, <1>5 DEF TypeOK

-----------------------------------------------------------------------------
(* Type correctness. *)

(* The initial state has its types.                                        *)
LEMMA UpgradeTypeInit == Init => TypeOK
<1> SUFFICES ASSUME Init PROVE TypeOK
  OBVIOUS
<1>1. flash \in [Devices -> FlashStates]
  BY DEF Init, FlashStates, Slots, Images
<1>2. dev \in [Devices -> DeviceStates]
  BY FreshRecords DEF Init
<1>3. down \in [Devices -> Seq(Frames)]
  BY EmptySeq DEF Init
<1>4. proto \in Protocols
  BY NoProtocolType DEF Init
<1>5. budget \in [upgrades : Nat, faults : Nat]
  BY UpgradeAssumption DEF Init
<1> QED BY <1>1, <1>2, <1>3, <1>4, <1>5 DEF Init, TypeOK

(* A fault is counted.                                                     *)
LEMMA FaultType ==
  ASSUME TypeOK, Fault
  PROVE  budget' \in [upgrades : Nat, faults : Nat]
<1>1. budget.faults > 0 /\ budget' = [budget EXCEPT !.faults = @ - 1]
  BY DEF Fault
<1>2. budget \in [upgrades : Nat, faults : Nat]
  BY DEF TypeOK
<1>3. budget.faults - 1 \in Nat
  BY <1>1, <1>2
<1> QED BY <1>1, <1>2, <1>3

(* Each part of the type for the steps of the coordinator.                 *)
LEMMA CoordinatorType ==
  ASSUME TypeOK,
         \/ CoordinatorStep \/ BeginUpgrade \/ CancelProtocol \/ SendCancelAll
         \/ WriteChunk("garbled")
  PROVE  TypeOK' /\ flash' = flash /\ dev' = dev
<1>0. ASSUME NEW kind \in {"Prepare", "Cancel", "Enter", "chunk", "garbled"}
      PROVE  ToAll(Frame(kind)) \in [Devices -> Seq(Frames)]
  <2>1. Frame(kind) \in Frames
    BY DEF Frame, Frames, TypeOK
  <2> QED BY <2>1, PutType DEF ToAll, TypeOK
<1>1. CASE PollProtocol
  <2>1. down' \in [Devices -> Seq(Frames)]
    BY <1>0, <1>1 DEF PollProtocol, TypeOK
  <2>2. proto' \in Protocols
    <3>1. [proto EXCEPT !.sent = TRUE] \in Protocols
      BY ProtocolRecords, ConstantFlags DEF TypeOK
    <3> QED BY <1>1, <3>1, NoProtocolType DEF PollProtocol
  <2>3. transfer' \in [stage : {"idle", "ready", "write", "read"}, written : Nat]
    BY <1>1 DEF PollProtocol, TypeOK
  <2> QED BY <1>1, <2>1, <2>2, <2>3 DEF PollProtocol, TypeOK, deviceVars, history
<1>2. ASSUME NEW a \in acks, RecvAck(a)
      PROVE  TypeOK' /\ flash' = flash /\ dev' = dev
  <2>1. a.from \in Devices
    BY DEF TypeOK
  <2>2. stale' \subseteq Devices
    BY <1>2, <2>1 DEF RecvAck, TypeOK
  <2>3. proto \in Protocols /\ proto.confirmed \in SUBSET Devices /\ proto.passive \in SUBSET Devices
    BY DEF TypeOK, Protocols
  <2>4. /\ [proto EXCEPT !.confirmed = @ \union {a.from}] \in Protocols
        /\ [proto EXCEPT !.passive = @ \union {a.from}] \in Protocols
    BY <2>1, <2>3 DEF Protocols
  <2>5. proto' \in Protocols
    BY <1>2, <2>3, <2>4 DEF RecvAck
  <2> QED BY <1>2, <2>2, <2>5 DEF RecvAck, TypeOK, deviceVars
<1>3. ASSUME NEW d \in Devices, Disconnected(d)
      PROVE  TypeOK' /\ flash' = flash /\ dev' = dev
  <2>1. (proto.abort \/ d \in proto.devices) \in Flags
    BY Zenon DEF Flags
  <2>2. proto' \in Protocols
    <3>1. [proto EXCEPT !.abort = @ \/ d \in proto.devices] \in Protocols
      BY <2>1 DEF TypeOK, Protocols
    <3> QED BY <1>3, <3>1, NoProtocolType DEF Disconnected
  <2> QED BY <1>3, <2>2 DEF Disconnected, TypeOK, deviceVars, history
<1>4. ASSUME NEW d \in Devices, Connected(d)
      PROVE  TypeOK' /\ flash' = flash /\ dev' = dev
  BY <1>4 DEF Connected, TypeOK, deviceVars, history
<1>5. CASE EnterUpgradeMode
  <2>1. down' \in [Devices -> Seq(Frames)]
    BY <1>0, <1>5 DEF EnterUpgradeMode
  <2> QED BY <1>5, <2>1 DEF EnterUpgradeMode, TypeOK, deviceVars, history
<1>6. ASSUME NEW kind \in {"chunk", "garbled"}, WriteChunk(kind)
      PROVE  TypeOK' /\ flash' = flash /\ dev' = dev
  <2>1. down' \in [Devices -> Seq(Frames)]
    BY <1>0, <1>6 DEF WriteChunk
  <2>2. budget' \in [upgrades : Nat, faults : Nat]
    BY <1>6, FaultType DEF WriteChunk, TypeOK
  <2>3. transfer' \in [stage : {"idle", "ready", "write", "read"}, written : Nat]
    <3>1. \/ transfer' = [transfer EXCEPT !.stage = "idle"]
          \/ transfer' = [stage |-> "read", written |-> transfer.written + 1]
      BY <1>6 DEF WriteChunk
    <3>2. transfer \in [stage : {"idle", "ready", "write", "read"}, written : Nat]
      BY DEF TypeOK
    <3> QED BY <3>1, <3>2
  <2> QED BY <1>6, <2>1, <2>2, <2>3 DEF WriteChunk, TypeOK, deviceVars, history
<1>7. CASE ReadReady
  <2>1. readyByte' \in [Devices -> Nat]
    <3>1. CASE Head1 \in Devices
      BY <1>7, <3>1 DEF ReadReady, TypeOK
    <3>2. CASE Head1 \notin Devices
      BY <1>7, <3>2 DEF ReadReady, TypeOK
    <3> QED BY <3>1, <3>2
  <2> QED BY <1>7, <2>1 DEF ReadReady, TypeOK, history
<1>8. CASE ReadTimesOut
  BY <1>8 DEF ReadTimesOut, TypeOK, deviceVars, history
<1>9. CASE BeginUpgrade
  <2>1. proto' \in Protocols
    <3>1. seen \subseteq Devices
      BY DEF TypeOK
    <3>2. proto' = Protocol(seen, {d \in seen : Running(d) = "old"})
      BY <1>9 DEF BeginUpgrade
    <3> QED BY <3>1, <3>2, NewProtocol
  <2>2. budget' \in [upgrades : Nat, faults : Nat]
    <3>1. budget.upgrades > 0 /\ budget' = [budget EXCEPT !.upgrades = @ - 1]
      BY <1>9 DEF BeginUpgrade
    <3>2. budget \in [upgrades : Nat, faults : Nat]
      BY DEF TypeOK
    <3>3. budget.upgrades - 1 \in Nat
      BY <3>1, <3>2
    <3> QED BY <3>1, <3>2, <3>3
  <2> QED BY <1>9, <2>1, <2>2 DEF BeginUpgrade, TypeOK, deviceVars
<1>10. CASE CancelProtocol
  <2>1. budget' \in [upgrades : Nat, faults : Nat]
    BY <1>10, FaultType DEF CancelProtocol
  <2>2. cancelling' \in Nat
    BY <1>10 DEF CancelProtocol, TypeOK
  <2> QED BY <1>10, <2>1, <2>2, NoProtocolType DEF CancelProtocol, TypeOK, deviceVars, history
<1>11. CASE SendCancelAll
  <2>1. down' \in [Devices -> Seq(Frames)]
    BY <1>0, <1>11 DEF SendCancelAll
  <2>2. cancelling' \in Nat /\ late' \subseteq Devices
    BY <1>11 DEF SendCancelAll, TypeOK
  <2> QED BY <1>11, <2>1, <2>2 DEF SendCancelAll, TypeOK, deviceVars
<1> QED BY <1>1, <1>2, <1>3, <1>4, <1>5, <1>6, <1>7, <1>8, <1>9, <1>10, <1>11
        DEF CoordinatorStep

(* Each part of the type for the steps of a device.                        *)
LEMMA DeviceType ==
  ASSUME TypeOK, FlashInvariant, NEW d \in Devices,
         \/ DeviceStep(d) \/ Confirm(d) \/ Unplug(d) \/ PlugIn(d)
  PROVE  TypeOK'
<1>0. flash[d] \in FlashStates /\ Spare(d) \in Slots
  BY SlotsLemma DEF TypeOK, FlashInvariant, Numbered, Spare
<1>1. CASE Recv(d)
  BY <1>1, RecvStep DEF Recv, DevStep, TypeOK, history
<1>2. CASE PollMode(d)
  <2>1. flash' \in [Devices -> FlashStates]
    BY <1>0, <1>2 DEF PollMode, TypeOK, FlashStates, Images
  <2> QED BY <1>2, <2>1, PollModeStep DEF PollMode, DevStep, TypeOK, history
<1>3. CASE ReadChunk(d)
  <2>1. flash' \in [Devices -> FlashStates]
    BY <1>0, <1>3 DEF ReadChunk, TypeOK, FlashStates, Images
  <2> QED BY <1>3, <2>1, ReadChunkStep DEF ReadChunk, DevStep, TypeOK, history
<1>4. CASE Signal(d)
  BY <1>4, SignalStep DEF Signal, DevStep, TypeOK, history
<1>5. CASE Verify(d)
  <2>1. flash' \in [Devices -> FlashStates]
    BY <1>0, <1>5 DEF Verify, TypeOK, FlashStates
  <2> QED BY <1>5, <2>1, EndStep DEF Verify, TypeOK, history
<1>6. CASE Switch(d)
  <2>1. NextSeq(flash[d]) \in Nat
    BY <1>0 DEF NextSeq, FlashStates, CurrentSlot, Slots, NoSlot
  <2>2. flash' \in [Devices -> FlashStates]
    BY <1>0, <1>6, <2>1 DEF Switch, TypeOK, FlashStates
  <2> QED BY <1>6, <2>2, EndStep DEF Switch, TypeOK, history
<1>7. CASE Reset(d)
  <2>1. down' \in [Devices -> Seq(Frames)] /\ readyByte' \in [Devices -> Nat]
    BY <1>7, EmptySeq DEF Reset, TypeOK
  <2>2. lost' \subseteq Devices /\ acks' \subseteq [from : Devices, upgrade : Nat]
    BY <1>7 DEF Reset, LinksLost, TypeOK
  <2> QED BY <1>7, <2>1, <2>2, PowerStep DEF Reset, DevStep, TypeOK, history
<1>8. CASE Join(d)
  <2>1. down' \in [Devices -> Seq(Frames)]
    BY <1>8, EmptySeq DEF Join, TypeOK
  <2> QED BY <1>8, <2>1, PowerStep DEF Join, DevStep, TypeOK
<1>9. CASE Confirm(d)
  BY <1>9, PowerStep DEF Confirm, DevStep, TypeOK, history
<1>10. CASE Unplug(d)
  <2>1. down' \in [Devices -> Seq(Frames)] /\ readyByte' \in [Devices -> Nat]
    BY <1>10, EmptySeq DEF Unplug, TypeOK
  <2>2. lost' \subseteq Devices /\ acks' \subseteq [from : Devices, upgrade : Nat]
    BY <1>10 DEF Unplug, LinksLost, TypeOK
  <2>3. budget' \in [upgrades : Nat, faults : Nat]
    <3>1. UNCHANGED budget \/ Fault
      BY <1>10, Zenon DEF Unplug
    <3> QED BY <3>1 DEF Fault, TypeOK
  <2> QED BY <1>10, <2>1, <2>2, <2>3, PowerStep DEF Unplug, DevStep, TypeOK, history
<1>11. CASE PlugIn(d)
  BY <1>11, PowerStep DEF PlugIn, DevStep, TypeOK, history
<1> QED BY <1>1, <1>2, <1>3, <1>4, <1>5, <1>6, <1>7, <1>8, <1>9, <1>10, <1>11 DEF DeviceStep

-----------------------------------------------------------------------------
(* The invariant of the flash. *)

(* The devices start from a complete image in the slot of their number.    *)
LEMMA FlashInit == Init => FlashInvariant
<1> SUFFICES ASSUME Init, NEW d \in Devices
             PROVE  /\ Numbered(flash[d])
                    /\ flash[d].image[CurrentSlot(flash[d])] # "partial"
                    /\ dev[d].loop # "switch"
  BY DEF FlashInvariant
<1>1. PICK start \in Slots, current \in SUBSET Devices :
        flash = [e \in Devices |->
                   [otadata |-> [s \in Slots |-> IF s <= start THEN s + 1 ELSE 0],
                    image |-> [s \in Slots |-> IF s # start THEN "partial"
                                               ELSE IF e \in current THEN "new" ELSE "old"]]]
  BY DEF Init
<1>2. Numbered(flash[d]) /\ CurrentSlot(flash[d]) = start
  BY <1>1 DEF Numbered, CurrentSlot, Slots, NoSlot
<1>3. dev[d].loop = "run"
  BY FreshRecords DEF Init
<1> QED BY <1>1, <1>2, <1>3

(* A step that leaves the flash alone and brings nobody to the switch.     *)
LEMMA FlashUntouched ==
  ASSUME FlashInvariant, flash' = flash, NoneSwitches
  PROVE  FlashInvariant'
  BY DEF FlashInvariant, NoneSwitches, Spare

(* A step that writes the spare slot of a device that does not switch.     *)
LEMMA SpareWritten ==
  ASSUME TypeOK, FlashInvariant, NEW d \in Devices, NoneSwitches, dev[d].loop # "switch",
         NEW i \in Images, flash' = [flash EXCEPT ![d].image[Spare(d)] = i]
  PROVE  FlashInvariant'
<1>1. flash[d] \in FlashStates /\ Numbered(flash[d]) /\ CurrentSlot(flash[d]) # NoSlot
  BY DEF TypeOK, FlashInvariant, Numbered
<1>2. /\ Spare(d) \in Slots /\ CurrentSlot(flash[d]) \in Slots
      /\ Spare(d) # CurrentSlot(flash[d])
  BY <1>1, SlotsLemma DEF Spare, Slots
<1> DEFINE g == [flash[d] EXCEPT !.image[Spare(d)] = i]
<1>3. Numbered(g) /\ g.image[CurrentSlot(g)] = flash[d].image[CurrentSlot(flash[d])]
  BY <1>1, <1>2, ImageLemma
<1>4. \A e \in Devices : flash'[e] = IF e = d THEN g ELSE flash[e]
  BY DEF TypeOK
<1> HIDE DEF g
<1> SUFFICES ASSUME NEW e \in Devices
             PROVE  /\ Numbered(flash'[e])
                    /\ flash'[e].image[CurrentSlot(flash'[e])] # "partial"
                    /\ dev'[e].loop = "switch" => flash'[e].image[NextSlot(flash'[e])] = "new"
  BY DEF FlashInvariant, Spare
<1>5. CASE e = d
  BY <1>3, <1>4, <1>5 DEF FlashInvariant, NoneSwitches
<1>6. CASE e # d
  BY <1>4, <1>6 DEF FlashInvariant, NoneSwitches, Spare
<1> QED BY <1>5, <1>6

(* Each step of a device keeps the invariant: images are written to the    *)
(* spare slot, otadata only by Verify and Switch.                          *)
LEMMA FlashStep ==
  ASSUME TypeOK, FlashInvariant, NEW d \in Devices,
         \/ DeviceStep(d) \/ Confirm(d) \/ Unplug(d) \/ PlugIn(d)
  PROVE  FlashInvariant'
<1>0. flash[d] \in FlashStates /\ Numbered(flash[d])
  BY DEF TypeOK, FlashInvariant
<1>1. CASE Recv(d)
  BY <1>1, RecvStep, FlashUntouched DEF Recv, DevStep
<1>2. CASE PollMode(d)
  <2>1. NoneSwitches /\ dev[d].loop # "switch"
    BY <1>2, PollModeStep DEF PollMode, Listening, DevStep
  <2>2. flash' = flash \/ flash' = [flash EXCEPT ![d].image[Spare(d)] = "partial"]
    BY <1>2 DEF PollMode, Spare
  <2> QED BY <2>1, <2>2, FlashUntouched, SpareWritten DEF Images
<1>3. CASE ReadChunk(d)
  <2>1. NoneSwitches /\ dev[d].loop # "switch"
    BY <1>3, ReadChunkStep DEF ReadChunk, Takes, DevStep
  <2>2. \/ flash' = flash
        \/ \E i \in {"new", "partial"} : flash' = [flash EXCEPT ![d].image[Spare(d)] = i]
    BY <1>3 DEF ReadChunk
  <2> QED BY <2>1, <2>2, FlashUntouched, SpareWritten DEF Images
<1>4. CASE Signal(d)
  BY <1>4, SignalStep, FlashUntouched DEF Signal, DevStep
<1>5. CASE Verify(d)
  <2>1. CASE ~Verdict(d)
    <3>1. flash' = flash /\ NoneSwitches
      BY <1>5, <2>1, EndStep DEF Verify, NoneSwitches
    <3> QED BY <3>1, FlashUntouched
  <2>2. CASE Verdict(d)
    <3> DEFINE g == [flash[d] EXCEPT !.otadata[NextSlot(flash[d])] = 0]
    <3>1. /\ Numbered(g) /\ g.image = flash[d].image
          /\ CurrentSlot(g) = CurrentSlot(flash[d]) /\ NextSlot(g) = NextSlot(flash[d])
      BY <1>0, EraseLemma
    <3>2. \A e \in Devices : flash'[e] = IF e = d THEN g ELSE flash[e]
      BY <1>5, <2>2 DEF Verify, TypeOK, Spare
    <3>3. flash[d].image[NextSlot(flash[d])] = "new"
      BY <2>2 DEF Verdict, Spare
    <3>4. \A e \in Devices \ {d} : dev'[e] = dev[e]
      BY <1>5, EndStep
    <3> HIDE DEF g
    <3> QED BY <3>1, <3>2, <3>3, <3>4 DEF FlashInvariant, Spare
  <2> QED BY <2>1, <2>2
<1>6. CASE Switch(d)
  <2> DEFINE g == [flash[d] EXCEPT !.otadata[NextSlot(flash[d])] = NextSeq(flash[d])]
  <2>1. /\ Numbered(g) /\ g.image = flash[d].image
        /\ CurrentSlot(g) = NextSlot(flash[d])
    BY <1>0, SwitchLemma
  <2>2. \A e \in Devices : flash'[e] = IF e = d THEN g ELSE flash[e]
    BY <1>6 DEF Switch, TypeOK, Spare
  <2>3. flash[d].image[NextSlot(flash[d])] = "new"
    BY <1>6 DEF Switch, FlashInvariant, Spare
  <2>4. dev'[d].loop = "reset" /\ \A e \in Devices \ {d} : dev'[e] = dev[e]
    BY <1>6, EndStep
  <2> HIDE DEF g
  <2> QED BY <2>1, <2>2, <2>3, <2>4 DEF FlashInvariant, Spare
<1>7. CASE Reset(d) \/ Join(d) \/ Confirm(d) \/ Unplug(d) \/ PlugIn(d)
  <2>1. flash' = flash
    BY <1>7 DEF Reset, Join, Confirm, Unplug, PlugIn
  <2> QED BY <1>7, <2>1, PowerStep, FlashUntouched DEF DevStep
<1> QED BY <1>1, <1>2, <1>3, <1>4, <1>5, <1>6, <1>7 DEF DeviceStep

(* Types and flash together are kept by every step.                        *)
LEMMA UpgradeStep ==
  ASSUME TypeOK, FlashInvariant, [Next]_vars
  PROVE  TypeOK' /\ FlashInvariant'
<1>1. CASE \/ CoordinatorStep \/ BeginUpgrade \/ CancelProtocol \/ SendCancelAll
           \/ WriteChunk("garbled")
  <2>1. TypeOK' /\ flash' = flash /\ dev' = dev
    BY <1>1, CoordinatorType
  <2> QED BY <2>1, FlashUntouched DEF NoneSwitches
<1>2. ASSUME NEW d \in Devices, \/ DeviceStep(d) \/ Confirm(d) \/ Unplug(d) \/ PlugIn(d)
      PROVE  TypeOK' /\ FlashInvariant'
  BY <1>2, DeviceType, FlashStep
<1>3. CASE UNCHANGED vars
  <2>1. flash' = flash /\ dev' = dev
    BY <1>3 DEF vars
  <2>2. TypeOK'
    BY <1>3 DEF vars, TypeOK
  <2> QED BY <2>1, <2>2, FlashUntouched DEF NoneSwitches
<1> QED BY <1>1, <1>2, <1>3 DEF Next

-----------------------------------------------------------------------------
(* The type invariant, for every chain and every bound.                    *)
THEOREM FirmwareUpgradeTypeOK == Spec => []TypeOK
<1>1. Init => TypeOK /\ FlashInvariant
  BY UpgradeTypeInit, FlashInit
<1>2. TypeOK /\ FlashInvariant /\ [Next]_vars => (TypeOK /\ FlashInvariant)'
  BY UpgradeStep
<1> QED BY <1>1, <1>2, PTL DEF Spec

(* Each otadata numbers its own slot, the current slot is complete, and    *)
(* the spare one is complete when switch_partition is about to select it.  *)
THEOREM FirmwareUpgradeInvariant == Spec => []FlashInvariant
<1>1. Init => TypeOK /\ FlashInvariant
  BY UpgradeTypeInit, FlashInit
<1>2. TypeOK /\ FlashInvariant /\ [Next]_vars => (TypeOK /\ FlashInvariant)'
  BY UpgradeStep
<1> QED BY <1>1, <1>2, PTL DEF Spec

(* The slot that current_slot takes for the running one is the one the     *)
(* bootloader starts.                                                      *)
THEOREM FirmwareUpgradeBootloaderAgrees == Spec => []BootloaderAgrees
<1>1. TypeOK /\ FlashInvariant => BootloaderAgrees
  <2> SUFFICES ASSUME TypeOK, FlashInvariant, NEW d \in Devices
               PROVE  ActivePartition(flash[d]) = BootSlot(flash[d])
    BY DEF BootloaderAgrees
  <2>1. flash[d] \in FlashStates /\ Numbered(flash[d]) /\ CurrentSlot(flash[d]) # NoSlot
    BY DEF TypeOK, FlashInvariant, Numbered
  <2> QED BY <2>1, SlotsLemma, BootLemma
<1> QED BY <1>1, FirmwareUpgradeTypeOK, FirmwareUpgradeInvariant, PTL

(* The bootloader finds a complete firmware, whenever the power goes.      *)
THEOREM FirmwareUpgradeAlwaysBootable == Spec => []AlwaysBootable
<1>1. TypeOK /\ FlashInvariant => AlwaysBootable
  <2> SUFFICES ASSUME TypeOK, FlashInvariant, NEW d \in Devices
               PROVE  Running(d) \in {"old", "new"}
    BY DEF AlwaysBootable
  <2>1. flash[d] \in FlashStates /\ Numbered(flash[d]) /\ CurrentSlot(flash[d]) # NoSlot
    BY DEF TypeOK, FlashInvariant, Numbered
  <2>2. BootSlot(flash[d]) = CurrentSlot(flash[d]) /\ CurrentSlot(flash[d]) \in Slots
    BY <2>1, SlotsLemma, BootLemma
  <2>3. flash[d].image[CurrentSlot(flash[d])] # "partial"
    BY DEF FlashInvariant
  <2> QED BY <2>1, <2>2, <2>3 DEF Running, FlashStates, Images
<1> QED BY <1>1, FirmwareUpgradeTypeOK, FirmwareUpgradeInvariant, PTL

-----------------------------------------------------------------------------
(* The chain. *)

(* A device has one place in the chain.                                    *)
LEMMA Places ==
  /\ Len(Chain) \in Nat /\ Chain \in [1 .. Len(Chain) -> Devices]
  /\ \A d \in Devices : Position(d) \in 1 .. Len(Chain) /\ Chain[Position(d)] = d
  /\ \A i \in 1 .. Len(Chain) : Position(Chain[i]) = i
<1>1. Len(Chain) \in Nat /\ DOMAIN Chain = 1 .. Len(Chain) /\ Chain \in [1 .. Len(Chain) -> Devices]
  BY UpgradeAssumption, LenProperties
<1>2. ASSUME NEW i \in 1 .. Len(Chain) PROVE Position(Chain[i]) = i
  <2> DEFINE I == {j \in 1 .. Len(Chain) : Chain[j] = Chain[i]}
  <2>1. I = {i}
    BY <1>1, UpgradeAssumption DEF IsInjective
  <2>2. Min({i}) = i
    BY <1>1 DEF Min
  <2> QED BY <2>1, <2>2 DEF Position, SelectInSeq
<1>3. \A d \in Devices : \E i \in 1 .. Len(Chain) : Chain[i] = d
  BY <1>1 DEF Devices, ToSet
<1> QED BY <1>1, <1>2, <1>3

(* Neighbours, and what is below a device.                                 *)
LEMMA Neighbours ==
  ASSUME NEW d \in Devices \ {Head1}, NEW e \in Above(d)
  PROVE  /\ e \in Devices /\ e # d /\ Under(e) = {d} /\ Above(d) = {e}
         /\ d \in Downwards(d) /\ e \notin Downwards(d) /\ e \in Downwards(e)
         /\ \A x \in Devices : e \in Downwards(x) => d \in Downwards(x)
         /\ \A x \in Devices : d \in Downwards(x) /\ e \notin Downwards(x) => x = d
<1> DEFINE p == Position(d)
<1>1. p \in 1 .. Len(Chain) /\ Chain[p] = d /\ p # 1 /\ Len(Chain) \in Nat
  BY Places DEF Head1
<1>2. Above(d) = {Chain[p - 1]} /\ e = Chain[p - 1] /\ p - 1 \in 1 .. Len(Chain)
  BY <1>1 DEF Above
<1>3. e \in Devices /\ Position(e) = p - 1
  BY <1>2, Places
<1>4. Under(e) = {d}
  BY <1>1, <1>3 DEF Under
<1>5. \A x \in Devices : Position(x) \in Nat
  BY Places
<1>6. \A x \in Devices : Position(x) = p => x = d
  BY <1>1, Places
<1> HIDE DEF p
<1> QED BY <1>1, <1>2, <1>3, <1>4, <1>5, <1>6 DEF Downwards, p

(* The device below is linked or not.                                      *)
LEMMA BelowIs ==
  ASSUME NEW d \in Devices \ {Head1}, NEW e \in Above(d)
  PROVE  /\ dev[d].link = "up" => Below(e) = {d}
         /\ dev[d].link # "up" => Below(e) = {}
  BY Neighbours DEF Below

(* Only neighbours hand on to a device.                                    *)
LEMMA NotBelow ==
  ASSUME NEW d \in Devices \ {Head1}, NEW e \in Above(d), NEW x \in Devices \ {e}
  PROVE  d \notin Below(x)
<1>1. ASSUME d \in Under(x) PROVE FALSE
  <2>1. Position(x) \in 1 .. Len(Chain) /\ Position(x) # Len(Chain) /\ d = Chain[Position(x) + 1]
    BY <1>1, Places DEF Under
  <2>2. Position(d) = Position(x) + 1 /\ Position(d) \in 1 .. Len(Chain)
    BY <2>1, Places
  <2>3. e = Chain[Position(x)]
    BY <2>1, <2>2, Places DEF Above
  <2> QED BY <2>1, <2>3, Places
<1> QED BY <1>1 DEF Below

-----------------------------------------------------------------------------
(* One link of the chain. *)

(* Records that take the same part in the transfer.                        *)
Alike(A, B) ==
  /\ B.link = A.link /\ B.below = A.below /\ B.belowReady = A.belowReady /\ B.told = A.told
  /\ B.loop = A.loop \/ {A.loop, B.loop} \subseteq {"verify", "switch", "reset", "parked"}

LEMMA AlikePair ==
  ASSUME NEW E, NEW D, NEW q, NEW r, NEW E2, NEW D2,
         Pair(E, D, q, r), Alike(E, E2), Alike(D, D2)
  PROVE  Pair(E2, D2, q, r)
<1>1. Round(E, D, q, r) => Round(E2, D2, q, r)
  BY DEF Round, Alike
<1>2. Linked(E, D, q, r) => Linked(E2, D2, q, r)
  BY <1>1 DEF Linked, Alike, Entered
<1>3. Loose(D, q) => Loose(D2, q)
  BY DEF Loose, Alike
<1> QED BY <1>2, <1>3 DEF Pair, Alike

LEMMA AlikeAlone ==
  ASSUME NEW A, NEW B, NEW r, Alone(A, r), Alike(A, B)
  PROVE  Alone(B, r)
  BY DEF Alone, Alike

(* A link that is lost.                                                    *)
LEMMA LinkDown ==
  ASSUME NEW E, NEW D, NEW q \in Seq(Frames), NEW r, Linked(E, D, q, r)
  PROVE  Loose(D, q)
<1>1. CASE q = <<>>
  BY <1>1 DEF Loose, NoneOf
<1>2. CASE q # <<>>
  <2>1. Round(E, D, q, r) => Len(q) = 1 /\ D.belowReady
    BY <1>2 DEF Round
  <2>2. NoneOf(q, {"Enter"} \union ChunkKinds) => NoneOf(q, ChunkKinds)
    BY DEF NoneOf
  <2> QED BY <2>1, <2>2 DEF Linked, Loose
<1> QED BY <1>1, <1>2

(* A frame that is read.                                                   *)
LEMMA NoneOfTail ==
  ASSUME NEW q \in Seq(Frames), q # <<>>, NEW kinds
  PROVE  /\ Len(q) \in Nat \ {0} /\ Tail(q) \in Seq(Frames) /\ Len(Tail(q)) = Len(q) - 1
         /\ Head(q) = q[1] /\ Head(q) \in Frames
         /\ \A n \in 1 .. Len(q) - 1 : Tail(q)[n] = q[n + 1]
         /\ NoneOf(q, kinds) => Head(q).kind \notin kinds /\ NoneOf(Tail(q), kinds)
         /\ Len(q) = 1 => Tail(q) = <<>>
<1>1. /\ Len(q) \in Nat \ {0} /\ Tail(q) \in Seq(Frames) /\ Len(Tail(q)) = Len(q) - 1
      /\ Head(q) = q[1] /\ Head(q) \in Frames
      /\ \A n \in 1 .. Len(q) - 1 : Tail(q)[n] = q[n + 1]
  BY HeadTailProperties, LenProperties, EmptySeq
<1>2. NoneOf(q, kinds) => Head(q).kind \notin kinds /\ NoneOf(Tail(q), kinds)
  BY <1>1 DEF NoneOf
<1>3. Len(q) = 1 => Tail(q) = <<>>
  <2>1. \A s \in Seq(Frames) : Len(s) = 0 => s = <<>>
    BY EmptySeq
  <2> DEFINE t == Tail(q)
             l == Len(q)
  <2>2. t \in Seq(Frames) /\ Len(t) = l - 1
    BY <1>1
  <2> HIDE DEF t, l
  <2>3. l = 1 => Len(t) = 0
    BY <2>2
  <2>4. l = 1 => t = <<>>
    BY <2>1, <2>2, <2>3
  <2> QED BY <2>4 DEF t, l
<1> QED BY <1>1, <1>2, <1>3

(* A frame that is put on the link.                                        *)
LEMMA NoneOfAppend ==
  ASSUME NEW q \in Seq(Frames), NEW f \in Frames, NEW kinds, NoneOf(q, kinds), f.kind \notin kinds
  PROVE  NoneOf(Append(q, f), kinds)
  BY AppendProperties, LenProperties DEF NoneOf

(* The device above runs its loop and hands on a frame.                    *)
LEMMA HandsOn ==
  ASSUME NEW E, NEW D, NEW q \in Seq(Frames), NEW r, NEW f \in Frames, NEW E2,
         E.loop = "run", Linked(E, D, q, r), Alone(D, r), D.link = "up",
         \/ E2.loop = "panicked"
         \/ E2.loop = "run" /\ f.kind \in {"Prepare", "Cancel"}
         \/ E2.loop = "transfer" /\ E2.below /\ ~E2.belowReady /\ f.kind = "Enter"
  PROVE  Pair(E2, D, Append(q, f), r)
<1>1. /\ D.loop \in {"run", "panicked"} /\ r = 0
      /\ NoneOf(q, {"Enter"} \union ChunkKinds)
  BY DEF Linked, Entered
<1>2. CASE E2.loop = "panicked"
  BY <1>2 DEF Pair
<1>3. CASE E2.loop = "run" /\ f.kind \in {"Prepare", "Cancel"}
  <2>1. NoneOf(Append(q, f), {"Enter"} \union ChunkKinds)
    BY <1>1, <1>3, NoneOfAppend DEF ChunkKinds
  <2> QED BY <1>1, <1>3, <2>1 DEF Pair, Linked
<1>4. CASE E2.loop = "transfer" /\ E2.below /\ ~E2.belowReady /\ f.kind = "Enter"
  <2>1. NoneOf(q, ChunkKinds) /\ \A n \in 1 .. Len(q) : q[n].kind # "Enter"
    BY <1>1 DEF NoneOf
  <2>2. NoneOf(Append(q, f), ChunkKinds)
    BY <1>4, <2>1, NoneOfAppend DEF ChunkKinds
  <2>3. \A n \in 1 .. Len(Append(q, f)) : Append(q, f)[n].kind = "Enter" => n = Len(Append(q, f))
    BY <2>1, AppendProperties, LenProperties
  <2> QED BY <1>1, <1>4, <2>2, <2>3 DEF Pair, Linked, Entered
<1> QED BY <1>2, <1>3, <1>4

(* The device below runs its loop and reads a frame.                       *)
LEMMA TakesUp ==
  ASSUME NEW E, NEW D, NEW q \in Seq(Frames), NEW r, NEW D2,
         D.loop = "run", D.link = "up", q # <<>>, Pair(E, D, q, r), Alone(D, r),
         D2.link = "up", D2.told = D.told,
         \/ Head(q).kind \in {"Prepare", "Cancel"} /\ D2.loop = "run"
         \/ Head(q).kind = "Enter" /\ D2.loop \in {"transfer", "panicked"}
         \/ Head(q).kind \in ChunkKinds /\ D2.loop = "panicked"
  PROVE  Pair(E, D2, Tail(q), r)
<1> SUFFICES ASSUME E.loop # "panicked" PROVE Linked(E, D2, Tail(q), r)
  BY DEF Pair
<1>1. Linked(E, D, q, r) /\ ~D2.told /\ r = 0
  BY DEF Pair, Alone
<1>2. CASE E.loop = "run"
  <2>1. NoneOf(q, {"Enter"} \union ChunkKinds)
    BY <1>1, <1>2 DEF Linked, Entered
  <2>2. Head(q).kind \notin {"Enter"} \union ChunkKinds /\ NoneOf(Tail(q), {"Enter"} \union ChunkKinds)
    BY <2>1, NoneOfTail
  <2> QED BY <1>1, <1>2, <2>2 DEF Linked
<1>3. CASE E.loop # "run"
  <2>1. /\ E.loop \in Entered /\ E.below /\ ~E.belowReady /\ NoneOf(q, ChunkKinds)
        /\ \A n \in 1 .. Len(q) : q[n].kind = "Enter" => n = Len(q)
    BY <1>1, <1>3 DEF Linked
  <2>2. Head(q).kind \notin ChunkKinds /\ NoneOf(Tail(q), ChunkKinds)
    BY <2>1, NoneOfTail
  <2>3. Len(Tail(q)) = Len(q) - 1 /\ Len(q) \in Nat \ {0} /\ Head(q) = q[1]
        /\ \A n \in 1 .. Len(q) - 1 : Tail(q)[n] = q[n + 1]
    BY NoneOfTail
  <2>4. \A n \in 1 .. Len(Tail(q)) : Tail(q)[n].kind = "Enter" => n = Len(Tail(q))
    <3>1. \A n \in 1 .. Len(q) - 1 : n + 1 \in 1 .. Len(q) /\ Tail(q)[n] = q[n + 1]
      BY <2>3
    <3>2. \A n \in 1 .. Len(q) - 1 : q[n + 1].kind = "Enter" => n + 1 = Len(q)
      BY <2>1, <3>1
    <3> DEFINE t == Tail(q)
               l == Len(q)
    <3>3. l \in Nat \ {0} /\ Len(t) = l - 1
          /\ \A n \in 1 .. l - 1 : t[n].kind = "Enter" => n + 1 = l
      BY <2>3, <3>1, <3>2
    <3> HIDE DEF t, l
    <3>4. \A n \in 1 .. Len(t) : t[n].kind = "Enter" => n = Len(t)
      BY <3>3
    <3> QED BY <3>4 DEF t
  <2>5. Head(q).kind = "Enter" => Tail(q) = <<>>
    <3>1. 1 \in 1 .. Len(q)
      BY <2>3
    <3>2. Head(q).kind = "Enter" => Len(q) = 1
      BY <2>1, <2>3, <3>1
    <3> QED BY <3>2, NoneOfTail
  <2>6. CASE D2.loop = "transfer"
    <3>1. Head(q).kind = "Enter"
      BY <2>6
    <3> QED BY <1>1, <2>1, <2>5, <2>6, <3>1 DEF Linked, Round
  <2>7. CASE D2.loop # "transfer"
    BY <1>1, <2>1, <2>2, <2>4, <2>7 DEF Linked
  <2> QED BY <2>6, <2>7
<1> QED BY <1>2, <1>3

(* A device takes a chunk.                                                 *)
LEMMA ChunkRead ==
  ASSUME NEW E, NEW D, NEW q \in Seq(Frames), NEW r, NEW D2,
         D.loop = "transfer", q # <<>>, Pair(E, D, q, r),
         D2.link = D.link, ~D2.told, D2.loop \in {"transfer", "verify", "reset"}
  PROVE  Pair(E, D2, Tail(q), r)
<1> SUFFICES ASSUME E.loop # "panicked"
             PROVE  IF D2.link = "up" THEN Linked(E, D2, Tail(q), r) ELSE Loose(D2, Tail(q))
  BY DEF Pair
<1>0. NoneOf(<<>>, ChunkKinds)
  BY DEF NoneOf
<1>1. CASE D.link = "up"
  <2>1. Linked(E, D, q, r)
    BY <1>1 DEF Pair
  <2>2. E.loop \in Entered /\ E.below /\ Round(E, D, q, r)
    BY <2>1 DEF Linked
  <2>3. r = 0 /\ ~E.belowReady /\ Len(q) = 1
    BY <2>2 DEF Round
  <2>4. Tail(q) = <<>>
    BY <2>3, NoneOfTail
  <2> QED BY <1>0, <1>1, <2>2, <2>3, <2>4 DEF Linked, Round
<1>2. CASE D.link # "up"
  <2>1. NoneOf(q, ChunkKinds) \/ Len(q) = 1
    BY <1>2 DEF Pair, Loose
  <2>2. NoneOf(Tail(q), ChunkKinds)
    BY <1>0, <2>1, NoneOfTail
  <2> QED BY <1>2, <2>2 DEF Loose
<1> QED BY <1>1, <1>2

(* A device hands a chunk on.                                              *)
LEMMA ChunkSent ==
  ASSUME NEW E, NEW D, NEW q \in Seq(Frames), NEW r, NEW f \in Frames, NEW E2,
         E.loop = "transfer", E.belowReady, D.link = "up", Pair(E, D, q, r),
         E2.loop \in {"transfer", "verify", "reset"}, E2.below = E.below, E2.belowReady = ~E.below
  PROVE  Pair(E2, D, Append(q, f), r)
<1>1. Linked(E, D, q, r)
  BY DEF Pair
<1>2. E.below /\ D.loop = "transfer" /\ Round(E, D, q, r)
  BY <1>1 DEF Linked
<1>3. D.told /\ D.belowReady /\ r = 0 /\ q = <<>>
  BY <1>2 DEF Round
<1>4. Len(Append(q, f)) = 1
  BY <1>3
<1>5. E2.below /\ ~E2.belowReady
  BY <1>2
<1> QED BY <1>2, <1>3, <1>4, <1>5 DEF Pair, Linked, Round, Entered

(* A device hears that the one below is ready.                             *)
LEMMA ByteHeard ==
  ASSUME NEW E, NEW D, NEW q \in Seq(Frames), NEW r \in Nat, NEW E2,
         E.loop = "transfer", D.link = "up", Pair(E, D, q, r), r > 0,
         E2.loop = "transfer", E2.below = E.below, E2.belowReady
  PROVE  Pair(E2, D, q, 0)
<1>1. Linked(E, D, q, r)
  BY DEF Pair
<1>2. E.below /\ D.loop = "transfer" /\ Round(E, D, q, r)
  BY <1>1 DEF Linked
<1>3. D.told /\ D.belowReady /\ q = <<>>
  BY <1>2 DEF Round
<1> QED BY <1>2, <1>3 DEF Pair, Linked, Round, Entered

(* A device says that it is ready.                                         *)
LEMMA ByteSaid ==
  ASSUME NEW E, NEW D, NEW q \in Seq(Frames), NEW r, NEW D2,
         D.loop = "transfer", Pair(E, D, q, r), ~D.told,
         D2.loop = "transfer", D2.link = D.link, D2.belowReady, D2.told
  PROVE  Pair(E, D2, q, r + 1)
<1>1. CASE D.link = "up" /\ E.loop # "panicked"
  <2>1. E.loop \in Entered /\ E.below /\ Round(E, D, q, r)
    BY <1>1 DEF Pair, Linked
  <2>2. r = 0 /\ ~E.belowReady /\ q = <<>>
    BY <2>1 DEF Round
  <2> QED BY <1>1, <2>1, <2>2 DEF Pair, Linked, Round
<1>2. CASE D.link # "up"
  BY <1>2 DEF Pair, Loose
<1> QED BY <1>1, <1>2 DEF Pair

(* The same part above the link.                                           *)
LEMMA AlikeAbove ==
  ASSUME NEW E, NEW D, NEW q, NEW r, NEW E2, Pair(E, D, q, r),
         E2.loop = E.loop, E2.below = E.below, E2.belowReady = E.belowReady
  PROVE  Pair(E2, D, q, r)
<1>1. Round(E, D, q, r) => Round(E2, D, q, r)
  BY DEF Round
<1> QED BY <1>1 DEF Pair, Linked

(* Two loops that run are as good as each other, above a link.             *)
LEMMA RunsAbove ==
  ASSUME NEW E, NEW D, NEW q, NEW r, NEW E2, Pair(E, D, q, r), E.loop = "run", E2.loop = "run"
  PROVE  Pair(E2, D, q, r)
  BY DEF Pair, Linked, Entered

(* A device that said it is ready goes on to be.                           *)
LEMMA SaidBefore ==
  ASSUME NEW E, NEW D, NEW q, NEW r, NEW D2, Pair(E, D, q, r), D.loop = "transfer", D.told,
         D2.loop = "transfer", D2.link = D.link, D2.told, D2.belowReady
  PROVE  Pair(E, D2, q, r)
<1>1. Round(E, D, q, r) => Round(E, D2, q, r)
  BY DEF Round
<1>2. Loose(D, q) => Loose(D2, q)
  BY DEF Loose
<1> QED BY <1>1, <1>2 DEF Pair, Linked

(* The device below gives up before it said it is ready.                   *)
LEMMA GivesUp ==
  ASSUME NEW E, NEW D, NEW q, NEW r, NEW D2, Pair(E, D, q, r),
         D.loop = "transfer", ~D.belowReady, D2.loop = "panicked", D2.link = D.link
  PROVE  Pair(E, D2, q, r)
<1>1. NoneOf(<<>>, ChunkKinds)
  BY DEF NoneOf
<1>2. Round(E, D, q, r) => r = 0 /\ ~E.belowReady /\ q = <<>>
  BY DEF Round
<1>3. Linked(E, D, q, r) => Linked(E, D2, q, r)
  BY <1>1, <1>2 DEF Linked
<1>4. Loose(D, q) => Loose(D2, q)
  BY DEF Loose
<1> QED BY <1>3, <1>4 DEF Pair

(* What a device is like that has just got power, or a link.               *)
LEMMA FreshFields ==
  /\ Idle.link = "off" /\ Idle.loop = "run" /\ ~Idle.told
  /\ Booted.link = "on" /\ Booted.loop = "run" /\ ~Booted.told
  /\ [Booted EXCEPT !.link = "up"].link = "up" /\ [Booted EXCEPT !.link = "up"].loop = "run"
  /\ ~[Booted EXCEPT !.link = "up"].told
  BY DEF Booted, Idle

(* The invariant of one link.                                              *)
LinkOK(d, e) == Pair(dev[e], dev[d], down[d], readyByte[d])

(* No device is below itself.                                              *)
LEMMA NotBelowItself ==
  ASSUME NEW d \in Devices
  PROVE  d \notin Below(d)
<1>1. ASSUME d \in Under(d) PROVE FALSE
  <2>1. Position(d) \in 1 .. Len(Chain) /\ Position(d) # Len(Chain) /\ d = Chain[Position(d) + 1]
    BY <1>1, Places DEF Under
  <2> QED BY <2>1, Places
<1> QED BY <1>1 DEF Below

(* A frame is handed on, to the device below.                              *)
LEMMA PutBelow ==
  ASSUME TypeOK, NEW x \in Devices, NEW to, to \in {{}, Below(x)}, NEW f \in Frames,
         down' = Put([down EXCEPT ![x] = Tail(@)], to, f)
  PROVE  /\ down'[x] = Tail(down[x])
         /\ \A d \in Devices \ {x} : down'[d] = IF d \in to THEN Append(down[d], f) ELSE down[d]
  BY NotBelowItself DEF TypeOK, Put

(* Steps in which devices go on in their parts, or panic.                  *)
LEMMA AlikeStep ==
  ASSUME TypeOK, LinkInvariant, UNCHANGED <<down, readyByte>>,
         \A d \in Devices : \/ Alike(dev[d], dev'[d])
                            \/ /\ dev[d].loop = "transfer" /\ ~dev[d].belowReady
                               /\ dev'[d].loop = "panicked" /\ dev'[d].link = dev[d].link
  PROVE  LinkInvariant'
<1>1. ASSUME NEW d \in Devices PROVE Alone(dev'[d], readyByte'[d])
  <2>1. Alone(dev[d], readyByte[d])
    BY DEF LinkInvariant
  <2>2. CASE Alike(dev[d], dev'[d])
    BY <2>1, <2>2, AlikeAlone
  <2>3. CASE ~Alike(dev[d], dev'[d])
    <3>1. dev[d].loop = "transfer" /\ dev'[d].loop = "panicked" /\ dev'[d].link = dev[d].link
      BY <2>3
    <3> QED BY <2>1, <3>1 DEF Alone
  <2> QED BY <2>2, <2>3
<1>2. ASSUME NEW d \in Devices \ {Head1}, NEW e \in Above(d)
      PROVE  Pair(dev'[e], dev'[d], down'[d], readyByte'[d])
  <2>1. Pair(dev[e], dev[d], down[d], readyByte[d]) /\ e \in Devices
    BY Neighbours DEF LinkInvariant
  <2>2. CASE Alike(dev[e], dev'[e]) /\ Alike(dev[d], dev'[d])
    BY <2>1, <2>2, AlikePair
  <2>3. CASE ~Alike(dev[e], dev'[e])
    <3>1. dev'[e].loop = "panicked"
      BY <2>1, <2>3
    <3> QED BY <3>1 DEF Pair
  <2>4. CASE Alike(dev[e], dev'[e]) /\ ~Alike(dev[d], dev'[d])
    <3>1. /\ dev[d].loop = "transfer" /\ ~dev[d].belowReady
          /\ dev'[d].loop = "panicked" /\ dev'[d].link = dev[d].link
      BY <2>4
    <3>2. Pair(dev[e], dev'[d], down[d], readyByte[d])
      BY <2>1, <3>1, GivesUp
    <3>3. Alike(dev'[d], dev'[d])
      BY DEF Alike
    <3> QED BY <2>4, <3>2, <3>3, AlikePair
  <2> QED BY <2>2, <2>3, <2>4
<1> QED BY <1>1, <1>2 DEF LinkInvariant

(* The coordinator has only the first link.                                *)
LEMMA CoordinatorLinks ==
  ASSUME TypeOK, LinkInvariant,
         \/ CoordinatorStep \/ BeginUpgrade \/ CancelProtocol \/ SendCancelAll
         \/ WriteChunk("garbled")
  PROVE  LinkInvariant'
<1>1. dev' = dev /\ TypeOK'
  BY CoordinatorType
<1>2. ASSUME NEW f, down' = ToAll(f) PROVE \A d \in Devices \ {Head1} : down'[d] = down[d]
  BY <1>2 DEF ToAll, Put, Port
<1>3. \A d \in Devices \ {Head1} : down'[d] = down[d]
  <2>1. UNCHANGED down \/ \E f : down' = ToAll(f)
    BY DEF CoordinatorStep, BeginUpgrade, CancelProtocol, SendCancelAll,
           WriteChunk, PollProtocol, RecvAck, Disconnected, Connected,
           EnterUpgradeMode, ReadReady, ReadTimesOut
  <2> QED BY <1>2, <2>1
<1>4. /\ \A d \in Devices \ {Head1} : readyByte'[d] = readyByte[d]
      /\ readyByte'[Head1] = readyByte[Head1] \/ readyByte[Head1] > 0
  <2>1. CASE ReadReady
    <3>1. readyByte[Head1] > 0 /\ readyByte' = [readyByte EXCEPT ![Head1] = @ - 1]
      BY <2>1 DEF ReadReady
    <3> QED BY <3>1 DEF TypeOK
  <2>2. CASE ~ReadReady
    <3>1. UNCHANGED readyByte
      BY <2>2 DEF CoordinatorStep, BeginUpgrade, CancelProtocol, SendCancelAll,
           WriteChunk, PollProtocol, RecvAck, Disconnected, Connected,
           EnterUpgradeMode, ReadTimesOut, deviceVars
    <3> QED BY <3>1
  <2> QED BY <2>1, <2>2
<1>5. ASSUME NEW d \in Devices PROVE Alone(dev'[d], readyByte'[d])
  <2>1. Alone(dev[d], readyByte[d]) /\ readyByte[d] \in Nat
    BY DEF LinkInvariant, TypeOK
  <2>2. readyByte'[d] = readyByte[d] \/ readyByte[d] > 0
    BY <1>4
  <2> QED BY <1>1, <2>1, <2>2 DEF Alone
<1>6. ASSUME NEW d \in Devices \ {Head1}, NEW e \in Above(d)
      PROVE  Pair(dev'[e], dev'[d], down'[d], readyByte'[d])
  <2>1. Pair(dev[e], dev[d], down[d], readyByte[d])
    BY DEF LinkInvariant
  <2> QED BY <1>1, <1>3, <1>4, <2>1
<1> QED BY <1>5, <1>6 DEF LinkInvariant

(* What a device does with its screen, and the end of a transfer.          *)
LEMMA ModeLinks ==
  ASSUME TypeOK, LinkInvariant, NEW x \in Devices,
         PollMode(x) \/ Confirm(x) \/ Verify(x) \/ Switch(x)
  PROVE  LinkInvariant'
<1>1. \A d \in Devices : dev[d] \in DeviceStates
  BY DEF TypeOK
<1>2. \A d \in Devices : Alike(dev[d], dev[d])
  BY DEF Alike
<1>3. CASE Confirm(x)
  <2>1. dev' = [dev EXCEPT ![x] = [dev[x] EXCEPT !.mode = "erase"]]
    BY <1>3 DEF Confirm
  <2>2. Alike(dev[x], [dev[x] EXCEPT !.mode = "erase"])
    BY <1>1 DEF Alike, DeviceStates
  <2>3. \A d \in Devices : Alike(dev[d], dev'[d])
    BY <1>2, <2>1, <2>2 DEF TypeOK
  <2> QED BY <1>3, <2>3, AlikeStep DEF Confirm
<1>4. CASE Verify(x) \/ Switch(x)
  <2>1. PICK l \in {"switch", "parked", "reset"} :
          dev' = [dev EXCEPT ![x] = [dev[x] EXCEPT !.loop = l]]
    BY <1>4 DEF Verify, Switch
  <2>2. dev[x].loop \in {"verify", "switch"}
    BY <1>4 DEF Verify, Switch
  <2>3. Alike(dev[x], [dev[x] EXCEPT !.loop = l])
    BY <1>1, <2>2 DEF Alike, DeviceStates
  <2>4. \A d \in Devices : Alike(dev[d], dev'[d])
    BY <1>2, <2>1, <2>3 DEF TypeOK
  <2> QED BY <1>4, <2>4, AlikeStep DEF Verify, Switch
<1>5. CASE PollMode(x)
  <2> DEFINE new == [dev[x] EXCEPT !.mode = IF @ = "erase" THEN "ready" ELSE "forward"]
  <2>1. Alike(dev[x], new) /\ dev[x].loop = "run" /\ dev[x].link = "up"
    BY <1>1, <1>5 DEF Alike, DeviceStates, PollMode, Listening
  <2>2. \A d \in Devices : dev'[d] = IF d \in Above(x) /\ dev[d].loop = "transfer" THEN Panics(d)
                                     ELSE IF d = x THEN new ELSE dev[d]
    BY <1>5 DEF PollMode, TypeOK
  <2> HIDE DEF new
  <2>3. ASSUME NEW d \in Above(x), dev[d].loop = "transfer", d \in Devices
        PROVE  ~dev[d].belowReady /\ Panics(d).loop = "panicked" /\ Panics(d).link = dev[d].link
    <3>1. x # Head1
      <4>1. Position(Head1) = 1
        BY Places DEF Head1, Above
      <4> QED BY <2>3, <4>1 DEF Above
    <3>2. Linked(dev[d], dev[x], down[x], readyByte[x])
      BY <2>1, <2>3, <3>1 DEF LinkInvariant, Pair
    <3>3. ~dev[d].belowReady
      BY <2>1, <2>3, <3>2 DEF Linked
    <3> QED BY <1>1, <3>3 DEF Panics, DeviceStates
  <2>4. UNCHANGED <<down, readyByte>>
    BY <1>5 DEF PollMode
  <2> QED BY <1>2, <2>1, <2>2, <2>3, <2>4, AlikeStep
<1> QED BY <1>3, <1>4, <1>5

(* A step of a device touches the links above and below it.                *)
LEMMA LinkStep ==
  ASSUME LinkInvariant, NEW x \in Devices,
         \A y \in Devices \ {x} : dev'[y] = dev[y] /\ (readyByte'[y] = readyByte[y] \/ readyByte'[y] = 0),
         Alone(dev'[x], readyByte'[x]),
         \A d \in Devices \ {Head1} : x \in Above(d) =>
           Pair(dev'[x], dev[d], down'[d], readyByte'[d]),
         x # Head1 => \A e \in Above(x) : Pair(dev[e], dev'[x], down'[x], readyByte'[x]),
         \A d \in Devices \ {Head1, x} : x \notin Above(d) =>
           down'[d] = down[d] /\ readyByte'[d] = readyByte[d]
  PROVE  LinkInvariant'
<1>1. ASSUME NEW d \in Devices PROVE Alone(dev'[d], readyByte'[d])
  <2>1. Alone(dev[d], readyByte[d])
    BY DEF LinkInvariant
  <2> QED BY <2>1 DEF Alone
<1>2. ASSUME NEW d \in Devices \ {Head1}, NEW e \in Above(d)
      PROVE  Pair(dev'[e], dev'[d], down'[d], readyByte'[d])
  <2>1. e \in Devices /\ e # d /\ Above(d) = {e}
    BY Neighbours
  <2>2. Pair(dev[e], dev[d], down[d], readyByte[d])
    BY DEF LinkInvariant
  <2>3. CASE e = x
    BY <2>1, <2>3
  <2>4. CASE d = x
    BY <2>1, <2>4
  <2>5. CASE e # x /\ d # x
    BY <2>1, <2>2, <2>5
  <2> QED BY <2>3, <2>4, <2>5
<1> QED BY <1>1, <1>2 DEF LinkInvariant

(* The loop's handling of a frame.                                         *)
LEMMA RecvLinks ==
  ASSUME TypeOK, LinkInvariant, NEW x \in Devices, Recv(x)
  PROVE  LinkInvariant'
<1> DEFINE f == Head(down[x])
<1>1. /\ dev[x].loop = "run" /\ dev[x].link = "up" /\ down[x] # <<>>
      /\ dev[x] \in DeviceStates /\ down[x] \in Seq(Frames) /\ readyByte' = readyByte
  BY DEF Recv, Listening, TypeOK
<1>2. f \in Frames
  BY <1>1, HeadType
<1>3. /\ down'[x] = Tail(down[x])
      /\ \A d \in Devices \ {x} : down'[d] = IF d \in Below(x) THEN Append(down[d], f) ELSE down[d]
  <2>1. down' = Put([down EXCEPT ![x] = Tail(@)], Below(x), f)
    BY DEF Recv
  <2> HIDE DEF f
  <2> QED BY <1>2, <2>1, PutBelow
<1>4. PICK r : /\ dev' = [dev EXCEPT ![x] = r]
               /\ \/ f.kind = "Prepare" /\ r = Warned(x, f.upgrade)
                  \/ f.kind = "Cancel" /\ r = [dev[x] EXCEPT !.mode = None]
                  \/ f.kind = "Enter" /\ r = Enters(x)
                  \/ f.kind \in ChunkKinds /\ r = Panics(x)
  <2>1. f.kind \in {"Prepare", "Cancel", "Enter", "chunk", "garbled"}
    BY <1>2 DEF Frames
  <2> QED BY <2>1 DEF Recv, ChunkKinds
<1>5. dev'[x] = r /\ \A y \in Devices \ {x} : dev'[y] = dev[y]
  BY <1>4 DEF TypeOK
<1> HIDE DEF f
<1>6. /\ r.link = "up" /\ r.told = dev[x].told
      /\ \/ f.kind \in {"Prepare", "Cancel"} /\ r.loop = "run"
         \/ f.kind = "Enter" /\ r.loop = "panicked"
         \/ f.kind = "Enter" /\ r.loop = "transfer" /\ (Below(x) # {} => r.below /\ ~r.belowReady)
         \/ f.kind \in ChunkKinds /\ r.loop = "panicked"
  <2>1. Panics(x).loop = "panicked" /\ Panics(x).link = "up" /\ Panics(x).told = dev[x].told
    BY <1>1 DEF Panics, DeviceStates
  <2>2. CASE f.kind = "Prepare" /\ r = Warned(x, f.upgrade)
    BY <1>1, <2>2 DEF Warned, DeviceStates
  <2>3. CASE f.kind = "Cancel" /\ r = [dev[x] EXCEPT !.mode = None]
    BY <1>1, <2>3 DEF DeviceStates
  <2>4. CASE f.kind = "Enter" /\ r = Enters(x)
    <3> DEFINE new == [dev[x] EXCEPT !.loop = "transfer", !.below = Below(x) # {},
                                     !.belowReady = Below(x) = {}]
    <3>1. r = new \/ r = Panics(x)
      BY <2>4 DEF Enters
    <3>2. /\ new.loop = "transfer" /\ (Below(x) # {} => new.below /\ ~new.belowReady)
          /\ new.link = "up" /\ new.told = dev[x].told
      BY <1>1 DEF DeviceStates
    <3> HIDE DEF new
    <3>3. CASE r = new
      BY <2>4, <3>2, <3>3
    <3>4. CASE r = Panics(x)
      BY <2>1, <2>4, <3>4
    <3> QED BY <3>1, <3>3, <3>4
  <2>5. CASE f.kind \in ChunkKinds /\ r = Panics(x)
    BY <2>1, <2>5
  <2> QED BY <1>4, <2>2, <2>3, <2>4, <2>5
<1>7. Alone(dev[x], readyByte[x])
  BY DEF LinkInvariant
<1>8. Alone(r, readyByte[x])
  BY <1>1, <1>6, <1>7 DEF Alone
<1>9. ASSUME NEW d \in Devices \ {Head1}, x \in Above(d)
      PROVE  Pair(r, dev[d], down'[d], readyByte[d])
  <2>1. Pair(dev[x], dev[d], down[d], readyByte[d]) /\ Alone(dev[d], readyByte[d]) /\ d # x
    BY <1>9, Neighbours DEF LinkInvariant
  <2>2. CASE dev[d].link = "up"
    <3>1. Below(x) = {d}
      BY <1>9, <2>2, BelowIs
    <3>2. down'[d] = Append(down[d], f) /\ down[d] \in Seq(Frames)
      BY <1>3, <2>1, <3>1 DEF TypeOK
    <3>3. Linked(dev[x], dev[d], down[d], readyByte[d])
      BY <1>1, <2>1, <2>2 DEF Pair
    <3>4. \/ r.loop = "panicked"
          \/ r.loop = "run" /\ f.kind \in {"Prepare", "Cancel"}
          \/ r.loop = "transfer" /\ r.below /\ ~r.belowReady /\ f.kind = "Enter"
      BY <1>6, <3>1
    <3> QED BY <1>1, <1>2, <2>1, <2>2, <3>2, <3>3, <3>4, HandsOn
  <2>3. CASE dev[d].link # "up"
    <3>1. down'[d] = down[d]
      BY <1>3, <1>9, <2>1, <2>3, BelowIs
    <3> QED BY <1>1, <2>1, <2>3, <3>1 DEF Pair
  <2> QED BY <2>2, <2>3
<1>10. ASSUME x # Head1, NEW e \in Above(x)
       PROVE  Pair(dev[e], r, down'[x], readyByte[x])
  <2>1. Pair(dev[e], dev[x], down[x], readyByte[x])
    BY <1>10 DEF LinkInvariant
  <2>2. \/ Head(down[x]).kind \in {"Prepare", "Cancel"} /\ r.loop = "run"
        \/ Head(down[x]).kind = "Enter" /\ r.loop \in {"transfer", "panicked"}
        \/ Head(down[x]).kind \in ChunkKinds /\ r.loop = "panicked"
    BY <1>6 DEF f
  <2> QED BY <1>1, <1>3, <1>6, <1>7, <2>1, <2>2, TakesUp
<1>11. ASSUME NEW d \in Devices \ {Head1, x}, x \notin Above(d)
       PROVE  down'[d] = down[d]
  <2>1. PICK e : e \in Above(d)
    BY <1>11, Places DEF Above, Head1
  <2>2. d \notin Below(x)
    BY <1>11, <2>1, NotBelow
  <2> QED BY <1>3, <1>11, <2>2
<1> QED BY <1>1, <1>5, <1>8, <1>9, <1>10, <1>11, LinkStep

(* A chunk is read and handed on.                                          *)
LEMMA ChunkLinks ==
  ASSUME TypeOK, LinkInvariant, NEW x \in Devices, ReadChunk(x)
  PROVE  LinkInvariant'
<1> DEFINE f == Head(down[x])
           to == IF dev[x].below THEN Below(x) ELSE {}
           r == dev'[x]
<1>1. /\ dev[x].loop = "transfer" /\ dev[x].belowReady /\ down[x] # <<>>
      /\ dev[x] \in DeviceStates /\ down[x] \in Seq(Frames) /\ readyByte' = readyByte
  BY DEF ReadChunk, Takes, TypeOK
<1>2. f \in Frames
  BY <1>1, HeadType
<1>3. /\ down'[x] = Tail(down[x])
      /\ \A d \in Devices \ {x} : down'[d] = IF d \in to THEN Append(down[d], f) ELSE down[d]
  <2>1. down' = Put([down EXCEPT ![x] = Tail(@)], to, f) /\ to \in {{}, Below(x)}
    BY DEF ReadChunk
  <2> HIDE DEF f, to
  <2> QED BY <1>2, <2>1, PutBelow
<1>4. /\ r.link = dev[x].link /\ r.below = dev[x].below /\ r.belowReady = ~dev[x].below
      /\ ~r.told /\ r.loop \in {"transfer", "verify", "reset"}
      /\ \A y \in Devices \ {x} : dev'[y] = dev[y]
  <2> DEFINE count == dev[x].count + 1
             garbled == dev[x].garbled \/ f.kind # "chunk"
             loop == IF count < Chunks THEN "transfer"
                     ELSE IF Upgrading(x) THEN "verify" ELSE "reset"
             ready == ~dev[x].below
             new == [dev[x] EXCEPT !.count = count, !.garbled = garbled, !.belowReady = ready,
                                   !.told = FALSE, !.loop = loop]
  <2>1. dev' = [dev EXCEPT ![x] = new]
    BY DEF ReadChunk
  <2>2. loop \in {"transfer", "verify", "reset"}
    OBVIOUS
  <2>3. /\ new.link = dev[x].link /\ new.below = dev[x].below /\ new.belowReady = ready
        /\ ~new.told /\ new.loop = loop
    <3> HIDE DEF count, garbled, loop, ready
    <3> QED BY <1>1 DEF DeviceStates
  <2> HIDE DEF new, loop
  <2> QED BY <2>1, <2>2, <2>3 DEF TypeOK
<1> HIDE DEF f, to, r
<1>5. Alone(r, readyByte[x])
  <2>1. Alone(dev[x], readyByte[x])
    BY DEF LinkInvariant
  <2> QED BY <1>1, <1>4, <2>1 DEF Alone
<1>6. ASSUME NEW d \in Devices \ {Head1}, x \in Above(d)
      PROVE  Pair(r, dev[d], down'[d], readyByte[d])
  <2>1. Pair(dev[x], dev[d], down[d], readyByte[d]) /\ d # x /\ down[d] \in Seq(Frames)
    BY <1>6, Neighbours DEF LinkInvariant, TypeOK
  <2>2. CASE dev[d].link = "up"
    <3>1. Below(x) = {d}
      BY <1>6, <2>2, BelowIs
    <3>2. dev[x].below
      BY <1>1, <2>1, <2>2 DEF Pair, Linked
    <3>3. down'[d] = Append(down[d], f)
      BY <1>3, <2>1, <3>1, <3>2 DEF to
    <3> QED BY <1>1, <1>2, <1>4, <2>1, <2>2, <3>3, ChunkSent
  <2>3. CASE dev[d].link # "up"
    <3>1. down'[d] = down[d]
      BY <1>3, <1>6, <2>1, <2>3, BelowIs DEF to
    <3> QED BY <1>1, <2>1, <2>3, <3>1 DEF Pair
  <2> QED BY <2>2, <2>3
<1>7. ASSUME x # Head1, NEW e \in Above(x)
      PROVE  Pair(dev[e], r, down'[x], readyByte[x])
  <2>1. Pair(dev[e], dev[x], down[x], readyByte[x])
    BY <1>7 DEF LinkInvariant
  <2> QED BY <1>1, <1>3, <1>4, <2>1, ChunkRead
<1>8. ASSUME NEW d \in Devices \ {Head1, x}, x \notin Above(d)
      PROVE  down'[d] = down[d]
  <2>1. PICK e : e \in Above(d)
    BY <1>8, Places DEF Above, Head1
  <2>2. d \notin to
    BY <1>8, <2>1, NotBelow DEF to
  <2> QED BY <1>3, <1>8, <2>2
<1> QED BY <1>1, <1>4, <1>5, <1>6, <1>7, <1>8, LinkStep DEF r

(* Ready bytes are heard and said.                                         *)
LEMMA SignalLinks ==
  ASSUME TypeOK, LinkInvariant, NEW x \in Devices, Signal(x)
  PROVE  LinkInvariant'
<1> DEFINE r == dev'[x]
<1>1. /\ dev[x].loop = "transfer" /\ down' = down /\ dev[x] \in DeviceStates
      /\ \A d \in Devices : readyByte[d] \in Nat
  BY DEF Signal, TypeOK
<1>2. /\ r.link = dev[x].link /\ r.below = dev[x].below /\ r.loop = "transfer"
      /\ r.belowReady = Ready(x) /\ r.told = (dev[x].told \/ Ready(x))
      /\ \A y \in Devices \ {x} : dev'[y] = dev[y]
  <2> DEFINE ready == Ready(x)
             told == dev[x].told \/ Ready(x)
             new == [dev[x] EXCEPT !.belowReady = ready, !.told = told]
  <2>1. dev' = [dev EXCEPT ![x] = new]
    BY DEF Signal
  <2>2. /\ new.link = dev[x].link /\ new.below = dev[x].below /\ new.loop = dev[x].loop
        /\ new.belowReady = ready /\ new.told = told
    <3> HIDE DEF ready, told
    <3> QED BY <1>1 DEF DeviceStates
  <2> HIDE DEF new
  <2> QED BY <1>1, <2>1, <2>2 DEF TypeOK
<1>3. x \notin Heard(x) /\ \A d \in Devices : d \in Heard(x) => readyByte[d] > 0 /\ d \in Below(x)
  BY NotBelowItself DEF Heard
<1>4. /\ \A d \in Devices \ {x} : readyByte'[d] = IF d \in Heard(x) THEN 0 ELSE readyByte[d]
      /\ readyByte'[x] = IF Says(x) THEN readyByte[x] + 1 ELSE readyByte[x]
  BY <1>3 DEF Signal
<1> HIDE DEF r
<1>5. Ready(x)
  BY DEF Signal, Ready, Says
<1>6. Alone(r, readyByte'[x])
  <2>1. Alone(dev[x], readyByte[x])
    BY DEF LinkInvariant
  <2> QED BY <1>1, <1>2, <2>1 DEF Alone
<1>7. ASSUME NEW d \in Devices \ {Head1}, x \in Above(d)
      PROVE  Pair(r, dev[d], down[d], readyByte'[d])
  <2>1. Pair(dev[x], dev[d], down[d], readyByte[d]) /\ d # x /\ down[d] \in Seq(Frames)
    BY <1>7, Neighbours DEF LinkInvariant, TypeOK
  <2>2. CASE d \in Heard(x)
    <3>1. readyByte'[d] = 0 /\ readyByte[d] > 0 /\ dev[d].link = "up"
      BY <1>4, <2>1, <2>2 DEF Heard, Below
    <3> QED BY <1>1, <1>2, <1>5, <2>1, <3>1, ByteHeard
  <2>3. CASE d \notin Heard(x) /\ dev[x].belowReady
    <3>1. readyByte'[d] = readyByte[d]
      BY <1>4, <2>1, <2>3
    <3>2. r.belowReady = dev[x].belowReady
      BY <1>2, <1>5, <1>1, <2>3, Zenon DEF Ready
    <3> QED BY <1>1, <1>2, <2>1, <3>1, <3>2, AlikeAbove
  <2>4. CASE d \notin Heard(x) /\ ~dev[x].belowReady
    <3>1. Heard(x) # {}
      BY <1>5, <2>4 DEF Ready
    <3>2. Below(x) \subseteq {d}
      BY <1>7, BelowIs
    <3> QED BY <2>4, <3>1, <3>2 DEF Heard
  <2> QED BY <2>2, <2>3, <2>4
<1>8. ASSUME x # Head1, NEW e \in Above(x)
      PROVE  Pair(dev[e], r, down[x], readyByte'[x])
  <2>1. Pair(dev[e], dev[x], down[x], readyByte[x]) /\ down[x] \in Seq(Frames)
    BY <1>8 DEF LinkInvariant, TypeOK
  <2>2. CASE dev[x].told
    <3>1. readyByte'[x] = readyByte[x]
      BY <1>4, <2>2 DEF Says
    <3> QED BY <1>1, <1>2, <1>5, <2>1, <2>2, <3>1, SaidBefore
  <2>3. CASE ~dev[x].told
    <3>1. readyByte'[x] = readyByte[x] + 1
      BY <1>4, <1>5, <2>3 DEF Says
    <3> QED BY <1>1, <1>2, <1>5, <2>1, <2>3, <3>1, ByteSaid
  <2> QED BY <2>2, <2>3
<1>9. ASSUME NEW d \in Devices \ {Head1, x}, x \notin Above(d)
      PROVE  readyByte'[d] = readyByte[d]
  <2>1. PICK e : e \in Above(d)
    BY <1>9, Places DEF Above, Head1
  <2>2. d \notin Heard(x)
    BY <1>9, <2>1, NotBelow DEF Heard
  <2> QED BY <1>4, <1>9, <2>2
<1> QED BY <1>1, <1>2, <1>4, <1>6, <1>7, <1>8, <1>9, LinkStep DEF r

(* A device that resets loses what is around it, and its links.            *)
LEMMA ResetLinks ==
  ASSUME TypeOK, LinkInvariant, NEW x \in Devices, Reset(x)
  PROVE  LinkInvariant'
<1>0. \A d \in Devices : dev[d] \in DeviceStates /\ down[d] \in Seq(Frames)
  BY DEF TypeOK
<1>1. /\ dev'[x] = Booted /\ down'[x] = <<>> /\ readyByte'[x] = 0 /\ dev[x].loop = "reset"
      /\ \A d \in Devices \ {x} :
           /\ down'[d] = down[d] /\ readyByte'[d] = readyByte[d]
           /\ dev'[d] = IF d \in Downwards(x) /\ dev[d].link = "up"
                          THEN [dev[d] EXCEPT !.link = "on"] ELSE dev[d]
  BY DEF Reset, TypeOK
<1>2. ASSUME NEW d \in Devices
      PROVE  /\ [dev[d] EXCEPT !.link = "on"].link = "on"
             /\ [dev[d] EXCEPT !.link = "on"].loop = dev[d].loop
             /\ [dev[d] EXCEPT !.link = "on"].below = dev[d].below
             /\ [dev[d] EXCEPT !.link = "on"].belowReady = dev[d].belowReady
             /\ [dev[d] EXCEPT !.link = "on"].told = dev[d].told
  BY <1>0 DEF DeviceStates
<1>3. ASSUME NEW d \in Devices PROVE Alone(dev'[d], readyByte'[d])
  <2>1. Alone(dev[d], readyByte[d])
    BY DEF LinkInvariant
  <2>2. CASE d = x
    BY <1>1, <2>2, FreshFields DEF Alone
  <2>3. CASE d # x
    BY <1>1, <1>2, <2>1, <2>3 DEF Alone
  <2> QED BY <2>2, <2>3
<1>4. ASSUME NEW d \in Devices \ {Head1}, NEW e \in Above(d)
      PROVE  Pair(dev'[e], dev'[d], down'[d], readyByte'[d])
  <2>1. /\ e \in Devices /\ e # d /\ d \in Downwards(d)
        /\ e \in Downwards(x) => d \in Downwards(x)
        /\ d \in Downwards(x) /\ e \notin Downwards(x) => x = d
        /\ e \in Downwards(e)
    BY Neighbours
  <2>2. Pair(dev[e], dev[d], down[d], readyByte[d])
    BY DEF LinkInvariant
  <2>3. CASE d = x
    <3>1. dev'[d].link # "up" /\ NoneOf(down'[d], ChunkKinds)
      BY <1>1, <2>3, FreshFields DEF NoneOf
    <3> QED BY <3>1 DEF Pair, Loose
  <2>4. CASE d # x /\ d \notin Downwards(x)
    BY <1>1, <2>1, <2>2, <2>4
  <2>5. CASE d # x /\ d \in Downwards(x)
    <3>1. /\ dev'[d].link # "up" /\ down'[d] = down[d]
          /\ dev'[d].loop = dev[d].loop /\ dev'[d].belowReady = dev[d].belowReady
      <4>1. CASE dev[d].link = "up"
        <5>1. dev'[d] = [dev[d] EXCEPT !.link = "on"]
          BY <1>1, <2>5, <4>1
        <5> DEFINE new == [dev[d] EXCEPT !.link = "on"]
        <5>2. /\ new.link = "on" /\ new.loop = dev[d].loop
              /\ new.belowReady = dev[d].belowReady
          BY <1>2
        <5>3. down'[d] = down[d]
          BY <1>1, <2>5
        <5> HIDE DEF new
        <5>4. dev'[d] = new
          BY <5>1 DEF new
        <5> QED BY <5>2, <5>3, <5>4
      <4>2. CASE dev[d].link # "up"
        BY <1>1, <2>5, <4>2
      <4> QED BY <4>1, <4>2
    <3>2. dev[e].loop # "panicked" \/ dev'[e].loop = "panicked"
      BY <1>1, <1>2, <2>1
    <3>3. dev[e].loop # "panicked" => Loose(dev[d], down[d])
      BY <1>0, <2>2, LinkDown DEF Pair
    <3> QED BY <3>1, <3>2, <3>3 DEF Pair, Loose
  <2> QED BY <2>3, <2>4, <2>5
<1> QED BY <1>3, <1>4 DEF LinkInvariant

(* A cable that is pulled takes the power from all below.                  *)
LEMMA UnplugLinks ==
  ASSUME TypeOK, LinkInvariant, NEW x \in Devices, Unplug(x)
  PROVE  LinkInvariant'
<1>1. \A d \in Devices :
        IF d \in Downwards(x) THEN dev'[d] = Idle /\ down'[d] = <<>> /\ readyByte'[d] = 0
        ELSE dev'[d] = dev[d] /\ down'[d] = down[d] /\ readyByte'[d] = readyByte[d]
  BY DEF Unplug
<1>2. ASSUME NEW d \in Devices PROVE Alone(dev'[d], readyByte'[d])
  <2>1. Alone(dev[d], readyByte[d])
    BY DEF LinkInvariant
  <2> QED BY <1>1, <2>1, FreshFields DEF Alone
<1>3. ASSUME NEW d \in Devices \ {Head1}, NEW e \in Above(d)
      PROVE  Pair(dev'[e], dev'[d], down'[d], readyByte'[d])
  <2>1. e \in Devices /\ (e \in Downwards(x) => d \in Downwards(x))
    BY Neighbours
  <2>2. Pair(dev[e], dev[d], down[d], readyByte[d])
    BY DEF LinkInvariant
  <2>3. CASE d \in Downwards(x)
    <3>1. dev'[d].link # "up" /\ NoneOf(down'[d], ChunkKinds)
      BY <1>1, <2>3, FreshFields DEF NoneOf
    <3> QED BY <3>1 DEF Pair, Loose
  <2>4. CASE d \notin Downwards(x)
    BY <1>1, <2>1, <2>2, <2>4
  <2> QED BY <2>3, <2>4
<1> QED BY <1>2, <1>3 DEF LinkInvariant

(* A device gets power, or a link.                                         *)
LEMMA FreshLinks ==
  ASSUME TypeOK, LinkInvariant, NEW x \in Devices, PlugIn(x) \/ Join(x)
  PROVE  LinkInvariant'
<1>0. Alone(dev[x], readyByte[x])
  BY DEF LinkInvariant
<1>1. /\ dev[x].loop = "run" /\ readyByte[x] = 0 /\ readyByte' = readyByte
      /\ dev'[x].loop = "run" /\ ~dev'[x].told /\ dev'[x].link # "off"
      /\ \A d \in Devices \ {x} : dev'[d] = dev[d] /\ down'[d] = down[d]
  <2>1. CASE PlugIn(x)
    <3>1. dev[x].link = "off"
      BY <2>1 DEF PlugIn
    <3>2. dev[x].loop = "run" /\ readyByte[x] = 0
      BY <1>0, <3>1 DEF Alone
    <3> QED BY <2>1, <3>2, FreshFields DEF PlugIn, TypeOK
  <2>2. CASE Join(x)
    <3>1. readyByte[x] = 0
      BY <1>0, <2>2 DEF Alone, Join
    <3> QED BY <2>2, <3>1, FreshFields DEF Join, TypeOK
  <2> QED BY <2>1, <2>2
<1>2. Alone(dev'[x], readyByte'[x])
  BY <1>1 DEF Alone
<1>3. ASSUME NEW d \in Devices \ {Head1}, x \in Above(d)
      PROVE  Pair(dev'[x], dev[d], down'[d], readyByte'[d])
  <2>1. Pair(dev[x], dev[d], down[d], readyByte[d]) /\ d # x
    BY <1>3, Neighbours DEF LinkInvariant
  <2> QED BY <1>1, <2>1, RunsAbove
<1>4. ASSUME x # Head1, NEW e \in Above(x)
      PROVE  Pair(dev[e], dev'[x], down'[x], readyByte'[x])
  <2>1. Pair(dev[e], dev[x], down[x], readyByte[x])
    BY <1>4 DEF LinkInvariant
  <2>2. CASE PlugIn(x)
    <3>1. dev[x].link # "up" /\ down'[x] = down[x] /\ dev'[x].link # "up"
      BY <2>2, FreshFields DEF PlugIn, TypeOK
    <3>2. dev[e].loop # "panicked" => NoneOf(down[x], ChunkKinds)
      BY <1>1, <2>1, <3>1 DEF Pair, Loose
    <3> QED BY <3>1, <3>2 DEF Pair, Loose
  <2>3. CASE Join(x)
    <3>1. dev[e].loop = "run" /\ dev'[x].link = "up" /\ down'[x] = <<>>
      BY <1>4, <2>3, FreshFields DEF Join, Listening, TypeOK
    <3>2. NoneOf(<<>>, {"Enter"} \union ChunkKinds)
      BY DEF NoneOf
    <3> QED BY <1>1, <3>1, <3>2 DEF Pair, Linked
  <2> QED BY <2>2, <2>3
<1> QED BY <1>1, <1>2, <1>3, <1>4, LinkStep

(* At first nothing is on the links.                                       *)
LEMMA LinkInit == Init => LinkInvariant
<1> SUFFICES ASSUME Init PROVE LinkInvariant
  OBVIOUS
<1>1. \A d \in Devices : /\ dev[d].loop = "run" /\ dev[d].link = "up" /\ ~dev[d].told
                         /\ down[d] = <<>> /\ readyByte[d] = 0
  BY FreshFields DEF Init
<1>2. NoneOf(<<>>, {"Enter"} \union ChunkKinds)
  BY DEF NoneOf
<1>3. \A d \in Devices \ {Head1} : \A e \in Above(d) :
        Pair(dev[e], dev[d], down[d], readyByte[d])
  BY <1>1, <1>2, Neighbours DEF Pair, Linked
<1> QED BY <1>1, <1>3 DEF LinkInvariant, Alone

(* Every step keeps the handshake.                                         *)
LEMMA HandshakeStep ==
  ASSUME TypeOK, LinkInvariant, [Next]_vars
  PROVE  LinkInvariant'
<1>1. CASE CoordinatorStep \/ BeginUpgrade \/ CancelProtocol \/ SendCancelAll
            \/ WriteChunk("garbled")
  BY <1>1, CoordinatorLinks
<1>2. ASSUME NEW d \in Devices, \/ DeviceStep(d) \/ Confirm(d) \/ Unplug(d) \/ PlugIn(d)
      PROVE  LinkInvariant'
  BY <1>2, RecvLinks, ModeLinks, ChunkLinks, SignalLinks, ResetLinks, UnplugLinks, FreshLinks
     DEF DeviceStep
<1>3. CASE UNCHANGED vars
  BY <1>3 DEF vars, LinkInvariant
<1> QED BY <1>1, <1>2, <1>3 DEF Next

(* Of a link, the handshake leaves at most one chunk, for a device that    *)
(* takes it.                                                               *)
LEMMA OneChunk ==
  ASSUME NEW E, NEW D, NEW q \in Seq(Frames), NEW r, Pair(E, D, q, r), E.loop # "panicked",
         NEW n \in DOMAIN q, q[n].kind \in ChunkKinds
  PROVE  D.loop = "transfer" /\ D.belowReady /\ Len(q) = 1
<1>1. n \in 1 .. Len(q)
  BY LenProperties
<1>2. ~NoneOf(q, ChunkKinds) /\ ~NoneOf(q, {"Enter"} \union ChunkKinds) /\ q # <<>>
  BY <1>1 DEF NoneOf
<1> QED BY <1>2 DEF Pair, Linked, Loose, Round

(* The handshake of ready bytes, on every link of the chain.               *)
THEOREM FirmwareUpgradeLinkInvariant == Spec => []LinkInvariant
<1>1. Init => LinkInvariant
  BY LinkInit
<1>2. TypeOK /\ LinkInvariant /\ [Next]_vars => LinkInvariant'
  BY HandshakeStep
<1> QED BY <1>1, <1>2, FirmwareUpgradeTypeOK, PTL DEF Spec

(* A chunk is sent only to a device that will read it at once, and one at  *)
(* a time.                                                                 *)
THEOREM FirmwareUpgradeChunksOnlyWhenReady == Spec => []ChunksOnlyWhenReady
<1>1. TypeOK /\ LinkInvariant => ChunksOnlyWhenReady
  <2> SUFFICES ASSUME TypeOK, LinkInvariant, NEW d \in Devices \ {Head1}, NEW e \in Above(d),
                      dev[e].loop \in {"transfer", "verify", "switch", "reset"},
                      NEW m \in DOMAIN down[d], down[d][m].kind \in ChunkKinds
               PROVE  Takes(d) /\ \A n \in DOMAIN down[d] : n = m
    BY DEF ChunksOnlyWhenReady
  <2>1. down[d] \in Seq(Frames) /\ Pair(dev[e], dev[d], down[d], readyByte[d])
    BY DEF TypeOK, LinkInvariant
  <2>2. dev[d].loop = "transfer" /\ dev[d].belowReady /\ Len(down[d]) = 1
    BY <2>1, OneChunk
  <2>3. DOMAIN down[d] = 1 .. 1
    BY <2>1, <2>2, LenProperties
  <2> QED BY <2>2, <2>3 DEF Takes
<1> QED BY <1>1, FirmwareUpgradeTypeOK, FirmwareUpgradeLinkInvariant, PTL

-----------------------------------------------------------------------------
(* A device enters only when it is ready.                                  *)

Orders == {"Prepare", "Cancel"}
Upwards(d) == {e \in Devices : Position(e) <= Position(d)}

(* An upgrade is under way that may yet be entered, and the devices that   *)
(* heard of it, those that said they are ready, and those whose answer     *)
(* the coordinator can have counted rightly.                               *)
Trusted == Devices \ (late \union stale)
Live == Trusted # {} /\ ((proto # NoProtocol /\ ~proto.abort) \/ transfer.stage # "idle")
Knows(x) == dev[x].mode # None /\ dev[x].upgrade = budget.upgrades
Acked(x) == dev[x].mode \in {"ready", "forward"} /\ dev[x].upgrade = budget.upgrades

(* Upgrades are numbered downwards: n is that of one that was announced.   *)
Old(n) == n >= budget.upgrades /\ (proto # NoProtocol /\ ~proto.sent => n # budget.upgrades)

(* A device in the transfer that is ready, or was.                         *)
Started(x) ==
  dev[x].loop # "run" /\ (dev[x].told \/ dev[x].belowReady \/ dev[x].count > 0)

(* A link is up only below links that are.                                 *)
ChainUp == \A d \in Devices : dev[d].link = "up" => \A e \in Upwards(d) : dev[e].link = "up"

(* A device says that it is ready in the transfer only, ...                *)
Rested ==
  \A d \in Devices :
    /\ dev[d].loop = "run" => ~dev[d].told /\ ~dev[d].belowReady /\ dev[d].count = 0
    /\ readyByte[d] > 0 => Started(d)

(* ... when all that are linked below it have said so.                     *)
StartedBelow ==
  \A d \in Devices : \A e \in Upwards(d) : Started(e) /\ dev[d].link = "up" => Started(d)

(* No chunk comes before EnterUpgradeMode, which is on its way to every    *)
(* device that runs its loop below one that entered, or below the          *)
(* coordinator that sends chunks ...                                       *)
Ahead(q) ==
  \A n \in 1 .. Len(q) : q[n].kind \in ChunkKinds =>
    \E m \in 1 .. Len(q) : m < n /\ q[m].kind = "Enter"

EnterFirst ==
  /\ \A d \in Devices : Listening(d) => Ahead(down[d])
  /\ transfer.stage \in {"write", "read"} /\ Head1 \in Devices /\ Listening(Head1) =>
       ~NoneOf(down[Head1], {"Enter"})
  /\ \A d \in Devices \ {Head1} : \A e \in Above(d) :
       Listening(d) /\ dev[e].loop # "run" => ~NoneOf(down[d], {"Enter"})

(* ... and to none once the coordinator is done.                           *)
NoEnter ==
  transfer.stage \in {"idle", "ready"} =>
    \A d \in Devices : Listening(d) => NoneOf(down[d], {"Enter"})

(* The port fails in a transfer only when the first link has gone.         *)
PortLost ==
  transfer.stage \in {"write", "read"} /\ Head1 \in Devices /\ Head1 \notin Port =>
    dev[Head1].link # "up"

(* What is known of an upgrade was announced.                              *)
Numbers ==
  /\ transfer.stage # "idle" => proto = NoProtocol
  /\ \A x \in Devices : \A i \in 1 .. Len(down[x]) :
       down[x][i].kind = "Prepare" => Old(down[x][i].upgrade)
  /\ \A x \in Devices : dev[x].mode # None => Old(dev[x].upgrade)
  /\ \A a \in acks : Old(a.upgrade)

(* No order follows PrepareUpgrade of an upgrade that lives, on its way    *)
(* down the chain ...                                                      *)
Behind ==
  Live => \A g \in Devices : \A j \in 1 .. Len(down[g]) :
    down[g][j].kind = "Prepare" /\ down[g][j].upgrade = budget.upgrades =>
      /\ \A i \in 1 .. Len(down[g]) : i > j => down[g][i].kind \notin Orders
      /\ \A f \in Upwards(g) \ {g} : NoneOf(down[f], Orders)

(* ... or to a device that got it.                                         *)
Clean ==
  Live => \A x \in Devices : Knows(x) => \A f \in Upwards(x) : NoneOf(down[f], Orders)

(* An answer on its way is that of a device that is still ready, ...       *)
Answered ==
  \A a \in acks : /\ dev[a.from].link = "up"
                  /\ Live /\ a.upgrade = budget.upgrades => Acked(a.from)

(* ... and so is each that was counted, and in the end every device.       *)
Counted ==
  /\ proto # NoProtocol => Devices \ late \subseteq proto.devices
  /\ proto # NoProtocol /\ ~proto.abort =>
       \A d \in (proto.confirmed \union proto.passive) \intersect Trusted :
         dev[d].link = "up" => Acked(d)
  /\ transfer.stage # "idle" => \A d \in Trusted : dev[d].link = "up" => Acked(d)

ReadyInvariant ==
  /\ ChainUp /\ Rested /\ StartedBelow
  /\ EnterFirst /\ NoEnter /\ PortLost
  /\ Numbers /\ Behind /\ Clean /\ Answered /\ Counted
  /\ EnteredOnlyWhenReady

-----------------------------------------------------------------------------
(* The steps of the devices, field by field.                               *)

(* What has just got power, or a link, knows of no upgrade.                *)
LEMMA FreshParts ==
  /\ Idle.mode = None /\ Idle.count = 0 /\ ~Idle.belowReady
  /\ Booted.mode = None /\ Booted.count = 0 /\ ~Booted.belowReady
  /\ [Booted EXCEPT !.link = "up"].mode = None /\ [Booted EXCEPT !.link = "up"].count = 0
  /\ ~[Booted EXCEPT !.link = "up"].belowReady
  BY DEF Booted, Idle

(* The loop's handling of a frame, field by field.                         *)
LEMMA RecvParts ==
  ASSUME TypeOK, NEW d \in Devices, Recv(d)
  PROVE  /\ dev[d].link = "up" /\ dev[d].loop = "run" /\ down[d] # <<>>
         /\ \A x \in Devices \ {d} : dev'[x] = dev[x]
         /\ dev'[d].link = "up" /\ dev'[d].told = dev[d].told /\ dev'[d].count = dev[d].count
         /\ \/ /\ Head(down[d]).kind = "Prepare" /\ dev'[d].loop = "run"
               /\ dev'[d].mode \in {"passive", "confirm"}
               /\ dev'[d].upgrade = Head(down[d]).upgrade
               /\ dev'[d].belowReady = dev[d].belowReady
            \/ /\ Head(down[d]).kind = "Cancel" /\ dev'[d].loop = "run" /\ dev'[d].mode = None
               /\ dev'[d].belowReady = dev[d].belowReady
            \/ /\ Head(down[d]).kind = "Enter" /\ dev'[d].loop = "transfer"
               /\ dev[d].mode \in {"ready", "passive", "forward"}
               /\ dev'[d].mode = dev[d].mode /\ dev'[d].upgrade = dev[d].upgrade
               /\ dev'[d].belowReady => Below(d) = {}
               /\ Below(d) = {} => dev'[d].belowReady
            \/ /\ Head(down[d]).kind = "Enter" /\ dev'[d].loop = "panicked"
               /\ dev[d].mode \notin {"ready", "passive", "forward"}
               /\ dev'[d].mode = dev[d].mode /\ dev'[d].upgrade = dev[d].upgrade
               /\ dev'[d].belowReady = dev[d].belowReady
            \/ /\ Head(down[d]).kind \in ChunkKinds /\ dev'[d].loop = "panicked"
               /\ dev'[d].mode = dev[d].mode /\ dev'[d].upgrade = dev[d].upgrade
               /\ dev'[d].belowReady = dev[d].belowReady
<1> DEFINE f == Head(down[d])
<1>1. /\ dev[d].link = "up" /\ dev[d].loop = "run" /\ down[d] # <<>> /\ dev[d] \in DeviceStates
  BY DEF Recv, Listening, TypeOK
<1>2. f \in Frames
  BY <1>1, HeadType
<1>3. PICK r : /\ dev' = [dev EXCEPT ![d] = r]
               /\ \/ f.kind = "Prepare" /\ r = Warned(d, f.upgrade)
                  \/ f.kind = "Cancel" /\ r = [dev[d] EXCEPT !.mode = None]
                  \/ f.kind = "Enter" /\ r = Enters(d)
                  \/ f.kind \in ChunkKinds /\ r = Panics(d)
  <2>1. f.kind \in {"Prepare", "Cancel", "Enter", "chunk", "garbled"}
    BY <1>2 DEF Frames
  <2> QED BY <2>1 DEF Recv, ChunkKinds
<1>4. dev'[d] = r /\ \A x \in Devices \ {d} : dev'[x] = dev[x]
  BY <1>3 DEF TypeOK
<1> HIDE DEF f
<1>5. /\ Panics(d).loop = "panicked" /\ Panics(d).link = "up" /\ Panics(d).told = dev[d].told
      /\ Panics(d).count = dev[d].count /\ Panics(d).mode = dev[d].mode
      /\ Panics(d).upgrade = dev[d].upgrade /\ Panics(d).belowReady = dev[d].belowReady
  BY <1>1 DEF Panics, DeviceStates
<1>6. CASE f.kind = "Prepare" /\ r = Warned(d, f.upgrade)
  <2> DEFINE mode == IF Running(d) = "new" THEN "passive" ELSE "confirm"
             new == [dev[d] EXCEPT !.mode = mode, !.upgrade = f.upgrade]
  <2>1. mode \in {"passive", "confirm"} /\ r = new
    BY <1>6 DEF Warned
  <2>2. /\ new.link = "up" /\ new.told = dev[d].told /\ new.count = dev[d].count
        /\ new.loop = "run" /\ new.mode = mode /\ new.upgrade = f.upgrade
        /\ new.belowReady = dev[d].belowReady
    <3> HIDE DEF mode
    <3> QED BY <1>1 DEF DeviceStates
  <2> HIDE DEF new, mode
  <2> QED BY <1>1, <1>4, <1>6, <2>1, <2>2 DEF f
<1>7. CASE f.kind = "Cancel" /\ r = [dev[d] EXCEPT !.mode = None]
  BY <1>1, <1>4, <1>7 DEF DeviceStates, f
<1>8. CASE f.kind = "Enter" /\ r = Enters(d) /\ dev[d].mode \in {"ready", "passive", "forward"}
  <2> DEFINE some == Below(d) # {}
             none == Below(d) = {}
             new == [dev[d] EXCEPT !.loop = "transfer", !.below = some, !.belowReady = none]
  <2>1. r = new
    BY <1>8 DEF Enters
  <2>2. /\ new.link = "up" /\ new.told = dev[d].told /\ new.count = dev[d].count
        /\ new.loop = "transfer" /\ new.mode = dev[d].mode /\ new.upgrade = dev[d].upgrade
        /\ new.belowReady = none
    <3> HIDE DEF some, none
    <3> QED BY <1>1 DEF DeviceStates
  <2>3. dev'[d].belowReady = (Below(d) = {})
    BY <1>4, <2>1, <2>2
  <2>4. (dev'[d].belowReady => Below(d) = {}) /\ (Below(d) = {} => dev'[d].belowReady)
    BY <2>3, Zenon
  <2> HIDE DEF new
  <2> QED BY <1>1, <1>4, <1>8, <2>1, <2>2, <2>4 DEF f
<1>9. CASE f.kind = "Enter" /\ r = Enters(d) /\ dev[d].mode \notin {"ready", "passive", "forward"}
  <2>1. r = Panics(d)
    BY <1>9 DEF Enters
  <2> QED BY <1>1, <1>4, <1>5, <1>9, <2>1 DEF f
<1>10. CASE f.kind \in ChunkKinds /\ r = Panics(d)
  BY <1>1, <1>4, <1>5, <1>10 DEF f
<1> QED BY <1>3, <1>6, <1>7, <1>8, <1>9, <1>10

(* The poll of an upgrade that was confirmed or is passive.                *)
LEMMA PollModeParts ==
  ASSUME TypeOK, NEW d \in Devices, PollMode(d)
  PROVE  /\ dev[d].link = "up" /\ dev[d].loop = "run" /\ dev[d].mode \in {"erase", "passive"}
         /\ dev'[d].mode \in {"ready", "forward"} /\ dev'[d].upgrade = dev[d].upgrade
         /\ dev'[d].link = "up" /\ dev'[d].loop = "run" /\ dev'[d].told = dev[d].told
         /\ dev'[d].count = dev[d].count /\ dev'[d].belowReady = dev[d].belowReady
         /\ \A x \in Devices \ {d} :
              /\ dev'[x].link = dev[x].link /\ dev'[x].told = dev[x].told
              /\ dev'[x].count = dev[x].count /\ dev'[x].belowReady = dev[x].belowReady
              /\ dev'[x].mode = dev[x].mode /\ dev'[x].upgrade = dev[x].upgrade
              /\ \/ dev'[x].loop = dev[x].loop
                 \/ x \in Above(d) /\ dev[x].loop = "transfer" /\ dev'[x].loop = "panicked"
<1> DEFINE mode == IF dev[d].mode = "erase" THEN "ready" ELSE "forward"
           new == [dev[d] EXCEPT !.mode = mode]
<1>1. \A x \in Devices : dev[x] \in DeviceStates
  BY DEF TypeOK
<1>2. dev[d].link = "up" /\ dev[d].loop = "run" /\ dev[d].mode \in {"erase", "passive"}
  BY DEF PollMode, Listening
<1>3. \A x \in Devices : dev'[x] = IF x \in Above(d) /\ dev[x].loop = "transfer" THEN Panics(x)
                                   ELSE IF x = d THEN new ELSE dev[x]
  BY DEF PollMode, TypeOK
<1>4. mode \in {"ready", "forward"}
  OBVIOUS
<1>5. /\ new.mode = mode /\ new.upgrade = dev[d].upgrade /\ new.link = "up" /\ new.loop = "run"
      /\ new.told = dev[d].told /\ new.count = dev[d].count /\ new.belowReady = dev[d].belowReady
  <2> HIDE DEF mode
  <2> QED BY <1>1, <1>2 DEF DeviceStates
<1>6. ASSUME NEW x \in Devices
      PROVE  /\ Panics(x).link = dev[x].link /\ Panics(x).told = dev[x].told
             /\ Panics(x).count = dev[x].count /\ Panics(x).belowReady = dev[x].belowReady
             /\ Panics(x).mode = dev[x].mode /\ Panics(x).upgrade = dev[x].upgrade
             /\ Panics(x).loop = "panicked"
  BY <1>1 DEF Panics, DeviceStates
<1> HIDE DEF new, mode
<1>7. dev'[d] = new
  BY <1>2, <1>3
<1>8. \A x \in Devices \ {d} : dev'[x] = IF x \in Above(d) /\ dev[x].loop = "transfer"
                                         THEN Panics(x) ELSE dev[x]
  BY <1>3
<1> QED BY <1>2, <1>4, <1>5, <1>6, <1>7, <1>8

(* A chunk.                                                                *)
LEMMA ReadChunkParts ==
  ASSUME TypeOK, NEW d \in Devices, ReadChunk(d)
  PROVE  /\ dev[d].loop = "transfer" /\ dev[d].belowReady /\ down[d] # <<>>
         /\ \A x \in Devices \ {d} : dev'[x] = dev[x]
         /\ dev'[d].link = dev[d].link /\ dev'[d].loop \in {"transfer", "verify", "reset"}
         /\ dev'[d].mode = dev[d].mode /\ dev'[d].upgrade = dev[d].upgrade
         /\ dev'[d].count > 0
<1> DEFINE f == Head(down[d])
           count == dev[d].count + 1
           garbled == dev[d].garbled \/ f.kind # "chunk"
           loop == IF count < Chunks THEN "transfer"
                   ELSE IF Upgrading(d) THEN "verify" ELSE "reset"
           ready == ~dev[d].below
           new == [dev[d] EXCEPT !.count = count, !.garbled = garbled, !.belowReady = ready,
                                 !.told = FALSE, !.loop = loop]
<1>1. dev[d].loop = "transfer" /\ dev[d].belowReady /\ down[d] # <<>> /\ dev[d] \in DeviceStates
  BY DEF ReadChunk, Takes, TypeOK
<1>2. dev' = [dev EXCEPT ![d] = new]
  BY DEF ReadChunk
<1>3. loop \in {"transfer", "verify", "reset"}
  OBVIOUS
<1>4. count > 0
  BY <1>1 DEF DeviceStates
<1>5. /\ new.link = dev[d].link /\ new.mode = dev[d].mode /\ new.upgrade = dev[d].upgrade
      /\ new.count = count /\ new.loop = loop
  <2> HIDE DEF count, garbled, loop, ready
  <2> QED BY <1>1 DEF DeviceStates
<1> HIDE DEF new, loop, count
<1> QED BY <1>1, <1>2, <1>3, <1>4, <1>5 DEF TypeOK

(* Ready bytes.                                                            *)
LEMMA SignalParts ==
  ASSUME TypeOK, NEW d \in Devices, Signal(d)
  PROVE  /\ dev[d].loop = "transfer" /\ down' = down
         /\ \A x \in Devices \ {d} : dev'[x] = dev[x]
         /\ dev'[d].link = dev[d].link /\ dev'[d].loop = "transfer"
         /\ dev'[d].mode = dev[d].mode /\ dev'[d].upgrade = dev[d].upgrade
         /\ dev'[d].told /\ dev'[d].count = dev[d].count
         /\ dev[d].belowReady \/ \E e \in Below(d) : readyByte[e] > 0
         /\ \A x \in Devices \ {d} : readyByte'[x] \in {0, readyByte[x]}
<1> DEFINE ready == Ready(d)
           told == dev[d].told \/ Ready(d)
           new == [dev[d] EXCEPT !.belowReady = ready, !.told = told]
<1>1. dev[d].loop = "transfer" /\ down' = down /\ dev[d] \in DeviceStates
  BY DEF Signal, TypeOK
<1>2. dev' = [dev EXCEPT ![d] = new]
  BY DEF Signal
<1>3. /\ new.link = dev[d].link /\ new.loop = dev[d].loop /\ new.mode = dev[d].mode
      /\ new.upgrade = dev[d].upgrade /\ new.count = dev[d].count /\ new.told = told
  <2> HIDE DEF ready, told
  <2> QED BY <1>1 DEF DeviceStates
<1>4. Ready(d)
  BY DEF Signal, Ready, Says
<1>5. dev[d].belowReady \/ \E e \in Below(d) : readyByte[e] > 0
  BY <1>4, Zenon DEF Ready, Heard
<1>6. dev'[d] = new /\ \A x \in Devices \ {d} : dev'[x] = dev[x]
  <2> HIDE DEF new
  <2> QED BY <1>2 DEF TypeOK
<1>7. new.told
  BY <1>3, <1>4
<1>8. \A x \in Devices \ {d} : readyByte'[x] \in {0, readyByte[x]}
  BY DEF Signal
<1> HIDE DEF new
<1> QED BY <1>1, <1>3, <1>5, <1>6, <1>7, <1>8

(* The user confirms, and the end of a transfer.                           *)
LEMMA EndParts ==
  ASSUME TypeOK, NEW d \in Devices, Confirm(d) \/ Verify(d) \/ Switch(d)
  PROVE  /\ down' = down /\ readyByte' = readyByte
         /\ \A x \in Devices \ {d} : dev'[x] = dev[x]
         /\ dev'[d].link = dev[d].link /\ dev'[d].told = dev[d].told
         /\ dev'[d].count = dev[d].count /\ dev'[d].belowReady = dev[d].belowReady
         /\ dev'[d].upgrade = dev[d].upgrade
         /\ \/ dev'[d].loop = dev[d].loop /\ dev[d].mode = "confirm" /\ dev'[d].mode = "erase"
            \/ /\ dev'[d].mode = dev[d].mode
               /\ dev[d].loop \in {"verify", "switch"}
               /\ dev'[d].loop \in {"switch", "parked", "reset"}
<1>1. dev[d] \in DeviceStates
  BY DEF TypeOK
<1>2. CASE Confirm(d)
  <2> DEFINE new == [dev[d] EXCEPT !.mode = "erase"]
  <2>1. dev' = [dev EXCEPT ![d] = new] /\ dev[d].mode = "confirm" /\ down' = down
        /\ readyByte' = readyByte
    BY <1>2 DEF Confirm
  <2>2. /\ new.link = dev[d].link /\ new.told = dev[d].told /\ new.count = dev[d].count
        /\ new.belowReady = dev[d].belowReady /\ new.upgrade = dev[d].upgrade
        /\ new.loop = dev[d].loop /\ new.mode = "erase"
    BY <1>1 DEF DeviceStates
  <2> HIDE DEF new
  <2> QED BY <2>1, <2>2 DEF TypeOK
<1>3. CASE Verify(d) \/ Switch(d)
  <2>1. PICK l \in {"switch", "parked", "reset"} :
          dev' = [dev EXCEPT ![d] = [dev[d] EXCEPT !.loop = l]]
    BY <1>3 DEF Verify, Switch
  <2>2. dev[d].loop \in {"verify", "switch"} /\ down' = down /\ readyByte' = readyByte
    BY <1>3 DEF Verify, Switch
  <2> DEFINE new == [dev[d] EXCEPT !.loop = l]
  <2>3. /\ new.link = dev[d].link /\ new.told = dev[d].told /\ new.count = dev[d].count
        /\ new.belowReady = dev[d].belowReady /\ new.upgrade = dev[d].upgrade
        /\ new.mode = dev[d].mode /\ new.loop = l
    BY <1>1 DEF DeviceStates
  <2> HIDE DEF new
  <2>4. dev' = [dev EXCEPT ![d] = new]
    BY <2>1 DEF new
  <2> QED BY <2>2, <2>3, <2>4 DEF TypeOK
<1> QED BY <1>2, <1>3

(* Power and links: who loses its link, and what is fresh.                 *)
LEMMA PowerParts ==
  ASSUME TypeOK, LinkInvariant, NEW d \in Devices, Reset(d) \/ Unplug(d) \/ PlugIn(d) \/ Join(d)
  PROVE  /\ \A x \in Devices : down'[x] \in {down[x], <<>>} /\ readyByte'[x] \in {readyByte[x], 0}
         /\ \A x \in Devices : \/ dev'[x] = dev[x]
                               \/ /\ dev'[x].mode = None /\ dev'[x].loop = "run" /\ ~dev'[x].told
                                  /\ ~dev'[x].belowReady /\ dev'[x].count = 0
                                  /\ readyByte'[x] = 0
                                  /\ dev'[x].link = "up" => Join(d) /\ x = d
                               \/ /\ dev'[x].link = "on" /\ dev'[x].mode = dev[x].mode
                                  /\ dev'[x].upgrade = dev[x].upgrade
                                  /\ dev'[x].loop = dev[x].loop /\ dev'[x].told = dev[x].told
                                  /\ dev'[x].belowReady = dev[x].belowReady
                                  /\ dev'[x].count = dev[x].count
<1>0. \A x \in Devices : dev[x] \in DeviceStates /\ Alone(dev[x], readyByte[x])
  BY DEF TypeOK, LinkInvariant
<1>1. CASE Reset(d)
  <2>1. /\ dev'[d] = Booted /\ down'[d] = <<>> /\ readyByte'[d] = 0
        /\ \A x \in Devices \ {d} :
             /\ down'[x] = down[x] /\ readyByte'[x] = readyByte[x]
             /\ dev'[x] = IF x \in Downwards(d) /\ dev[x].link = "up"
                            THEN [dev[x] EXCEPT !.link = "on"] ELSE dev[x]
    BY <1>1 DEF Reset, TypeOK
  <2>2. ASSUME NEW x \in Devices \ {d}, dev'[x] # dev[x]
        PROVE  /\ dev'[x].link = "on" /\ dev'[x].mode = dev[x].mode
               /\ dev'[x].upgrade = dev[x].upgrade
               /\ dev'[x].loop = dev[x].loop /\ dev'[x].told = dev[x].told
               /\ dev'[x].belowReady = dev[x].belowReady
               /\ dev'[x].count = dev[x].count
    <3> DEFINE new == [dev[x] EXCEPT !.link = "on"]
    <3>1. dev'[x] = new
      BY <2>1, <2>2
    <3>2. /\ new.link = "on" /\ new.mode = dev[x].mode /\ new.upgrade = dev[x].upgrade
          /\ new.loop = dev[x].loop /\ new.told = dev[x].told
          /\ new.belowReady = dev[x].belowReady /\ new.count = dev[x].count
      BY <1>0 DEF DeviceStates
    <3> HIDE DEF new
    <3> QED BY <3>1, <3>2
  <2>3. \A x \in Devices : down'[x] \in {down[x], <<>>} /\ readyByte'[x] \in {readyByte[x], 0}
    BY <2>1
  <2>4. /\ dev'[d].mode = None /\ dev'[d].loop = "run" /\ ~dev'[d].told /\ ~dev'[d].belowReady
        /\ dev'[d].count = 0 /\ dev'[d].link # "up"
    BY <2>1, FreshFields, FreshParts
  <2> QED BY <2>1, <2>2, <2>3, <2>4
<1>2. CASE Unplug(d)
  <2>1. \A x \in Devices :
          IF x \in Downwards(d) THEN dev'[x] = Idle /\ down'[x] = <<>> /\ readyByte'[x] = 0
          ELSE dev'[x] = dev[x] /\ down'[x] = down[x] /\ readyByte'[x] = readyByte[x]
    BY <1>2 DEF Unplug
  <2> QED BY <2>1, FreshFields, FreshParts
<1>3. CASE PlugIn(d)
  <2>1. /\ dev'[d] = Booted /\ down' = down /\ readyByte' = readyByte
        /\ \A x \in Devices \ {d} : dev'[x] = dev[x]
    BY <1>3 DEF PlugIn, TypeOK
  <2>2. readyByte[d] = 0
    BY <1>0, <1>3 DEF PlugIn, Alone
  <2> QED BY <2>1, <2>2, FreshFields, FreshParts
<1>4. CASE Join(d)
  <2>1. /\ dev'[d] = [Booted EXCEPT !.link = "up"] /\ readyByte' = readyByte
        /\ down'[d] = <<>> /\ \A x \in Devices \ {d} : dev'[x] = dev[x] /\ down'[x] = down[x]
    BY <1>4 DEF Join, TypeOK
  <2>2. readyByte[d] = 0
    BY <1>0, <1>4 DEF Join, Alone
  <2> QED BY <1>4, <2>1, <2>2, FreshFields, FreshParts
<1> QED BY <1>1, <1>2, <1>3, <1>4

-----------------------------------------------------------------------------
(* Up the chain.                                                           *)

(* The devices on the way up from a device.                                *)
LEMMA Ancestors ==
  ASSUME NEW d \in Devices
  PROVE  /\ d \in Upwards(d) /\ Head1 \in Upwards(d) /\ Upwards(d) \subseteq Devices
         /\ Head1 \in Devices /\ Upwards(Head1) = {Head1}
         /\ \A e \in Upwards(d) : Upwards(e) \subseteq Upwards(d)
         /\ \A x \in Devices : d \in Downwards(x) <=> x \in Upwards(d)
<1>1. /\ \A x \in Devices : Position(x) \in Nat /\ Position(x) >= 1
      /\ \A x, y \in Devices : Position(x) = Position(y) => x = y
  BY Places
<1>2. Head1 \in Devices /\ Position(Head1) = 1
  <2>1. 1 \in 1 .. Len(Chain)
    BY Places
  <2> QED BY <2>1, Places DEF Head1
<1> QED BY <1>1, <1>2 DEF Upwards, Downwards

(* The device above.                                                       *)
LEMMA AboveIs ==
  ASSUME NEW d \in Devices, NEW e \in Above(d)
  PROVE  /\ d # Head1 /\ e \in Upwards(d) /\ e # d /\ d \notin Upwards(e)
         /\ \A x \in Upwards(d) : x = d \/ x \in Upwards(e)
<1> DEFINE p == Position(d)
<1>1. p \in 1 .. Len(Chain) /\ Chain[p] = d /\ p # 1 /\ Len(Chain) \in Nat
  BY Places DEF Above
<1>2. e = Chain[p - 1] /\ p - 1 \in 1 .. Len(Chain)
  BY <1>1 DEF Above
<1>3. e \in Devices /\ Position(e) = p - 1
  BY <1>2, Places
<1>4. \A x \in Devices : Position(x) \in Nat /\ (Position(x) = p => x = d)
  BY <1>1, Places
<1>5. d # Head1
  <2>1. Position(Head1) = 1
    BY <1>1, Places DEF Head1
  <2> QED BY <1>1, <2>1
<1> HIDE DEF p
<1> QED BY <1>1, <1>3, <1>4, <1>5 DEF Upwards, p

(* Every device but the first has one above.                               *)
LEMMA HasAbove ==
  ASSUME NEW d \in Devices, d # Head1
  PROVE  \E e \in Above(d) : TRUE
  BY Places DEF Above, Head1

(* The device below is linked and has this one above it.                   *)
LEMMA BelowFacts ==
  ASSUME NEW x \in Devices, NEW d \in Below(x)
  PROVE  /\ d \in Devices \ {Head1} /\ x \in Above(d) /\ dev[d].link = "up"
         /\ d # x /\ d \notin Upwards(x) /\ Below(x) = {d}
<1>1. /\ Position(x) \in 1 .. Len(Chain) /\ Position(x) # Len(Chain)
      /\ d = Chain[Position(x) + 1] /\ dev[d].link = "up" /\ Chain[Position(x)] = x
  BY Places DEF Below, Under
<1>2. Position(d) = Position(x) + 1 /\ d \in Devices
  BY <1>1, Places
<1>3. x \in Above(d)
  BY <1>1, <1>2 DEF Above
<1>4. d # Head1 /\ d # x /\ d \notin Upwards(x)
  BY <1>2, <1>3, AboveIs
<1> QED BY <1>1, <1>2, <1>3, <1>4, BelowIs

(* On the way up from a device that is linked, each has the next below it. *)
LEMMA OnTheWay ==
  ASSUME ChainUp, NEW x \in Devices, dev[x].link = "up", NEW e \in Upwards(x), e # x
  PROVE  \E y \in Below(e) : y \in Upwards(x)
<1>1. /\ e \in Devices /\ Position(e) \in 1 .. Len(Chain) /\ Position(x) \in 1 .. Len(Chain)
      /\ Position(e) <= Position(x) /\ Len(Chain) \in Nat
  BY Places DEF Upwards
<1>2. Position(e) # Position(x)
  BY <1>1, Places
<1> DEFINE y == Chain[Position(e) + 1]
<1>3. Position(e) # Len(Chain) /\ Position(e) + 1 \in 1 .. Len(Chain)
  BY <1>1, <1>2
<1>4. y \in Devices /\ Position(y) = Position(e) + 1
  BY <1>3, Places
<1>5. y \in Upwards(x)
  BY <1>1, <1>2, <1>4 DEF Upwards
<1>6. dev[y].link = "up"
  BY <1>5 DEF ChainUp
<1>7. y \in Below(e)
  BY <1>3, <1>6 DEF Below, Under
<1> QED BY <1>5, <1>7

-----------------------------------------------------------------------------
(* The steps of a device that has power and goes on in its loops.          *)
Inner(d) ==
  Recv(d) \/ PollMode(d) \/ ReadChunk(d) \/ Signal(d) \/ Confirm(d) \/ Verify(d) \/ Switch(d)

(* A device that started goes on as one that did; it starts when none is   *)
(* below it, or with a byte from below.                                    *)
LEMMA InnerLoops ==
  ASSUME TypeOK, Rested, NEW d \in Devices, Inner(d)
  PROVE  /\ \A x \in Devices : /\ dev'[x].link = dev[x].link
                               /\ dev'[x].loop = "run" => dev[x].loop = "run"
                               /\ Started(x) => Started(x)'
                               /\ Started(x)' => \/ Started(x)
                                                 \/ /\ x = d
                                                    /\ \/ Below(d) = {}
                                                       \/ \E y \in Below(d) : readyByte[y] > 0
         /\ Rested'
<1>0. \A x \in Devices : readyByte[x] \in Nat
  BY DEF TypeOK
<1>1. CASE Recv(d)
  <2>1. readyByte' = readyByte
    BY <1>1 DEF Recv
  <2>2. /\ dev[d].link = "up" /\ dev[d].loop = "run" /\ dev'[d].link = "up"
        /\ \A x \in Devices \ {d} : dev'[x] = dev[x]
        /\ dev'[d].told = dev[d].told /\ dev'[d].count = dev[d].count
        /\ \/ dev'[d].loop = "run" /\ dev'[d].belowReady = dev[d].belowReady
           \/ dev'[d].loop = "panicked" /\ dev'[d].belowReady = dev[d].belowReady
           \/ dev'[d].loop = "transfer" /\ (dev'[d].belowReady => Below(d) = {})
    BY <1>1, RecvParts
  <2>3. ~dev[d].told /\ ~dev[d].belowReady /\ dev[d].count = 0 /\ ~(readyByte[d] > 0)
    BY <2>2 DEF Rested, Started
  <2>4. Started(d)' => Below(d) = {}
    BY <2>2, <2>3 DEF Started
  <2>5. ~Started(d)
    BY <2>2 DEF Started
  <2>6. \A x \in Devices \ {d} : Started(x)' <=> Started(x)
    BY <2>2 DEF Started
  <2>7. Rested'
    BY <2>1, <2>2, <2>3, <2>6 DEF Rested
  <2> QED BY <2>2, <2>4, <2>5, <2>6, <2>7
<1>2. CASE PollMode(d) \/ Confirm(d) \/ Verify(d) \/ Switch(d)
  <2>1. readyByte' = readyByte
    BY <1>2 DEF PollMode, Confirm, Verify, Switch
  <2>2. ASSUME NEW x \in Devices
        PROVE  /\ dev'[x].link = dev[x].link /\ dev'[x].told = dev[x].told
               /\ dev'[x].count = dev[x].count /\ dev'[x].belowReady = dev[x].belowReady
               /\ dev'[x].loop = "run" <=> dev[x].loop = "run"
    <3>1. CASE PollMode(d)
      BY <3>1, PollModeParts
    <3>2. CASE Confirm(d) \/ Verify(d) \/ Switch(d)
      BY <3>2, EndParts
    <3> QED BY <1>2, <3>1, <3>2
  <2>3. \A x \in Devices : Started(x)' <=> Started(x)
    BY <2>2 DEF Started
  <2>4. Rested'
    BY <2>1, <2>2, <2>3 DEF Rested
  <2> QED BY <2>2, <2>3, <2>4
<1>3. CASE ReadChunk(d)
  <2>1. readyByte' = readyByte
    BY <1>3 DEF ReadChunk
  <2>2. /\ dev[d].loop = "transfer" /\ dev[d].belowReady
        /\ \A x \in Devices \ {d} : dev'[x] = dev[x]
        /\ dev'[d].link = dev[d].link /\ dev'[d].loop # "run" /\ dev'[d].count > 0
    BY <1>3, ReadChunkParts
  <2>3. Started(d) /\ Started(d)'
    BY <2>2 DEF Started
  <2>4. \A x \in Devices \ {d} : Started(x)' <=> Started(x)
    BY <2>2 DEF Started
  <2>5. Rested'
    BY <2>1, <2>2, <2>3, <2>4 DEF Rested
  <2> QED BY <2>2, <2>3, <2>4, <2>5
<1>4. CASE Signal(d)
  <2>1. /\ dev[d].loop = "transfer" /\ dev'[d].loop = "transfer" /\ dev'[d].told
        /\ \A x \in Devices \ {d} : dev'[x] = dev[x]
        /\ dev'[d].link = dev[d].link
        /\ dev[d].belowReady \/ \E e \in Below(d) : readyByte[e] > 0
        /\ \A x \in Devices \ {d} : readyByte'[x] \in {0, readyByte[x]}
    BY <1>4, SignalParts
  <2>2. Started(d)'
    BY <2>1 DEF Started
  <2>3. dev[d].belowReady => Started(d)
    BY <2>1 DEF Started
  <2>4. \A x \in Devices \ {d} : Started(x)' <=> Started(x)
    BY <2>1 DEF Started
  <2>5. ASSUME NEW x \in Devices, readyByte'[x] > 0 PROVE Started(x)'
    BY <2>1, <2>2, <2>4, <2>5 DEF Rested
  <2>6. \A x \in Devices : dev'[x].loop = "run" => ~dev'[x].told /\ ~dev'[x].belowReady
                                                   /\ dev'[x].count = 0
    BY <2>1 DEF Rested
  <2>7. Rested'
    BY <2>5, <2>6 DEF Rested
  <2> QED BY <2>1, <2>2, <2>3, <2>4, <2>7
<1> QED BY <1>1, <1>2, <1>3, <1>4 DEF Inner

(* So nobody below a device that started is still in its main loop.        *)
LEMMA InnerChain ==
  ASSUME TypeOK, ChainUp, Rested, StartedBelow, NEW d \in Devices, Inner(d)
  PROVE  ChainUp' /\ Rested' /\ StartedBelow'
<1>1. /\ \A x \in Devices : /\ dev'[x].link = dev[x].link
                            /\ Started(x) => Started(x)'
                            /\ Started(x)' => \/ Started(x)
                                              \/ /\ x = d
                                                 /\ \/ Below(d) = {}
                                                    \/ \E y \in Below(d) : readyByte[y] > 0
      /\ Rested'
  BY InnerLoops
<1>2. ChainUp'
  BY <1>1 DEF ChainUp, Upwards
<1>3. ASSUME NEW x \in Devices, NEW e \in Upwards(x), Started(e)', dev'[x].link = "up"
      PROVE  Started(x)'
  <2>0. e \in Devices /\ dev[x].link = "up"
    BY <1>1, <1>3 DEF Upwards
  <2>1. CASE Started(e)
    BY <1>1, <2>0, <2>1 DEF StartedBelow
  <2>2. CASE ~Started(e) /\ e = x
    BY <1>3, <2>2
  <2>3. CASE ~Started(e) /\ e # x
    <3>1. e = d /\ (Below(d) = {} \/ \E y \in Below(d) : readyByte[y] > 0)
      BY <1>1, <1>3, <2>0, <2>3
    <3>2. PICK y \in Below(d) : y \in Upwards(x)
      BY <2>0, <2>3, <3>1, OnTheWay
    <3>3. y \in Devices /\ Below(d) = {y}
      BY <3>2, BelowFacts
    <3>4. readyByte[y] > 0
      BY <3>1, <3>2, <3>3
    <3>5. Started(y)
      BY <3>3, <3>4 DEF Rested
    <3> QED BY <1>1, <2>0, <3>2, <3>5 DEF StartedBelow
  <2> QED BY <2>1, <2>2, <2>3
<1>4. StartedBelow'
  BY <1>3 DEF StartedBelow, Upwards
<1> QED BY <1>1, <1>2, <1>4

(* A link that is up after power went or came, and all above it, are as    *)
(* they were.                                                              *)
LEMMA PowerKeeps ==
  ASSUME TypeOK, LinkInvariant, ChainUp, NEW d \in Devices, Reset(d) \/ Unplug(d) \/ PlugIn(d),
         NEW x \in Devices, dev'[x].link = "up"
  PROVE  \A e \in Upwards(x) : /\ e \in Devices /\ dev[e].link = "up" /\ dev'[e] = dev[e]
                               /\ down'[e] = down[e] /\ readyByte'[e] = readyByte[e]
                               /\ Reset(d) \/ Unplug(d) => e \notin Downwards(d)
<1>0. x \in Upwards(x) /\ \A e \in Upwards(x) : e \in Devices
  BY Ancestors
<1>1. CASE Reset(d)
  <2>1. /\ dev'[d] = Booted
        /\ \A y \in Devices \ {d} :
             /\ down'[y] = down[y] /\ readyByte'[y] = readyByte[y]
             /\ dev'[y] = IF y \in Downwards(d) /\ dev[y].link = "up"
                            THEN [dev[y] EXCEPT !.link = "on"] ELSE dev[y]
    BY <1>1 DEF Reset, TypeOK
  <2>2. d \in Downwards(d)
    BY Ancestors
  <2>3. \A y \in Devices : [dev[y] EXCEPT !.link = "on"].link = "on"
    BY DEF TypeOK, DeviceStates
  <2>4. x # d
    BY <2>1, FreshFields
  <2>5. x \notin Downwards(d)
    <3>1. CASE x \in Downwards(d) /\ dev[x].link = "up"
      <4>1. dev'[x] = [dev[x] EXCEPT !.link = "on"]
        BY <2>1, <2>4, <3>1
      <4> QED BY <2>3, <4>1
    <3>2. CASE x \in Downwards(d) /\ dev[x].link # "up"
      BY <2>1, <2>4, <3>2
    <3> QED BY <3>1, <3>2
  <2>6. \A e \in Upwards(x) : e \in Devices /\ e \notin Downwards(d)
    BY <1>0, <2>5, Ancestors
  <2>7. \A e \in Upwards(x) : dev'[e] = dev[e] /\ down'[e] = down[e] /\ readyByte'[e] = readyByte[e]
    BY <2>1, <2>2, <2>6
  <2> QED BY <1>0, <2>6, <2>7 DEF ChainUp
<1>2. CASE Unplug(d)
  <2>1. \A y \in Devices :
          IF y \in Downwards(d) THEN dev'[y] = Idle
          ELSE dev'[y] = dev[y] /\ down'[y] = down[y] /\ readyByte'[y] = readyByte[y]
    BY <1>2 DEF Unplug
  <2>2. x \notin Downwards(d)
    BY <2>1, FreshFields
  <2>3. \A e \in Upwards(x) : e \in Devices /\ e \notin Downwards(d)
    BY <1>0, <2>2, Ancestors
  <2> QED BY <1>0, <2>1, <2>3 DEF ChainUp
<1>3. CASE PlugIn(d)
  <2>1. /\ dev'[d] = Booted /\ down' = down /\ readyByte' = readyByte /\ dev[d].link = "off"
        /\ \A y \in Devices \ {d} : dev'[y] = dev[y]
    BY <1>3 DEF PlugIn, TypeOK
  <2>2. x # d /\ dev[x].link = "up"
    BY <2>1, FreshFields
  <2>3. \A e \in Upwards(x) : e \in Devices /\ dev[e].link = "up"
    BY <1>0, <2>2 DEF ChainUp
  <2>4. \A e \in Upwards(x) : e # d
    BY <2>1, <2>3
  <2>5. ~Reset(d) /\ ~Unplug(d)
    <3>1. dev[d].loop = "run"
      BY <2>1 DEF LinkInvariant, Alone
    <3> QED BY <2>1, <3>1 DEF Reset, Unplug
  <2> QED BY <2>1, <2>3, <2>4, <2>5
<1> QED BY <1>1, <1>2, <1>3

(* A link that comes up.                                                   *)
LEMMA JoinParts ==
  ASSUME TypeOK, NEW d \in Devices, Join(d)
  PROVE  /\ dev[d].link = "on" /\ dev'[d].link = "up" /\ dev'[d].loop = "run" /\ down'[d] = <<>>
         /\ dev'[d].mode = None
         /\ \A e \in Above(d) : Listening(e)
         /\ d = Head1 => transfer.stage = "idle"
         /\ \A x \in Devices \ {d} : dev'[x] = dev[x] /\ down'[x] = down[x]
         /\ readyByte' = readyByte
         /\ late' = IF proto # NoProtocol \/ transfer.stage # "idle" THEN late \union {d} ELSE late
         /\ UNCHANGED <<acks, seen, proto, transfer, lost, stale, budget>>
  BY FreshFields, FreshParts DEF Join, TypeOK

(* It leaves the links of the others, and all above them, alone.           *)
LEMMA JoinKeeps ==
  ASSUME TypeOK, ChainUp, NEW d \in Devices, Join(d),
         NEW x \in Devices, x # d, dev'[x].link = "up"
  PROVE  \A e \in Upwards(x) : /\ e \in Devices /\ dev[e].link = "up" /\ dev'[e] = dev[e]
                               /\ down'[e] = down[e] /\ readyByte'[e] = readyByte[e]
<1>1. /\ dev[d].link = "on" /\ readyByte' = readyByte
      /\ \A y \in Devices \ {d} : dev'[y] = dev[y] /\ down'[y] = down[y]
  BY JoinParts
<1>2. dev[x].link = "up"
  BY <1>1
<1>3. \A e \in Upwards(x) : e \in Devices /\ dev[e].link = "up"
  BY <1>2, Ancestors DEF ChainUp
<1> QED BY <1>1, <1>3

(* Power and links keep the order of the starts.                           *)
LEMMA PowerChain ==
  ASSUME TypeOK, LinkInvariant, ChainUp, Rested, StartedBelow, NEW d \in Devices,
         Reset(d) \/ Unplug(d) \/ PlugIn(d) \/ Join(d)
  PROVE  ChainUp' /\ Rested' /\ StartedBelow'
<1>0. \A x \in Devices : readyByte[x] \in Nat
  BY DEF TypeOK
<1>1. Rested'
  <2>1. \A x \in Devices : readyByte'[x] \in {readyByte[x], 0}
    BY PowerParts
  <2>2. ASSUME NEW x \in Devices
        PROVE  /\ dev'[x].loop = "run" => ~dev'[x].told /\ ~dev'[x].belowReady /\ dev'[x].count = 0
               /\ readyByte'[x] > 0 => Started(x)'
    <3>1. \/ dev'[x] = dev[x]
          \/ /\ dev'[x].loop = "run" /\ ~dev'[x].told
             /\ ~dev'[x].belowReady /\ dev'[x].count = 0
             /\ readyByte'[x] = 0
          \/ /\ dev'[x].loop = dev[x].loop /\ dev'[x].told = dev[x].told
             /\ dev'[x].belowReady = dev[x].belowReady
             /\ dev'[x].count = dev[x].count
      BY PowerParts
    <3> QED BY <1>0, <2>1, <3>1 DEF Rested, Started
  <2> QED BY <2>2 DEF Rested
<1>2. ASSUME NEW x \in Devices, dev'[x].link = "up"
      PROVE  \A e \in Upwards(x) : dev'[e].link = "up" /\ (Started(e)' => Started(x)')
  <2>1. CASE Reset(d) \/ Unplug(d) \/ PlugIn(d)
    <3>1. \A e \in Upwards(x) : dev[e].link = "up" /\ dev'[e] = dev[e] /\ e \in Devices
      BY <1>2, <2>1, PowerKeeps
    <3>2. x \in Upwards(x)
      BY Ancestors
    <3> QED BY <3>1, <3>2 DEF StartedBelow, Started
  <2>2. CASE Join(d) /\ x # d
    <3>1. \A e \in Upwards(x) : dev[e].link = "up" /\ dev'[e] = dev[e] /\ e \in Devices
      BY <1>2, <2>2, JoinKeeps
    <3>2. x \in Upwards(x)
      BY Ancestors
    <3> QED BY <3>1, <3>2 DEF StartedBelow, Started
  <2>3. CASE Join(d) /\ x = d
    <3>1. /\ dev[d].link = "on" /\ dev'[d].link = "up" /\ dev'[d].loop = "run"
          /\ \A e \in Above(d) : Listening(e)
          /\ \A y \in Devices \ {d} : dev'[y] = dev[y]
      BY <2>3, JoinParts
    <3>2. ~Started(d)'
      BY <3>1 DEF Started
    <3>3. CASE d = Head1
      BY <2>3, <3>1, <3>2, <3>3, Ancestors
    <3>4. CASE d # Head1
      <4>1. PICK a \in Above(d) : TRUE
        BY <3>4, HasAbove
      <4>2. a \in Devices /\ \A e \in Upwards(d) : e = d \/ e \in Upwards(a)
        BY AboveIs, Ancestors
      <4>3. dev[a].link = "up" /\ dev[a].loop = "run"
        BY <3>1 DEF Listening
      <4>4. ~Started(a)
        BY <4>3 DEF Started
      <4>5. \A e \in Upwards(a) : dev[e].link = "up" /\ ~Started(e) /\ e \in Devices
        BY <4>2, <4>3, <4>4, Ancestors DEF ChainUp, StartedBelow
      <4>6. \A e \in Upwards(a) : dev'[e] = dev[e]
        BY <3>1, <4>5
      <4>7. \A e \in Upwards(a) : dev'[e].link = "up" /\ ~Started(e)'
        BY <4>5, <4>6 DEF Started
      <4> QED BY <2>3, <3>1, <3>2, <4>2, <4>7
    <3> QED BY <3>3, <3>4
  <2> QED BY <2>1, <2>2, <2>3
<1>3. ChainUp'
  BY <1>2 DEF ChainUp, Upwards
<1>4. StartedBelow'
  BY <1>2 DEF StartedBelow, Upwards
<1> QED BY <1>1, <1>3, <1>4

(* The coordinator takes ready bytes.                                      *)
LEMMA CoordinatorChain ==
  ASSUME TypeOK, ChainUp, Rested, StartedBelow,
         \/ CoordinatorStep \/ BeginUpgrade \/ CancelProtocol \/ SendCancelAll
         \/ WriteChunk("garbled")
  PROVE  ChainUp' /\ Rested' /\ StartedBelow'
<1>1. dev' = dev /\ \A x \in Devices : readyByte[x] \in Nat
  BY CoordinatorType DEF TypeOK
<1>2. \A x \in Devices : readyByte'[x] > 0 => readyByte[x] > 0
  <2>1. CASE ReadReady
    <3>1. readyByte[Head1] > 0 /\ readyByte' = [readyByte EXCEPT ![Head1] = @ - 1]
      BY <2>1 DEF ReadReady
    <3> QED BY <3>1 DEF TypeOK
  <2>2. CASE ~ReadReady
    <3>1. UNCHANGED readyByte
      BY <2>2 DEF CoordinatorStep, BeginUpgrade, CancelProtocol, SendCancelAll,
           WriteChunk, PollProtocol, RecvAck, Disconnected, Connected,
           EnterUpgradeMode, ReadTimesOut, deviceVars
    <3> QED BY <3>1
  <2> QED BY <2>1, <2>2
<1>3. \A x : Started(x)' <=> Started(x)
  BY <1>1 DEF Started
<1>4. Rested'
  BY <1>1, <1>2, <1>3 DEF Rested
<1>5. ChainUp' /\ StartedBelow'
  BY <1>1, <1>3 DEF ChainUp, StartedBelow, Upwards
<1> QED BY <1>4, <1>5

-----------------------------------------------------------------------------
(* EnterUpgradeMode on its way.                                            *)

(* A queue in which no chunk comes before EnterUpgradeMode, and its head.  *)
LEMMA AheadTail ==
  ASSUME NEW q \in Seq(Frames), q # <<>>, Ahead(q)
  PROVE  /\ Head(q).kind \notin ChunkKinds
         /\ Head(q).kind # "Enter" => Ahead(Tail(q))
<1>1. /\ Len(q) \in Nat \ {0} /\ Tail(q) \in Seq(Frames) /\ Len(Tail(q)) = Len(q) - 1
      /\ Head(q) = q[1] /\ \A n \in 1 .. Len(q) - 1 : Tail(q)[n] = q[n + 1]
  BY NoneOfTail
<1>2. Head(q).kind \notin ChunkKinds
  BY <1>1 DEF Ahead
<1>3. ASSUME Head(q).kind # "Enter", NEW n \in 1 .. Len(q) - 1, q[n + 1].kind \in ChunkKinds
      PROVE  \E m \in 1 .. Len(q) - 1 : m < n /\ q[m + 1].kind = "Enter"
  <2>1. PICK k \in 1 .. Len(q) : k < n + 1 /\ q[k].kind = "Enter"
    BY <1>1, <1>3 DEF Ahead
  <2>2. k # 1
    BY <1>1, <1>3, <2>1
  <2>3. k - 1 \in 1 .. Len(q) - 1 /\ k - 1 < n /\ k - 1 + 1 = k
    BY <1>1, <1>3, <2>1, <2>2
  <2> QED BY <2>1, <2>3
<1>4. Head(q).kind # "Enter" => Ahead(Tail(q))
  BY <1>1, <1>3 DEF Ahead
<1> QED BY <1>2, <1>4

(* Something is put behind it.                                             *)
LEMMA AheadAppend ==
  ASSUME NEW q \in Seq(Frames), NEW f \in Frames, Ahead(q),
         f.kind \in ChunkKinds => ~NoneOf(q, {"Enter"})
  PROVE  Ahead(Append(q, f))
<1>1. /\ Len(q) \in Nat /\ Len(Append(q, f)) = Len(q) + 1
      /\ \A n \in 1 .. Len(q) : Append(q, f)[n] = q[n]
      /\ Append(q, f)[Len(q) + 1] = f
  BY AppendProperties, LenProperties
<1>2. ASSUME NEW n \in 1 .. Len(q) + 1, Append(q, f)[n].kind \in ChunkKinds
      PROVE  \E m \in 1 .. Len(q) : m < n /\ q[m].kind = "Enter"
  <2>1. CASE n = Len(q) + 1
    <3>1. PICK m \in 1 .. Len(q) : q[m].kind = "Enter"
      BY <1>1, <1>2, <2>1 DEF NoneOf
    <3> QED BY <1>1, <2>1, <3>1
  <2>2. CASE n # Len(q) + 1
    BY <1>1, <1>2, <2>2 DEF Ahead
  <2> QED BY <2>1, <2>2
<1> QED BY <1>1, <1>2 DEF Ahead

(* A frame stays in a queue until it is at the head.                       *)
LEMMA SomeKept ==
  ASSUME NEW q \in Seq(Frames), NEW kinds, ~NoneOf(q, kinds)
  PROVE  /\ q # <<>> /\ Head(q).kind \notin kinds => ~NoneOf(Tail(q), kinds)
         /\ \A f \in Frames : ~NoneOf(Append(q, f), kinds)
<1>1. PICK n \in 1 .. Len(q) : q[n].kind \in kinds
  BY DEF NoneOf
<1>2. Len(q) \in Nat
  BY LenProperties
<1>3. ASSUME q # <<>>, Head(q).kind \notin kinds PROVE ~NoneOf(Tail(q), kinds)
  <2>1. /\ Len(Tail(q)) = Len(q) - 1 /\ Head(q) = q[1]
        /\ \A m \in 1 .. Len(q) - 1 : Tail(q)[m] = q[m + 1]
    BY <1>3, NoneOfTail
  <2>2. n - 1 \in 1 .. Len(q) - 1 /\ n - 1 + 1 = n
    BY <1>1, <1>2, <1>3, <2>1
  <2> QED BY <1>1, <2>1, <2>2 DEF NoneOf
<1>4. ASSUME NEW f \in Frames PROVE ~NoneOf(Append(q, f), kinds)
  <2>1. Len(Append(q, f)) = Len(q) + 1 /\ Append(q, f)[n] = q[n]
    BY AppendProperties
  <2>2. n \in 1 .. Len(q) + 1
    BY <1>2
  <2> QED BY <1>1, <2>1, <2>2 DEF NoneOf
<1> QED BY <1>3, <1>4

-----------------------------------------------------------------------------
(* A device takes a frame and hands it on to the one below, or to none.    *)
Moved(x, to) ==
  /\ to \in {{}, Below(x)} /\ down[x] # <<>>
  /\ down'[x] = Tail(down[x])
  /\ \A d \in Devices \ {x} :
       down'[d] = IF d \in to THEN Append(down[d], Head(down[x])) ELSE down[d]

(* So it goes when a frame is read, and when a chunk is.                   *)
LEMMA FrameTaken ==
  ASSUME TypeOK, NEW x \in Devices
  PROVE  /\ Recv(x) => Moved(x, Below(x))
         /\ ReadChunk(x) => Moved(x, IF dev[x].below THEN Below(x) ELSE {})
<1>1. down[x] # <<>> => Head(down[x]) \in Frames
  BY HeadType
<1>2. Recv(x) => Moved(x, Below(x))
  <2> SUFFICES ASSUME Recv(x) PROVE Moved(x, Below(x))
    OBVIOUS
  <2> DEFINE f == Head(down[x])
             to == Below(x)
  <2>1. down[x] # <<>> /\ down' = Put([down EXCEPT ![x] = Tail(@)], to, f)
    BY DEF Recv
  <2>2. f \in Frames /\ to \in {{}, Below(x)}
    BY <1>1, <2>1
  <2> HIDE DEF f, to
  <2>3. /\ down'[x] = Tail(down[x])
        /\ \A d \in Devices \ {x} : down'[d] = IF d \in to THEN Append(down[d], f) ELSE down[d]
    BY <2>1, <2>2, PutBelow
  <2> QED BY <2>1, <2>2, <2>3 DEF Moved, f, to
<1>3. ReadChunk(x) => Moved(x, IF dev[x].below THEN Below(x) ELSE {})
  <2> SUFFICES ASSUME ReadChunk(x) PROVE Moved(x, IF dev[x].below THEN Below(x) ELSE {})
    OBVIOUS
  <2> DEFINE f == Head(down[x])
             to == IF dev[x].below THEN Below(x) ELSE {}
  <2>1. down[x] # <<>> /\ down' = Put([down EXCEPT ![x] = Tail(@)], to, f)
    BY DEF ReadChunk
  <2>2. f \in Frames /\ to \in {{}, Below(x)}
    BY <1>1, <2>1
  <2> HIDE DEF f, to
  <2>3. /\ down'[x] = Tail(down[x])
        /\ \A d \in Devices \ {x} : down'[d] = IF d \in to THEN Append(down[d], f) ELSE down[d]
    BY <2>1, <2>2, PutBelow
  <2> QED BY <2>1, <2>2, <2>3 DEF Moved, f, to
<1> QED BY <1>2, <1>3

(* What the steps of a device leave alone.                                 *)
LEMMA InnerRest ==
  ASSUME NEW d \in Devices, Inner(d)
  PROVE  UNCHANGED <<seen, proto, transfer, lost, late, stale, budget>>
  BY DEF Inner, Recv, PollMode, ReadChunk, Signal, Confirm, Verify, Switch, history

(* Steps that leave the queues alone and bring nobody out of a loop or in. *)
LEMMA StillEnter ==
  ASSUME EnterFirst, NoEnter, PortLost, UNCHANGED <<down, seen, lost, transfer>>,
         \A x \in Devices : /\ dev'[x].link = dev[x].link
                            /\ dev'[x].loop = "run" <=> dev[x].loop = "run"
  PROVE  EnterFirst' /\ NoEnter' /\ PortLost'
<1>1. \A x \in Devices : Listening(x)' <=> Listening(x)
  BY DEF Listening
<1>2. Port' = Port
  BY DEF Port
<1>3. NoEnter'
  BY <1>1 DEF NoEnter
<1>4. PortLost'
  BY <1>2 DEF PortLost
<1>5. ASSUME transfer.stage \in {"write", "read"}, Head1 \in Devices, Listening(Head1)'
      PROVE  ~NoneOf(down[Head1], {"Enter"})
  BY <1>1, <1>5 DEF EnterFirst
<1>6. ASSUME NEW d \in Devices \ {Head1}, NEW e \in Above(d), Listening(d)', dev'[e].loop # "run"
      PROVE  ~NoneOf(down[d], {"Enter"})
  BY <1>1, <1>6, Neighbours DEF EnterFirst
<1>7. \A d \in Devices : Listening(d)' => Ahead(down[d])
  BY <1>1 DEF EnterFirst
<1>8. EnterFirst'
  BY <1>5, <1>6, <1>7 DEF EnterFirst, Ahead
<1> QED BY <1>3, <1>4, <1>8

(* EnterUpgradeMode is handed on before the device enters.                 *)
LEMMA RecvEnter ==
  ASSUME TypeOK, EnterFirst, NoEnter, PortLost, NEW x \in Devices, Recv(x)
  PROVE  EnterFirst' /\ NoEnter' /\ PortLost'
<1> DEFINE f == Head(down[x])
<1>1. /\ dev[x].link = "up" /\ dev[x].loop = "run" /\ down[x] # <<>>
      /\ \A y \in Devices \ {x} : dev'[y] = dev[y]
      /\ dev'[x].link = "up"
      /\ dev'[x].loop = "run" => f.kind \notin {"Enter"} \union ChunkKinds
      /\ dev'[x].loop # "run" => f.kind \in {"Enter"} \union ChunkKinds
  BY RecvParts DEF ChunkKinds
<1>2. /\ down'[x] = Tail(down[x]) /\ UNCHANGED <<seen, lost, transfer>>
      /\ \A d \in Devices \ {x} : down'[d] = IF d \in Below(x) THEN Append(down[d], f) ELSE down[d]
  BY FrameTaken, InnerRest DEF Moved, Inner
<1>3. f \in Frames /\ \A y \in Devices : down[y] \in Seq(Frames)
  BY <1>1, HeadType DEF TypeOK
<1>4. /\ Listening(x) /\ (Listening(x)' <=> dev'[x].loop = "run")
      /\ \A y \in Devices \ {x} : Listening(y)' <=> Listening(y)
  BY <1>1 DEF Listening
<1>5. Ahead(down[x]) /\ f.kind \notin ChunkKinds /\ (f.kind # "Enter" => Ahead(Tail(down[x])))
  BY <1>1, <1>3, <1>4, AheadTail DEF EnterFirst
<1> HIDE DEF f
<1>6. ASSUME NEW d \in Devices, Listening(d)'
      PROVE  /\ Ahead(down'[d]) /\ Listening(d)
             /\ ~NoneOf(down[d], {"Enter"}) => ~NoneOf(down'[d], {"Enter"})
             /\ NoneOf(down[x], {"Enter"}) /\ NoneOf(down[d], {"Enter"}) => NoneOf(down'[d], {"Enter"})
  <2>1. CASE d = x
    <3>1. f.kind \notin {"Enter"} \union ChunkKinds
      BY <1>1, <1>4, <1>6, <2>1
    <3>2. ~NoneOf(down[x], {"Enter"}) => ~NoneOf(Tail(down[x]), {"Enter"})
      BY <1>1, <1>3, <3>1, SomeKept DEF f
    <3>3. NoneOf(down[x], {"Enter"}) => NoneOf(Tail(down[x]), {"Enter"})
      BY <1>1, <1>3, NoneOfTail
    <3> QED BY <1>2, <1>4, <1>5, <2>1, <3>1, <3>2, <3>3
  <2>2. CASE d # x /\ d \in Below(x)
    <3>1. down'[d] = Append(down[d], f) /\ Listening(d) /\ Ahead(down[d])
      BY <1>2, <1>4, <1>6, <2>2 DEF EnterFirst
    <3>2. Ahead(Append(down[d], f))
      BY <1>3, <1>5, <3>1, AheadAppend
    <3>3. ~NoneOf(down[d], {"Enter"}) => ~NoneOf(Append(down[d], f), {"Enter"})
      BY <1>3, SomeKept
    <3>4. NoneOf(down[x], {"Enter"}) => f.kind \notin {"Enter"}
      BY <1>1, <1>3, NoneOfTail DEF f
    <3>5. NoneOf(down[d], {"Enter"}) /\ f.kind \notin {"Enter"} => NoneOf(Append(down[d], f), {"Enter"})
      BY <1>3, NoneOfAppend
    <3> QED BY <3>1, <3>2, <3>3, <3>4, <3>5
  <2>3. CASE d # x /\ d \notin Below(x)
    BY <1>2, <1>4, <1>6, <2>3 DEF EnterFirst
  <2> QED BY <2>1, <2>2, <2>3
<1>7. ASSUME NEW d \in Devices \ {Head1}, NEW e \in Above(d), Listening(d)', dev'[e].loop # "run"
      PROVE  ~NoneOf(down'[d], {"Enter"})
  <2>1. CASE e # x
    <3>1. dev[e].loop # "run"
      BY <1>1, <1>7, <2>1, Neighbours
    <3> QED BY <1>6, <1>7, <3>1 DEF EnterFirst
  <2>2. CASE e = x
    <3>1. f.kind = "Enter"
      BY <1>1, <1>5, <1>7, <2>2
    <3>2. d # x /\ dev[d].link = "up"
      BY <1>6, <1>7, <2>2, Neighbours DEF Listening
    <3>3. down'[d] = Append(down[d], f) /\ down[d] \in Seq(Frames)
      BY <1>2, <1>3, <1>7, <2>2, <3>2, BelowIs
    <3>4. Len(Append(down[d], f)) = Len(down[d]) + 1 /\ Append(down[d], f)[Len(down[d]) + 1] = f
          /\ Len(down[d]) \in Nat
      BY <1>3, <3>3, AppendProperties, LenProperties
    <3> QED BY <3>1, <3>3, <3>4 DEF NoneOf
  <2> QED BY <2>1, <2>2
<1>8. EnterFirst'
  BY <1>2, <1>6, <1>7 DEF EnterFirst, Ahead
<1>9. NoEnter'
  BY <1>2, <1>4, <1>6 DEF NoEnter
<1>10. PortLost'
  <2>1. Port' = Port
    BY <1>2 DEF Port
  <2>2. Head1 \in Devices => dev'[Head1].link = dev[Head1].link
    BY <1>1
  <2> QED BY <1>2, <2>1, <2>2 DEF PortLost
<1> QED BY <1>8, <1>9, <1>10

(* A chunk is handed on to a device that takes part.                       *)
LEMMA ChunkEnter ==
  ASSUME TypeOK, LinkInvariant, EnterFirst, NoEnter, PortLost, NEW x \in Devices, ReadChunk(x)
  PROVE  EnterFirst' /\ NoEnter' /\ PortLost'
<1> DEFINE f == Head(down[x])
           to == IF dev[x].below THEN Below(x) ELSE {}
<1>1. /\ dev[x].loop = "transfer" /\ dev[x].belowReady
      /\ \A y \in Devices \ {x} : dev'[y] = dev[y]
      /\ dev'[x].link = dev[x].link /\ dev'[x].loop # "run"
  BY ReadChunkParts
<1>2. /\ UNCHANGED <<seen, lost, transfer>> /\ to \subseteq Below(x)
      /\ \A d \in Devices \ {x} : down'[d] = IF d \in to THEN Append(down[d], f) ELSE down[d]
  BY FrameTaken, InnerRest DEF Moved, Inner
<1> HIDE DEF f, to
<1>3. /\ ~Listening(x) /\ ~Listening(x)'
      /\ \A y \in Devices \ {x} : Listening(y)' <=> Listening(y)
  BY <1>1 DEF Listening
<1>4. ASSUME NEW d \in Devices, Listening(d)' PROVE Listening(d) /\ down'[d] = down[d]
  <2>1. d # x /\ Listening(d)
    BY <1>3, <1>4
  <2>2. CASE d \in to
    <3>1. d \in Devices \ {Head1} /\ x \in Above(d) /\ dev[d].link = "up"
      BY <1>2, <2>2, BelowFacts
    <3>2. Linked(dev[x], dev[d], down[d], readyByte[d])
      BY <1>1, <3>1 DEF LinkInvariant, Pair
    <3>3. dev[d].loop = "transfer"
      BY <1>1, <3>2 DEF Linked
    <3> QED BY <2>1, <3>3 DEF Listening
  <2>3. CASE d \notin to
    BY <1>2, <2>1, <2>3
  <2> QED BY <2>1, <2>2, <2>3
<1>5. ASSUME NEW d \in Devices \ {Head1}, NEW e \in Above(d), Listening(d)', dev'[e].loop # "run"
      PROVE  ~NoneOf(down'[d], {"Enter"})
  <2>1. dev[e].loop # "run"
    BY <1>1, <1>5, Neighbours
  <2> QED BY <1>4, <1>5, <2>1 DEF EnterFirst
<1>6. EnterFirst'
  BY <1>2, <1>4, <1>5 DEF EnterFirst, Ahead
<1>7. NoEnter'
  BY <1>2, <1>4 DEF NoEnter
<1>8. PortLost'
  <2>1. Port' = Port
    BY <1>2 DEF Port
  <2>2. Head1 \in Devices => dev'[Head1].link = dev[Head1].link
    BY <1>1
  <2> QED BY <1>2, <2>1, <2>2 DEF PortLost
<1> QED BY <1>6, <1>7, <1>8

(* The steps of a device, so far.                                          *)
LEMMA InnerEnter ==
  ASSUME TypeOK, LinkInvariant, EnterFirst, NoEnter, PortLost, NEW d \in Devices, Inner(d)
  PROVE  EnterFirst' /\ NoEnter' /\ PortLost'
<1>1. CASE Recv(d)
  BY <1>1, RecvEnter
<1>2. CASE ReadChunk(d)
  BY <1>2, ChunkEnter
<1>3. CASE PollMode(d) \/ Confirm(d) \/ Verify(d) \/ Switch(d) \/ Signal(d)
  <2>1. UNCHANGED <<down, seen, lost, transfer>>
    BY <1>3 DEF PollMode, Confirm, Verify, Switch, Signal
  <2>2. ASSUME NEW x \in Devices
        PROVE  dev'[x].link = dev[x].link /\ (dev'[x].loop = "run" <=> dev[x].loop = "run")
    <3>1. CASE PollMode(d)
      BY <3>1, PollModeParts
    <3>2. CASE Confirm(d) \/ Verify(d) \/ Switch(d)
      BY <3>2, EndParts
    <3>3. CASE Signal(d)
      BY <3>3, SignalParts
    <3> QED BY <1>3, <3>1, <3>2, <3>3
  <2> QED BY <2>1, <2>2, StillEnter
<1> QED BY <1>1, <1>2, <1>3 DEF Inner

(* Power and links.                                                        *)
LEMMA PowerEnter ==
  ASSUME TypeOK, LinkInvariant, ChainUp, EnterFirst, NoEnter, PortLost, NEW d \in Devices,
         Reset(d) \/ Unplug(d) \/ PlugIn(d) \/ Join(d)
  PROVE  EnterFirst' /\ NoEnter' /\ PortLost'
<1>0. transfer' = transfer /\ seen' = seen
  BY DEF Reset, Unplug, PlugIn, Join
<1>1. ASSUME NEW x \in Devices, Listening(x)'
      PROVE  \/ /\ Join(d) /\ x = d /\ down'[x] = <<>> /\ (x = Head1 => transfer.stage = "idle")
                /\ \A e \in Above(x) : dev'[e].loop = "run"
             \/ \A e \in Upwards(x) : /\ e \in Devices /\ dev[e].link = "up" /\ dev'[e] = dev[e]
                                      /\ down'[e] = down[e]
  <2>1. CASE Reset(d) \/ Unplug(d) \/ PlugIn(d)
    BY <1>1, <2>1, PowerKeeps DEF Listening
  <2>2. CASE Join(d) /\ x # d
    BY <1>1, <2>2, JoinKeeps DEF Listening
  <2>3. CASE Join(d) /\ x = d
    <3>1. \A e \in Above(d) : e \in Devices \ {d}
      BY AboveIs, Ancestors
    <3> QED BY <2>3, <3>1, JoinParts DEF Listening
  <2> QED BY <2>1, <2>2, <2>3
<1>2. Ahead(<<>>) /\ NoneOf(<<>>, {"Enter"})
  BY DEF Ahead, NoneOf
<1>3. ASSUME NEW x \in Devices, Listening(x)'
      PROVE  /\ Ahead(down'[x])
             /\ transfer.stage \in {"idle", "ready"} => NoneOf(down'[x], {"Enter"})
             /\ transfer.stage \in {"write", "read"} /\ x = Head1 => ~NoneOf(down'[x], {"Enter"})
             /\ \A e \in Above(x) : dev'[e].loop # "run" => ~NoneOf(down'[x], {"Enter"})
  <2>1. CASE down'[x] = <<>> /\ (x = Head1 => transfer.stage = "idle")
             /\ \A e \in Above(x) : dev'[e].loop = "run"
    BY <1>2, <2>1
  <2>2. CASE \A e \in Upwards(x) : /\ e \in Devices /\ dev[e].link = "up" /\ dev'[e] = dev[e]
                                   /\ down'[e] = down[e]
    <3>1. Listening(x) /\ down'[x] = down[x]
      BY <1>3, <2>2, Ancestors DEF Listening
    <3>2. ASSUME NEW e \in Above(x), dev'[e].loop # "run" PROVE ~NoneOf(down'[x], {"Enter"})
      <4>1. x # Head1 /\ e \in Upwards(x)
        BY AboveIs
      <4> QED BY <2>2, <3>1, <3>2, <4>1 DEF EnterFirst
    <3> QED BY <3>1, <3>2 DEF EnterFirst, NoEnter
  <2> QED BY <1>1, <1>3, <2>1, <2>2
<1>4. EnterFirst'
  BY <1>0, <1>3 DEF EnterFirst, Ahead
<1>5. NoEnter'
  BY <1>0, <1>3 DEF NoEnter
<1>6. ASSUME transfer.stage \in {"write", "read"}, Head1 \in Devices, Head1 \notin Port'
      PROVE  dev'[Head1].link # "up"
  <2>1. SUFFICES ASSUME dev'[Head1].link = "up" PROVE FALSE
    OBVIOUS
  <2>2. CASE Reset(d) \/ Unplug(d)
    <3>1. dev[Head1].link = "up" /\ Head1 \notin Downwards(d)
      BY <1>6, <2>1, <2>2, PowerKeeps, Ancestors
    <3>2. lost' = lost \union (Downwards(d) \intersect seen)
      BY <2>2 DEF Reset, Unplug, LinksLost
    <3>3. Head1 \notin Port
      BY <1>0, <1>6, <3>1, <3>2 DEF Port
    <3> QED BY <1>6, <3>1, <3>3 DEF PortLost
  <2>3. CASE PlugIn(d)
    <3>1. dev[Head1].link = "up"
      BY <1>6, <2>1, <2>3, PowerKeeps, Ancestors
    <3>2. lost' = lost
      BY <2>3 DEF PlugIn
    <3>3. Head1 \notin Port
      BY <1>0, <1>6, <3>2 DEF Port
    <3> QED BY <1>6, <3>1, <3>3 DEF PortLost
  <2>4. CASE Join(d)
    <3>1. d # Head1 /\ dev'[Head1] = dev[Head1] /\ lost' = lost
      BY <1>6, <2>4, JoinParts
    <3>2. Head1 \notin Port
      BY <1>0, <1>6, <3>1 DEF Port
    <3> QED BY <1>6, <2>1, <3>1, <3>2 DEF PortLost
  <2> QED BY <2>2, <2>3, <2>4
<1>7. PortLost'
  BY <1>0, <1>6 DEF PortLost
<1> QED BY <1>4, <1>5, <1>7

(* The protocol runs, and what is not to a step's point is unchanged.      *)
Coordinator ==
  CoordinatorStep \/ BeginUpgrade \/ CancelProtocol \/ SendCancelAll \/ WriteChunk("garbled")

(* A frame to all is put on the first link, if the port is there.          *)
LEMMA Sent ==
  ASSUME TypeOK, NEW kind \in {"Prepare", "Cancel", "Enter", "chunk", "garbled"},
         down' = ToAll(Frame(kind))
  PROVE  /\ Frame(kind) \in Frames /\ Frame(kind).kind = kind
         /\ Frame(kind).upgrade = budget.upgrades
         /\ Port \in {{}, {Head1}}
         /\ \A x \in Devices : /\ down[x] \in Seq(Frames)
                               /\ down'[x] = IF x \in Port THEN Append(down[x], Frame(kind))
                                             ELSE down[x]
<1>1. Frame(kind) \in Frames /\ Frame(kind).kind = kind /\ Frame(kind).upgrade = budget.upgrades
  BY DEF Frame, Frames, TypeOK
<1>2. Port \in {{}, {Head1}}
  BY DEF Port
<1> QED BY <1>1, <1>2 DEF ToAll, Put, TypeOK

(* The steps of the coordinator that do not send.                          *)
LEMMA SilentEnter ==
  ASSUME TypeOK, StartedBelow, Rested, EnterFirst, NoEnter, PortLost, dev' = dev, down' = down,
         \/ UNCHANGED <<seen, lost, transfer>>
         \/ Polling /\ transfer'.stage \in {"idle", "ready"}
         \/ ReadReady
         \/ ReadTimesOut
  PROVE  EnterFirst' /\ NoEnter' /\ PortLost'
<1>1. CASE UNCHANGED <<seen, lost, transfer>>
  BY <1>1, StillEnter
<1>2. CASE Polling /\ transfer'.stage \in {"idle", "ready"}
  <2>1. transfer.stage \in {"idle", "ready"} /\ transfer'.stage \notin {"write", "read"}
    BY <1>2 DEF Polling
  <2>2. \A x : Listening(x)' <=> Listening(x)
    BY DEF Listening
  <2>3. EnterFirst'
    BY <2>1, <2>2 DEF EnterFirst, Ahead
  <2> QED BY <2>1, <2>2, <2>3 DEF NoEnter, PortLost
<1>3. CASE ReadReady \/ ReadTimesOut
  <2>1. /\ transfer.stage = "read" /\ transfer'.stage \in {"idle", "write"}
        /\ UNCHANGED <<seen, lost>>
        /\ transfer'.stage = "write" => ReadReady
    BY <1>3 DEF ReadReady, ReadTimesOut, TypeOK
  <2>2. \A x : Listening(x)' <=> Listening(x)
    BY DEF Listening
  <2>3. EnterFirst'
    BY <2>1, <2>2 DEF EnterFirst, Ahead
  <2>4. Port' = Port
    BY <2>1 DEF Port
  <2>5. PortLost'
    BY <2>1, <2>4 DEF PortLost
  <2>6. ASSUME NEW x \in Devices, Listening(x) PROVE NoneOf(down[x], {"Enter"})
    <3>1. CASE ReadReady
      <4>1. readyByte[Head1] > 0 /\ Head1 \in Devices /\ Head1 \in Upwards(x)
        BY <3>1, Ancestors DEF ReadReady
      <4>2. Started(Head1)
        BY <4>1 DEF Rested
      <4>3. Started(x)
        BY <2>6, <4>1, <4>2 DEF StartedBelow, Listening
      <4> QED BY <2>6, <4>3 DEF Started, Listening
    <3>2. CASE ReadTimesOut
      <4>1. down[x] = <<>>
        BY <2>6, <3>2 DEF ReadTimesOut, Quiet
      <4> QED BY <4>1 DEF NoneOf
    <3> QED BY <1>3, <3>1, <3>2
  <2>7. NoEnter'
    BY <2>2, <2>6 DEF NoEnter
  <2> QED BY <2>3, <2>5, <2>7
<1> QED BY <1>1, <1>2, <1>3

(* The steps that do.                                                      *)
LEMMA SendingEnter ==
  ASSUME TypeOK, ChainUp, EnterFirst, NoEnter, PortLost, dev' = dev,
         NEW kind \in {"Prepare", "Cancel", "Enter", "chunk", "garbled"},
         down' = ToAll(Frame(kind)), UNCHANGED <<seen, lost>>,
         \/ kind \in {"Prepare", "Cancel"} /\ transfer.stage \in {"idle", "ready"}
            /\ transfer' = transfer
         \/ kind = "Enter" /\ EnterUpgradeMode
         \/ kind \in ChunkKinds /\ WriteChunk(kind)
  PROVE  EnterFirst' /\ NoEnter' /\ PortLost'
<1> DEFINE f == Frame(kind)
<1>1. /\ f \in Frames /\ f.kind = kind /\ Port \in {{}, {Head1}}
      /\ \A x \in Devices : /\ down[x] \in Seq(Frames)
                            /\ down'[x] = IF x \in Port THEN Append(down[x], f) ELSE down[x]
  BY Sent
<1> HIDE DEF f
<1>2. Port' = Port /\ \A x : Listening(x)' <=> Listening(x)
  BY DEF Port, Listening
<1>3. \/ /\ kind \in {"Prepare", "Cancel"} /\ transfer.stage \in {"idle", "ready"}
         /\ transfer'.stage \in {"idle", "ready"}
      \/ /\ kind = "Enter" /\ transfer.stage = "ready"
         /\ transfer'.stage = IF Port = {} THEN "idle" ELSE "write"
      \/ /\ kind \in ChunkKinds /\ transfer.stage = "write"
         /\ transfer'.stage = IF Port = {} THEN "idle" ELSE "read"
  BY DEF EnterUpgradeMode, WriteChunk, TypeOK
<1>4. ASSUME NEW x \in Devices
      PROVE  ~NoneOf(down[x], {"Enter"}) => ~NoneOf(down'[x], {"Enter"})
  <2>1. \A g \in Frames : ~NoneOf(down[x], {"Enter"}) => ~NoneOf(Append(down[x], g), {"Enter"})
    BY <1>1, SomeKept
  <2> QED BY <1>1, <2>1
<1>5. ASSUME NEW x \in Devices, Listening(x) PROVE Ahead(down'[x])
  <2>1. CASE x \in Port
    <3>1. x = Head1 /\ Head1 \in Devices /\ down'[x] = Append(down[x], f)
      BY <1>1, <2>1
    <3>2. kind \in ChunkKinds => ~NoneOf(down[x], {"Enter"})
      BY <1>3, <1>5, <3>1 DEF EnterFirst, ChunkKinds
    <3> QED BY <1>1, <1>5, <3>1, <3>2, AheadAppend DEF EnterFirst
  <2>2. CASE x \notin Port
    BY <1>1, <1>5, <2>2 DEF EnterFirst
  <2> QED BY <2>1, <2>2
<1>6. ASSUME transfer'.stage \in {"write", "read"}, Head1 \in Devices, Listening(Head1)
      PROVE  ~NoneOf(down'[Head1], {"Enter"})
  <2>1. CASE kind = "Enter"
    <3>1. Port = {Head1} /\ down'[Head1] = Append(down[Head1], f)
      BY <1>1, <1>3, <1>6, <2>1 DEF ChunkKinds
    <3>2. /\ Len(Append(down[Head1], f)) = Len(down[Head1]) + 1 /\ Len(down[Head1]) \in Nat
          /\ Append(down[Head1], f)[Len(down[Head1]) + 1] = f
      BY <1>1, <1>6, AppendProperties, LenProperties
    <3> QED BY <1>1, <2>1, <3>1, <3>2 DEF NoneOf
  <2>2. CASE kind \in ChunkKinds
    BY <1>3, <1>4, <1>6, <2>2 DEF EnterFirst, ChunkKinds
  <2> QED BY <1>3, <1>6, <2>1, <2>2
<1>7. \A d \in Devices \ {Head1} : \A e \in Above(d) :
        Listening(d) /\ dev[e].loop # "run" => ~NoneOf(down'[d], {"Enter"})
  BY <1>4 DEF EnterFirst
<1>8. EnterFirst'
  BY <1>2, <1>5, <1>6, <1>7 DEF EnterFirst, Ahead
<1>9. ASSUME transfer'.stage \in {"idle", "ready"}, NEW x \in Devices, Listening(x)
      PROVE  NoneOf(down'[x], {"Enter"})
  <2>1. CASE kind \in {"Prepare", "Cancel"}
    <3>1. transfer.stage \in {"idle", "ready"} /\ NoneOf(down[x], {"Enter"})
      BY <1>3, <1>9, <2>1 DEF NoEnter, ChunkKinds
    <3>2. NoneOf(Append(down[x], f), {"Enter"})
      BY <1>1, <2>1, <3>1, NoneOfAppend
    <3> QED BY <1>1, <3>1, <3>2
  <2>2. CASE kind = "Enter"
    <3>1. transfer.stage = "ready" /\ Port = {}
      BY <1>3, <1>9, <2>2 DEF ChunkKinds
    <3> QED BY <1>1, <1>9, <3>1 DEF NoEnter
  <2>3. CASE kind \in ChunkKinds
    <3>1. transfer.stage = "write" /\ Port = {}
      BY <1>3, <1>9, <2>3 DEF ChunkKinds
    <3>2. Head1 \in Devices /\ Head1 \in Upwards(x)
      BY Ancestors
    <3>3. dev[Head1].link # "up"
      BY <3>1, <3>2 DEF PortLost
    <3>4. dev[Head1].link = "up"
      BY <1>9, <3>2 DEF ChainUp, Listening
    <3> QED BY <3>3, <3>4
  <2> QED BY <1>3, <2>1, <2>2, <2>3
<1>10. NoEnter'
  BY <1>2, <1>9 DEF NoEnter
<1>11. PortLost'
  <2>1. transfer'.stage \in {"write", "read"} => Port # {}
    BY <1>3
  <2>2. transfer'.stage \in {"write", "read"} => Head1 \in Port
    BY <1>1, <2>1
  <2> QED BY <1>2, <2>2 DEF PortLost
<1> QED BY <1>8, <1>10, <1>11

(* All the coordinator's.                                                  *)
LEMMA CoordinatorEnter ==
  ASSUME TypeOK, ChainUp, Rested, StartedBelow, EnterFirst, NoEnter, PortLost, Numbers,
         Coordinator
  PROVE  EnterFirst' /\ NoEnter' /\ PortLost'
<1>1. dev' = dev
  BY CoordinatorType DEF Coordinator
<1>2. CASE PollProtocol
  <2>1. UNCHANGED <<seen, lost>> /\ transfer.stage \in {"idle", "ready"}
        /\ \/ down' = ToAll(Frame("Cancel")) /\ transfer' = transfer
           \/ down' = ToAll(Frame("Prepare")) /\ transfer' = transfer
           \/ down' = down /\ transfer' = [transfer EXCEPT !.stage = "ready"]
    BY <1>2 DEF PollProtocol, Polling
  <2>2. CASE down' = ToAll(Frame("Cancel")) /\ transfer' = transfer
    BY <1>1, <2>1, <2>2, SendingEnter
  <2>3. CASE down' = ToAll(Frame("Prepare")) /\ transfer' = transfer
    BY <1>1, <2>1, <2>3, SendingEnter
  <2>4. CASE down' = down /\ transfer' = [transfer EXCEPT !.stage = "ready"]
    <3>1. transfer'.stage = "ready"
      BY <2>4 DEF TypeOK
    <3> QED BY <1>1, <2>1, <2>4, <3>1, SilentEnter DEF Polling
  <2> QED BY <2>1, <2>2, <2>3, <2>4
<1>3. CASE \/ \E a \in acks : RecvAck(a)
           \/ BeginUpgrade \/ CancelProtocol
  <2>1. UNCHANGED <<down, seen, lost, transfer>>
    BY <1>3 DEF RecvAck, BeginUpgrade, CancelProtocol
  <2> QED BY <1>1, <2>1, SilentEnter
<1>4. CASE \E d \in Devices : Disconnected(d) \/ Connected(d)
  <2>1. down' = down /\ transfer' = transfer /\ Polling
    BY <1>4 DEF Disconnected, Connected
  <2>2. transfer'.stage \in {"idle", "ready"}
    BY <2>1 DEF Polling
  <2> QED BY <1>1, <2>1, <2>2, SilentEnter
<1>5. CASE SendCancelAll
  <2>1. UNCHANGED <<seen, lost, transfer>> /\ down' = ToAll(Frame("Cancel"))
        /\ transfer.stage \in {"idle", "ready"}
    BY <1>5 DEF SendCancelAll, Polling
  <2> QED BY <1>1, <2>1, SendingEnter
<1>6. CASE EnterUpgradeMode
  <2>1. UNCHANGED <<seen, lost>> /\ down' = ToAll(Frame("Enter"))
    BY <1>6 DEF EnterUpgradeMode
  <2> QED BY <1>1, <1>6, <2>1, SendingEnter
<1>7. ASSUME NEW k \in ChunkKinds, WriteChunk(k) PROVE EnterFirst' /\ NoEnter' /\ PortLost'
  <2>1. UNCHANGED <<seen, lost>> /\ down' = ToAll(Frame(k))
    BY <1>7 DEF WriteChunk
  <2> QED BY <1>1, <1>7, <2>1, SendingEnter DEF ChunkKinds
<1>8. CASE ReadReady \/ ReadTimesOut
  <2>1. down' = down
    BY <1>8 DEF ReadReady, ReadTimesOut
  <2> QED BY <1>1, <1>8, <2>1, SilentEnter
<1> QED BY <1>2, <1>3, <1>4, <1>5, <1>6, <1>7, <1>8 DEF Coordinator, CoordinatorStep, ChunkKinds

-----------------------------------------------------------------------------
(* The numbers of the upgrades, and the orders that are on their way.      *)

(* What is on the links after a frame was taken was on one before.         *)
LEMMA MovedFrames ==
  ASSUME TypeOK, NEW x \in Devices, NEW to, Moved(x, to),
         NEW g \in Devices, NEW i \in 1 .. Len(down'[g])
  PROVE  \E y \in Devices : \E j \in 1 .. Len(down[y]) : down'[g][i] = down[y][j]
<1> DEFINE f == Head(down[x])
<1>1. /\ down[x] # <<>> /\ down[x] \in Seq(Frames) /\ down[g] \in Seq(Frames)
      /\ down'[x] = Tail(down[x])
      /\ \A d \in Devices \ {x} : down'[d] = IF d \in to THEN Append(down[d], f) ELSE down[d]
  BY DEF Moved, TypeOK
<1>2. /\ Len(down[x]) \in Nat \ {0} /\ Len(Tail(down[x])) = Len(down[x]) - 1 /\ f = down[x][1]
      /\ f \in Frames
      /\ \A n \in 1 .. Len(down[x]) - 1 : Tail(down[x])[n] = down[x][n + 1]
  BY <1>1, NoneOfTail
<1> HIDE DEF f
<1>3. CASE g = x
  <2>1. i \in 1 .. Len(down[x]) - 1
    BY <1>1, <1>2, <1>3
  <2>2. i + 1 \in 1 .. Len(down[x])
    BY <1>2, <2>1
  <2>3. down'[g][i] = down[x][i + 1]
    BY <1>1, <1>2, <1>3, <2>1
  <2> QED BY <2>2, <2>3
<1>4. CASE g # x /\ g \in to
  <2>1. /\ Len(Append(down[g], f)) = Len(down[g]) + 1 /\ Len(down[g]) \in Nat
        /\ \A n \in 1 .. Len(down[g]) : Append(down[g], f)[n] = down[g][n]
        /\ Append(down[g], f)[Len(down[g]) + 1] = f
    BY <1>1, <1>2, AppendProperties, LenProperties
  <2>2. down'[g] = Append(down[g], f)
    BY <1>1, <1>4
  <2>3. CASE i = Len(down[g]) + 1
    BY <1>2, <2>1, <2>2, <2>3
  <2>4. CASE i # Len(down[g]) + 1
    BY <2>1, <2>2, <2>4
  <2> QED BY <2>3, <2>4
<1>5. CASE g # x /\ g \notin to
  BY <1>1, <1>5
<1> QED BY <1>3, <1>4, <1>5

(* The steps of a device, and of power, know of no new upgrade.            *)
LEMMA DeviceNumbers ==
  ASSUME TypeOK, LinkInvariant, Numbers, NEW d \in Devices,
         Inner(d) \/ Reset(d) \/ Unplug(d) \/ PlugIn(d) \/ Join(d)
  PROVE  Numbers' /\ UNCHANGED <<proto, transfer>> /\ budget'.upgrades = budget.upgrades
<1>1. UNCHANGED <<proto, transfer>> /\ budget'.upgrades = budget.upgrades
  <2>1. UNCHANGED <<proto, transfer>> /\ (budget' = budget \/ Fault)
    BY InnerRest DEF Reset, Unplug, PlugIn, Join, history
  <2> QED BY <2>1 DEF Fault, TypeOK
<1>2. \A n : Old(n)' <=> Old(n)
  BY <1>1 DEF Old
<1>3. ASSUME NEW x \in Devices, NEW i \in 1 .. Len(down'[x])
      PROVE  \E y \in Devices : \E j \in 1 .. Len(down[y]) : down'[x][i] = down[y][j]
  <2>1. CASE Recv(d) \/ ReadChunk(d)
    <3>1. PICK to : Moved(d, to)
      BY <2>1, FrameTaken
    <3> QED BY <3>1, MovedFrames
  <2>2. CASE PollMode(d) \/ Signal(d) \/ Confirm(d) \/ Verify(d) \/ Switch(d)
    <3>1. down' = down
      BY <2>2 DEF PollMode, Signal, Confirm, Verify, Switch
    <3> QED BY <3>1
  <2>3. CASE Reset(d) \/ Unplug(d) \/ PlugIn(d) \/ Join(d)
    <3>1. down'[x] \in {down[x], <<>>}
      BY <2>3, PowerParts
    <3>2. Len(<<>>) = 0
      OBVIOUS
    <3> QED BY <3>1, <3>2
  <2> QED BY <2>1, <2>2, <2>3 DEF Inner
<1>4. ASSUME NEW x \in Devices, dev'[x].mode # None PROVE Old(dev'[x].upgrade)
  <2>1. CASE Recv(d)
    <3>1. \/ dev'[x].mode = dev[x].mode /\ dev'[x].upgrade = dev[x].upgrade
          \/ dev'[x].mode = None
          \/ /\ Head(down[d]).kind = "Prepare" /\ dev'[x].upgrade = Head(down[d]).upgrade
             /\ down[d] # <<>>
      BY <2>1, RecvParts
    <3>2. CASE /\ Head(down[d]).kind = "Prepare" /\ dev'[x].upgrade = Head(down[d]).upgrade
               /\ down[d] # <<>>
      <4>1. Head(down[d]) = down[d][1] /\ Len(down[d]) \in Nat \ {0}
        BY <3>2, NoneOfTail DEF TypeOK
      <4>2. 1 \in 1 .. Len(down[d])
        BY <4>1
      <4> QED BY <3>2, <4>1, <4>2 DEF Numbers
    <3> QED BY <1>4, <3>1, <3>2 DEF Numbers
  <2>2. CASE ReadChunk(d)
    <3>1. dev'[x].mode = dev[x].mode /\ dev'[x].upgrade = dev[x].upgrade
      BY <2>2, ReadChunkParts
    <3> QED BY <1>4, <3>1 DEF Numbers
  <2>3. CASE Signal(d)
    <3>1. dev'[x].mode = dev[x].mode /\ dev'[x].upgrade = dev[x].upgrade
      BY <2>3, SignalParts
    <3> QED BY <1>4, <3>1 DEF Numbers
  <2>4. CASE PollMode(d)
    <3>1. /\ dev[d].mode # None /\ dev'[x].upgrade = dev[x].upgrade
          /\ x # d => dev'[x].mode = dev[x].mode
      BY <2>4, PollModeParts DEF None
    <3> QED BY <1>4, <3>1 DEF Numbers
  <2>5. CASE Confirm(d) \/ Verify(d) \/ Switch(d)
    <3>1. /\ dev'[x].upgrade = dev[x].upgrade
          /\ dev'[x].mode = dev[x].mode \/ dev[x].mode # None
      BY <2>5, EndParts DEF None
    <3> QED BY <1>4, <3>1 DEF Numbers
  <2>6. CASE Reset(d) \/ Unplug(d) \/ PlugIn(d) \/ Join(d)
    <3>1. \/ dev'[x] = dev[x]
          \/ dev'[x].mode = None
          \/ dev'[x].mode = dev[x].mode /\ dev'[x].upgrade = dev[x].upgrade
      BY <2>6, PowerParts
    <3> QED BY <1>4, <3>1 DEF Numbers
  <2> QED BY <2>1, <2>2, <2>3, <2>4, <2>5, <2>6 DEF Inner
<1>5. ASSUME NEW a \in acks' PROVE Old(a.upgrade)
  <2>1. CASE PollMode(d)
    <3>1. dev[d].mode # None
      BY <2>1, PollModeParts DEF None
    <3>2. a \in acks \/ a.upgrade = dev[d].upgrade
      BY <1>5, <2>1 DEF PollMode
    <3> QED BY <3>1, <3>2 DEF Numbers
  <2>2. CASE ~PollMode(d)
    <3>1. acks' \subseteq acks
      BY <2>2 DEF Inner, Recv, ReadChunk, Signal, Confirm, Verify, Switch, Reset, Unplug, PlugIn,
                  Join, LinksLost
    <3> QED BY <1>5, <3>1 DEF Numbers
  <2> QED BY <2>1, <2>2
<1>6. ASSUME NEW x \in Devices, NEW i \in 1 .. Len(down'[x]), down'[x][i].kind = "Prepare"
      PROVE  Old(down'[x][i].upgrade)
  <2>1. PICK y \in Devices : \E j \in 1 .. Len(down[y]) : down'[x][i] = down[y][j]
    BY <1>3
  <2>2. PICK j \in 1 .. Len(down[y]) : down'[x][i] = down[y][j]
    BY <2>1
  <2> QED BY <1>6, <2>2 DEF Numbers
<1>7. Numbers'
  BY <1>1, <1>2, <1>4, <1>5, <1>6 DEF Numbers
<1> QED BY <1>1, <1>7

(* The coordinator's: which upgrade they are about, what they send.        *)
LEMMA CoordinatorParts ==
  ASSUME TypeOK, Numbers, Coordinator
  PROVE  /\ \/ down' = down
            \/ \E kind \in {"Prepare", "Cancel", "Enter", "chunk", "garbled"} :
                 /\ down' = ToAll(Frame(kind))
                 /\ kind = "Prepare" => /\ proto # NoProtocol /\ ~proto.abort /\ ~proto.sent
                                        /\ proto'.sent /\ transfer.stage = "idle"
                 /\ kind \in Orders => UNCHANGED <<seen, lost, transfer>>
                 /\ kind = "Cancel" => \/ transfer.stage = "idle" /\ proto' = NoProtocol
                                       \/ transfer.stage = "idle" /\ proto' = proto /\ ~proto.sent
                                       \/ Devices \subseteq late'
                 /\ kind \notin Orders => proto' = proto /\ transfer.stage # "idle"
         /\ acks' \subseteq acks /\ late \subseteq late' /\ stale \subseteq stale'
         /\ ~BeginUpgrade => budget'.upgrades = budget.upgrades
         /\ BeginUpgrade => /\ budget'.upgrades = budget.upgrades - 1 /\ transfer.stage = "idle"
                            /\ proto = NoProtocol /\ down' = down /\ acks' = acks
         /\ proto' # NoProtocol =>
              \/ BeginUpgrade
              \/ /\ proto # NoProtocol /\ transfer.stage = "idle" /\ transfer' = transfer
                 /\ (~proto'.sent => ~proto.sent) /\ (~proto'.abort => ~proto.abort)
                 /\ proto'.devices = proto.devices
         /\ transfer'.stage # "idle" /\ transfer.stage = "idle" =>
              /\ proto # NoProtocol /\ proto' = NoProtocol /\ Complete(proto) /\ down' = down
              /\ UNCHANGED <<late, stale>>
         /\ transfer'.stage # "idle" => proto' = NoProtocol
<1>0. /\ proto \in Protocols /\ (transfer.stage # "idle" => proto = NoProtocol)
      /\ budget'.upgrades = budget.upgrades - 1 => budget'.upgrades # budget.upgrades
  BY DEF TypeOK, Numbers
<1>1. CASE BeginUpgrade
  <2>1. /\ budget' = [budget EXCEPT !.upgrades = @ - 1] /\ transfer.stage = "idle"
        /\ proto = NoProtocol /\ down' = down /\ acks' = acks /\ transfer' = transfer
        /\ late \subseteq late' /\ stale' = stale
    BY <1>1 DEF BeginUpgrade
  <2>2. budget'.upgrades = budget.upgrades - 1
    BY <2>1 DEF TypeOK
  <2> QED BY <1>1, <2>1, <2>2
<1>2. CASE PollProtocol
  <2>1. /\ UNCHANGED <<acks, seen, lost, late, stale, budget>> /\ Polling /\ proto # NoProtocol
        /\ transfer.stage = "idle"
    BY <1>0, <1>2 DEF PollProtocol, history
  <2>2. ~BeginUpgrade
    BY <2>1 DEF BeginUpgrade
  <2>3. \/ /\ proto.abort /\ down' = ToAll(Frame("Cancel")) /\ proto' = NoProtocol
           /\ transfer' = transfer
        \/ /\ ~proto.abort /\ ~proto.sent /\ down' = ToAll(Frame("Prepare"))
           /\ proto' = [proto EXCEPT !.sent = TRUE] /\ transfer' = transfer
        \/ /\ Complete(proto) /\ proto' = NoProtocol /\ down' = down
           /\ transfer' = [transfer EXCEPT !.stage = "ready"]
    BY <1>2 DEF PollProtocol
  <2>4. CASE /\ proto.abort /\ down' = ToAll(Frame("Cancel")) /\ proto' = NoProtocol
             /\ transfer' = transfer
    BY <2>1, <2>2, <2>4 DEF Orders
  <2>5. CASE /\ ~proto.abort /\ ~proto.sent /\ down' = ToAll(Frame("Prepare"))
             /\ proto' = [proto EXCEPT !.sent = TRUE] /\ transfer' = transfer
    <3>1. proto'.sent /\ proto'.abort = proto.abort /\ proto'.devices = proto.devices
      BY <1>0, <2>5 DEF Protocols
    <3> QED BY <2>1, <2>2, <2>5, <3>1 DEF Orders
  <2>6. CASE /\ Complete(proto) /\ proto' = NoProtocol /\ down' = down
             /\ transfer' = [transfer EXCEPT !.stage = "ready"]
    BY <2>1, <2>2, <2>6
  <2> QED BY <2>3, <2>4, <2>5, <2>6
<1>3. CASE \E a \in acks : RecvAck(a)
  <2>1. PICK a \in acks : RecvAck(a)
    BY <1>3
  <2>2. /\ UNCHANGED <<down, seen, transfer, lost, late, budget>> /\ acks' \subseteq acks
        /\ stale \subseteq stale'
        /\ \/ proto' = proto
           \/ /\ proto # NoProtocol
              /\ \/ proto' = [proto EXCEPT !.confirmed = @ \union {a.from}]
                 \/ proto' = [proto EXCEPT !.passive = @ \union {a.from}]
    BY <2>1 DEF RecvAck
  <2>3. /\ proto'.sent = proto.sent /\ proto'.abort = proto.abort /\ proto'.devices = proto.devices
    BY <1>0, <2>2 DEF Protocols
  <2>4. proto' # NoProtocol => proto # NoProtocol
    BY <2>2
  <2>5. ~BeginUpgrade
    BY <1>0, <2>2 DEF BeginUpgrade, TypeOK
  <2>6. transfer'.stage # "idle" => proto' = NoProtocol
    BY <1>0, <2>2
  <2> QED BY <1>0, <2>2, <2>3, <2>4, <2>5, <2>6
<1>4. CASE \E d \in Devices : Disconnected(d) \/ Connected(d)
  <2>1. PICK d \in Devices : Disconnected(d) \/ Connected(d)
    BY <1>4
  <2>2. /\ UNCHANGED <<down, acks, transfer, late, stale, budget>>
        /\ \/ proto' = proto
           \/ proto # NoProtocol /\ proto' = [proto EXCEPT !.abort = @ \/ d \in proto.devices]
    BY <2>1 DEF Disconnected, Connected, history
  <2>3. /\ proto'.sent = proto.sent /\ (~proto'.abort => ~proto.abort)
        /\ proto'.devices = proto.devices
    BY <1>0, <2>2 DEF Protocols
  <2>4. proto' # NoProtocol => proto # NoProtocol
    BY <2>2
  <2>5. ~BeginUpgrade
    BY <1>0, <2>2 DEF BeginUpgrade, TypeOK
  <2>6. transfer'.stage # "idle" => proto' = NoProtocol
    BY <1>0, <2>2
  <2> QED BY <1>0, <2>2, <2>3, <2>4, <2>5, <2>6
<1>5. CASE CancelProtocol
  <2>1. /\ UNCHANGED <<down, acks, transfer, late, stale>> /\ Fault /\ proto # NoProtocol
        /\ proto' = NoProtocol /\ transfer.stage = "idle"
    BY <1>0, <1>5 DEF CancelProtocol, history
  <2>2. budget'.upgrades = budget.upgrades
    BY <2>1 DEF Fault, TypeOK
  <2>3. ~BeginUpgrade
    BY <2>1 DEF BeginUpgrade
  <2> QED BY <2>1, <2>2, <2>3
<1>6. CASE EnterUpgradeMode
  <2>1. /\ UNCHANGED <<acks, seen, proto, lost, late, stale, budget>>
        /\ transfer.stage = "ready" /\ down' = ToAll(Frame("Enter"))
    BY <1>6 DEF EnterUpgradeMode, history
  <2>2. ~BeginUpgrade
    BY <2>1 DEF BeginUpgrade
  <2> QED BY <1>0, <2>1, <2>2 DEF Orders
<1>7. ASSUME NEW k \in ChunkKinds, WriteChunk(k)
      PROVE  /\ UNCHANGED <<acks, seen, proto, lost, late, stale>>
             /\ transfer.stage = "write" /\ down' = ToAll(Frame(k))
             /\ budget'.upgrades = budget.upgrades /\ ~BeginUpgrade
  <2>1. /\ UNCHANGED <<acks, seen, proto, lost, late, stale>> /\ (budget' = budget \/ Fault)
        /\ transfer.stage = "write" /\ down' = ToAll(Frame(k))
    BY <1>7 DEF WriteChunk, history
  <2>2. budget'.upgrades = budget.upgrades
    BY <2>1 DEF Fault, TypeOK
  <2>3. ~BeginUpgrade
    BY <2>1 DEF BeginUpgrade
  <2> QED BY <2>1, <2>2, <2>3
<1>8. CASE \E k \in ChunkKinds : WriteChunk(k)
  <2>1. PICK k \in ChunkKinds : WriteChunk(k)
    BY <1>8
  <2> QED BY <1>0, <1>7, <2>1 DEF Orders, ChunkKinds
<1>9. CASE ReadReady \/ ReadTimesOut
  <2>1. /\ UNCHANGED <<down, acks, seen, proto, lost, late, stale, budget>>
        /\ transfer.stage = "read"
    BY <1>9 DEF ReadReady, ReadTimesOut, history
  <2>2. ~BeginUpgrade
    BY <2>1 DEF BeginUpgrade
  <2> QED BY <1>0, <2>1, <2>2
<1>10. CASE SendCancelAll
  <2>1. /\ UNCHANGED <<acks, seen, proto, transfer, lost, stale, budget>>
        /\ down' = ToAll(Frame("Cancel")) /\ transfer.stage \in {"idle", "ready"}
        /\ late' = IF proto.sent \/ transfer.stage = "ready" THEN Devices ELSE late
        /\ cancelling > 0 /\ cancelling' = cancelling - 1
    BY <1>10 DEF SendCancelAll, Polling
  <2>2. late \subseteq late'
    BY <2>1 DEF TypeOK
  <2>3. ~BeginUpgrade
    <3>1. cancelling' # cancelling
      BY <2>1 DEF TypeOK
    <3> QED BY <3>1 DEF BeginUpgrade
  <2>4. \/ transfer.stage = "idle" /\ proto' = proto /\ ~proto.sent
        \/ Devices \subseteq late'
    BY <2>1
  <2> QED BY <1>0, <2>1, <2>2, <2>3, <2>4 DEF Orders
<1> QED BY <1>1, <1>2, <1>3, <1>4, <1>5, <1>6, <1>8, <1>9, <1>10
        DEF Coordinator, CoordinatorStep, ChunkKinds

(* No call for the present upgrade is on its way with an order behind it   *)
(* or above it.                                                            *)
Called(q, j) == q[j].kind = "Prepare" /\ q[j].upgrade = budget.upgrades

(* A frame that is handed on stays before what comes after it.             *)
LEMMA MovedBehind ==
  ASSUME TypeOK, Behind, Live, NEW x \in Devices, NEW to, Moved(x, to),
         budget'.upgrades = budget.upgrades
  PROVE  Behind'
<1> DEFINE f == Head(down[x])
           q == down[x]
<1>1. /\ q # <<>> /\ q \in Seq(Frames) /\ to \in {{}, Below(x)} /\ down'[x] = Tail(q)
      /\ \A d \in Devices \ {x} : down'[d] = IF d \in to THEN Append(down[d], f) ELSE down[d]
      /\ \A d \in Devices : down[d] \in Seq(Frames)
  BY DEF Moved, TypeOK
<1>2. /\ Len(q) \in Nat \ {0} /\ Len(Tail(q)) = Len(q) - 1 /\ f = q[1] /\ f \in Frames
      /\ \A n \in 1 .. Len(q) - 1 : Tail(q)[n] = q[n + 1]
      /\ NoneOf(q, Orders) => f.kind \notin Orders /\ NoneOf(Tail(q), Orders)
  BY <1>1, NoneOfTail
<1>3. \A d \in to : /\ d \in Devices \ {x} /\ x \in Upwards(d) /\ d \notin Upwards(x) /\ to = {d}
                    /\ \A e \in Upwards(d) : e = d \/ e \in Upwards(x)
  <2> SUFFICES ASSUME NEW d \in to
               PROVE  /\ d \in Devices \ {x} /\ x \in Upwards(d) /\ d \notin Upwards(x) /\ to = {d}
                      /\ \A e \in Upwards(d) : e = d \/ e \in Upwards(x)
    OBVIOUS
  <2>1. to = Below(x) /\ d \in Below(x)
    BY <1>1
  <2>2. /\ d \in Devices \ {Head1} /\ x \in Above(d) /\ d # x /\ d \notin Upwards(x)
        /\ Below(x) = {d}
    BY <2>1, BelowFacts
  <2> QED BY <2>1, <2>2, AboveIs
<1>4. ASSUME NEW d \in to
      PROVE  /\ down'[d] = Append(down[d], f) /\ Len(down'[d]) = Len(down[d]) + 1
             /\ Len(down[d]) \in Nat
             /\ \A n \in 1 .. Len(down[d]) : down'[d][n] = down[d][n]
             /\ down'[d][Len(down[d]) + 1] = f
  <2>1. down'[d] = Append(down[d], f) /\ down[d] \in Seq(Frames)
    BY <1>1, <1>3
  <2> QED BY <1>2, <2>1, AppendProperties, LenProperties
<1>5. f.kind = "Prepare" => f.kind \in Orders
  BY DEF Orders
<1> HIDE DEF f
<1>6. ASSUME NEW e \in Devices, NoneOf(down[e], Orders),
             e \in to => f.kind \notin Orders
      PROVE  NoneOf(down'[e], Orders)
  <2>1. CASE e = x
    BY <1>1, <1>2, <1>6, <2>1
  <2>2. CASE e \in to
    <3>1. NoneOf(Append(down[e], f), Orders)
      BY <1>1, <1>2, <1>6, <2>2, NoneOfAppend
    <3> QED BY <1>4, <2>2, <3>1
  <2>3. CASE e # x /\ e \notin to
    BY <1>1, <1>6, <2>3
  <2> QED BY <2>1, <2>2, <2>3
<1>7. ASSUME NEW g \in Devices, NEW j \in 1 .. Len(down[g]), Called(down[g], j)
      PROVE  /\ \A i \in 1 .. Len(down[g]) : i > j => down[g][i].kind \notin Orders
             /\ \A e \in Upwards(g) \ {g} : NoneOf(down[e], Orders)
  BY <1>7 DEF Behind, Called
<1>8. ASSUME NEW g \in Devices, NEW j \in 1 .. Len(down'[g]), Called(down'[g], j)
      PROVE  /\ \A i \in 1 .. Len(down'[g]) : i > j => down'[g][i].kind \notin Orders
             /\ \A e \in Upwards(g) \ {g} : NoneOf(down'[e], Orders)
  <2>0. /\ Upwards(g) \subseteq Devices /\ g \in Upwards(g)
        /\ \A e \in Upwards(g) : Upwards(e) \subseteq Upwards(g)
    BY Ancestors
  <2>1. CASE g = x
    <3>1. /\ j + 1 \in 1 .. Len(q) /\ down'[g][j] = q[j + 1] /\ Len(down'[g]) = Len(q) - 1
          /\ \A i \in 1 .. Len(q) - 1 : down'[g][i] = q[i + 1]
      <4>1. down'[g] = Tail(q)
        BY <1>1, <2>1
      <4>2. Len(down'[g]) = Len(q) - 1 /\ \A i \in 1 .. Len(q) - 1 : down'[g][i] = q[i + 1]
        BY <1>2, <4>1
      <4>3. j \in 1 .. Len(q) - 1
        BY <4>2
      <4>4. j + 1 \in 1 .. Len(q)
        BY <1>2, <4>3
      <4> QED BY <4>2, <4>3, <4>4
    <3>2. Called(q, j + 1)
      BY <1>8, <3>1 DEF Called
    <3>3. /\ \A i \in 1 .. Len(q) : i > j + 1 => q[i].kind \notin Orders
          /\ \A e \in Upwards(x) \ {x} : NoneOf(down[e], Orders)
      BY <1>7, <2>1, <3>1, <3>2
    <3>4. ASSUME NEW i \in 1 .. Len(down'[g]), i > j PROVE down'[g][i].kind \notin Orders
      <4>1. i + 1 \in 1 .. Len(q) /\ i + 1 > j + 1
        BY <1>2, <3>1, <3>4
      <4> QED BY <3>1, <3>3, <3>4, <4>1
    <3>5. \A e \in Upwards(g) \ {g} : e \notin to
      BY <1>3, <2>1
    <3> QED BY <1>6, <2>0, <2>1, <3>3, <3>4, <3>5
  <2>2. CASE g \in to /\ j # Len(down[g]) + 1
    <3>1. j \in 1 .. Len(down[g]) /\ Called(down[g], j)
      BY <1>4, <1>8, <2>2 DEF Called
    <3>2. /\ \A i \in 1 .. Len(down[g]) : i > j => down[g][i].kind \notin Orders
          /\ \A e \in Upwards(g) \ {g} : NoneOf(down[e], Orders)
      BY <1>7, <3>1
    <3>3. f.kind \notin Orders
      BY <1>2, <1>3, <2>2, <3>2
    <3>4. \A i \in 1 .. Len(down'[g]) : i > j => down'[g][i].kind \notin Orders
      BY <1>4, <2>2, <3>2, <3>3
    <3> QED BY <1>6, <2>0, <3>2, <3>3, <3>4
  <2>3. CASE g \in to /\ j = Len(down[g]) + 1
    <3>1. 1 \in 1 .. Len(q) /\ Called(q, 1)
      BY <1>2, <1>4, <1>8, <2>3 DEF Called
    <3>2. /\ \A i \in 1 .. Len(q) : i > 1 => q[i].kind \notin Orders
          /\ \A e \in Upwards(x) \ {x} : NoneOf(down[e], Orders)
      BY <1>7, <3>1
    <3>3. \A i \in 1 .. Len(down'[g]) : ~(i > j)
      BY <1>4, <2>3
    <3>4. NoneOf(down'[x], Orders)
      <4>1. ASSUME NEW i \in 1 .. Len(q) - 1 PROVE Tail(q)[i].kind \notin Orders
        <5>1. i + 1 \in 1 .. Len(q) /\ i + 1 > 1
          BY <1>2, <4>1
        <5> QED BY <1>2, <3>2, <4>1, <5>1
      <4> QED BY <1>1, <1>2, <4>1 DEF NoneOf
    <3>5. ASSUME NEW e \in Upwards(g) \ {g} PROVE NoneOf(down'[e], Orders)
      <4>1. CASE e = x
        BY <3>4, <4>1
      <4>2. CASE e # x
        <5>1. e \in Upwards(x) \ {x} /\ e \notin to /\ e \in Devices
          BY <1>3, <2>0, <2>3, <4>2
        <5> QED BY <1>6, <3>2, <5>1
      <4> QED BY <4>1, <4>2
    <3> QED BY <3>3, <3>5
  <2>4. CASE g # x /\ g \notin to
    <3>1. down'[g] = down[g]
      BY <1>1, <2>4
    <3>2. /\ \A i \in 1 .. Len(down[g]) : i > j => down[g][i].kind \notin Orders
          /\ \A e \in Upwards(g) \ {g} : NoneOf(down[e], Orders)
      BY <1>7, <1>8, <3>1
    <3>3. ASSUME NEW e \in Upwards(g) \ {g}, e \in to PROVE f.kind \notin Orders
      <4>1. x \in Upwards(g) \ {g}
        BY <1>3, <2>0, <2>4, <3>3
      <4> QED BY <1>2, <3>2, <4>1
    <3>4. \A e \in Upwards(g) \ {g} : NoneOf(down'[e], Orders)
      BY <1>6, <2>0, <3>2, <3>3
    <3> QED BY <3>1, <3>2, <3>4
  <2> QED BY <2>1, <2>2, <2>3, <2>4
<1> QED BY <1>8 DEF Behind, Called

(* A device that heard of the upgrade has no order on its way, nor has one *)
(* above it.                                                               *)
LEMMA MovedClean ==
  ASSUME TypeOK, NEW x \in Devices, NEW to, Moved(x, to), NEW y \in Devices,
         \A e \in Upwards(y) : NoneOf(down[e], Orders)
  PROVE  \A e \in Upwards(y) : NoneOf(down'[e], Orders)
<1> SUFFICES ASSUME NEW e \in Upwards(y) PROVE NoneOf(down'[e], Orders)
  OBVIOUS
<1> DEFINE f == Head(down[x])
           q == down[x]
<1>1. /\ q # <<>> /\ q \in Seq(Frames) /\ to \in {{}, Below(x)} /\ down'[x] = Tail(q)
      /\ \A d \in Devices \ {x} : down'[d] = IF d \in to THEN Append(down[d], f) ELSE down[d]
      /\ \A d \in Devices : down[d] \in Seq(Frames)
  BY DEF Moved, TypeOK
<1>2. f \in Frames /\ (NoneOf(q, Orders) => f.kind \notin Orders /\ NoneOf(Tail(q), Orders))
  BY <1>1, NoneOfTail
<1>3. e \in Devices /\ Upwards(e) \subseteq Upwards(y)
  BY Ancestors
<1> HIDE DEF f
<1>4. CASE e = x
  BY <1>1, <1>2, <1>4
<1>5. CASE e # x /\ e \in to
  <2>1. e \in Below(x)
    BY <1>1, <1>5
  <2>2. x \in Upwards(e)
    BY <2>1, BelowFacts, AboveIs
  <2>3. f.kind \notin Orders
    BY <1>2, <1>3, <2>2
  <2>4. NoneOf(Append(down[e], f), Orders)
    BY <1>1, <1>2, <1>3, <2>3, NoneOfAppend
  <2> QED BY <1>1, <1>3, <1>5, <2>4
<1>6. CASE e # x /\ e \notin to
  BY <1>1, <1>3, <1>6
<1> QED BY <1>4, <1>5, <1>6

(* The steps of a device.                                                  *)
LEMMA InnerClean ==
  ASSUME TypeOK, Numbers, Behind, Clean, NEW d \in Devices, Inner(d)
  PROVE  Behind' /\ Clean'
<1>0. UNCHANGED <<proto, transfer, late, stale, budget>>
  BY InnerRest
<1>1. Live' <=> Live
  BY <1>0 DEF Live, Trusted
<1> SUFFICES ASSUME Live PROVE Behind' /\ Clean'
  BY <1>1 DEF Behind, Clean
<1>2. CASE Recv(d) \/ ReadChunk(d)
  <2>1. PICK to : Moved(d, to)
    BY <1>2, FrameTaken
  <2>2. Behind'
    BY <1>0, <2>1, MovedBehind
  <2>3. ASSUME NEW y \in Devices, Knows(y)'
        PROVE  \A e \in Upwards(y) : NoneOf(down'[e], Orders)
    <3>1. CASE Knows(y)
      BY <2>1, <3>1, MovedClean DEF Clean
    <3>2. CASE ~Knows(y)
      <4>1. Recv(d) /\ y = d
        BY <1>0, <1>2, <2>3, <3>2, RecvParts, ReadChunkParts DEF Knows
      <4>2. /\ Head(down[d]).kind = "Prepare" /\ Head(down[d]).upgrade = budget.upgrades
            /\ down[d] # <<>>
        BY <1>0, <2>3, <3>2, <4>1, RecvParts DEF Knows
      <4>3. /\ Len(down[d]) \in Nat \ {0} /\ Head(down[d]) = down[d][1]
            /\ Len(Tail(down[d])) = Len(down[d]) - 1
            /\ \A n \in 1 .. Len(down[d]) - 1 : Tail(down[d])[n] = down[d][n + 1]
        BY <4>2, NoneOfTail DEF TypeOK
      <4>4. /\ \A i \in 1 .. Len(down[d]) : i > 1 => down[d][i].kind \notin Orders
            /\ \A e \in Upwards(d) \ {d} : NoneOf(down[e], Orders)
        <5>1. 1 \in 1 .. Len(down[d])
          BY <4>3
        <5> QED BY <4>2, <4>3, <5>1 DEF Behind
      <4>5. NoneOf(Tail(down[d]), Orders)
        <5>1. ASSUME NEW i \in 1 .. Len(down[d]) - 1 PROVE Tail(down[d])[i].kind \notin Orders
          <6>1. i + 1 \in 1 .. Len(down[d]) /\ i + 1 > 1
            BY <4>3, <5>1
          <6> QED BY <4>3, <4>4, <5>1, <6>1
        <5> QED BY <4>3, <5>1 DEF NoneOf
      <4>6. ASSUME NEW e \in Upwards(d) \ {d} PROVE NoneOf(down'[e], Orders)
        <5>1. e \in Devices \ {d} /\ e \notin to
          <6>1. e \in Devices
            BY Ancestors
          <6>2. e \in Below(d) => e \notin Upwards(d)
            BY BelowFacts
          <6> QED BY <2>1, <4>6, <6>1, <6>2 DEF Moved
        <5>2. down'[e] = down[e]
          BY <2>1, <5>1 DEF Moved
        <5> QED BY <4>4, <4>6, <5>2
      <4>7. down'[d] = Tail(down[d])
        BY <2>1 DEF Moved
      <4> QED BY <4>1, <4>5, <4>6, <4>7
    <3> QED BY <3>1, <3>2
  <2>4. Clean'
    BY <2>3 DEF Clean, Upwards
  <2> QED BY <2>2, <2>4
<1>3. CASE PollMode(d) \/ Signal(d) \/ Confirm(d) \/ Verify(d) \/ Switch(d)
  <2>1. down' = down
    BY <1>3 DEF PollMode, Signal, Confirm, Verify, Switch
  <2>2. Behind'
    BY <1>0, <2>1 DEF Behind, Live, Trusted, Upwards
  <2>3. ASSUME NEW y \in Devices, Knows(y)' PROVE Knows(y)
    <3>1. CASE PollMode(d)
      BY <1>0, <2>3, <3>1, PollModeParts DEF Knows, None
    <3>2. CASE Signal(d)
      BY <1>0, <2>3, <3>2, SignalParts DEF Knows
    <3>3. CASE Confirm(d) \/ Verify(d) \/ Switch(d)
      BY <1>0, <2>3, <3>3, EndParts DEF Knows, None
    <3> QED BY <1>3, <3>1, <3>2, <3>3
  <2>4. Clean'
    BY <2>1, <2>3 DEF Clean, Upwards
  <2> QED BY <2>2, <2>4
<1> QED BY <1>2, <1>3 DEF Inner

(* Power and links only empty the queues.                                  *)
LEMMA PowerClean ==
  ASSUME TypeOK, LinkInvariant, Numbers, Behind, Clean, NEW d \in Devices,
         Reset(d) \/ Unplug(d) \/ PlugIn(d) \/ Join(d)
  PROVE  Behind' /\ Clean'
<1>0. UNCHANGED <<proto, transfer>> /\ budget'.upgrades = budget.upgrades
  BY DeviceNumbers
<1>1. Live' => Live
  <2>1. stale' = stale /\ late \subseteq late'
    BY DEF Reset, Unplug, PlugIn, Join, history
  <2> QED BY <1>0, <2>1 DEF Live, Trusted
<1>2. \A x \in Devices : down'[x] \in {down[x], <<>>}
  BY PowerParts
<1>3. NoneOf(<<>>, Orders) /\ Len(<<>>) = 0
  BY DEF NoneOf
<1>4. \A x \in Devices : NoneOf(down[x], Orders) => NoneOf(down'[x], Orders)
  BY <1>2, <1>3
<1>5. \A x \in Devices : Upwards(x) \subseteq Devices
  BY Ancestors
<1> SUFFICES ASSUME Live PROVE Behind' /\ Clean'
  BY <1>1 DEF Behind, Clean
<1>6. ASSUME NEW g \in Devices, NEW j \in 1 .. Len(down'[g]), down'[g][j].kind = "Prepare",
             down'[g][j].upgrade = budget.upgrades
      PROVE  /\ \A i \in 1 .. Len(down'[g]) : i > j => down'[g][i].kind \notin Orders
             /\ \A e \in Upwards(g) \ {g} : NoneOf(down'[e], Orders)
  <2>1. down'[g] = down[g]
    BY <1>2, <1>3, <1>6
  <2> QED BY <1>4, <1>5, <1>6, <2>1 DEF Behind
<1>7. Behind'
  BY <1>0, <1>6 DEF Behind, Upwards
<1>8. ASSUME NEW y \in Devices, Knows(y)' PROVE Knows(y)
  BY <1>0, <1>8, PowerParts DEF Knows
<1>9. Clean'
  BY <1>4, <1>5, <1>8 DEF Clean, Upwards
<1> QED BY <1>7, <1>9

(* The coordinator sends no order while the upgrade lives, but the first.  *)
LEMMA CoordinatorClean ==
  ASSUME TypeOK, Numbers, Behind, Clean, Coordinator
  PROVE  Behind' /\ Clean'
<1>0. dev' = dev /\ budget.upgrades \in Nat /\ \A x \in Devices : down[x] \in Seq(Frames)
  BY CoordinatorType DEF TypeOK, Coordinator
<1> SUFFICES ASSUME Live' PROVE Behind' /\ Clean'
  BY DEF Behind, Clean
<1>1. CASE BeginUpgrade
  <2>1. down' = down /\ budget'.upgrades = budget.upgrades - 1
    BY <1>1, CoordinatorParts
  <2>2. /\ \A g \in Devices : \A j \in 1 .. Len(down[g]) :
             down[g][j].kind = "Prepare" => down[g][j].upgrade # budget'.upgrades
        /\ \A x \in Devices : dev[x].mode # None => dev[x].upgrade # budget'.upgrades
    BY <1>0, <2>1 DEF Numbers, Old
  <2> QED BY <1>0, <2>1, <2>2 DEF Behind, Clean, Knows
<1>2. CASE ~BeginUpgrade
  <2>1. Live
    <3>0. Trusted # {}
      BY CoordinatorParts DEF Live, Trusted
    <3>1. CASE transfer'.stage # "idle" /\ transfer.stage = "idle"
      BY <3>0, <3>1, CoordinatorParts DEF Live, Complete
    <3>2. CASE transfer'.stage # "idle" /\ transfer.stage # "idle"
      BY <3>0, <3>2 DEF Live
    <3>3. CASE transfer'.stage = "idle"
      <4>1. proto' # NoProtocol /\ ~proto'.abort
        BY <3>3 DEF Live
      <4>2. proto # NoProtocol /\ ~proto.abort
        BY <1>2, <4>1, CoordinatorParts
      <4> QED BY <3>0, <4>2 DEF Live
    <3> QED BY <3>1, <3>2, <3>3
  <2>2. budget'.upgrades = budget.upgrades
    BY <1>2, CoordinatorParts
  <2>3. \A x : Knows(x)' <=> Knows(x)
    BY <1>0, <2>2 DEF Knows
  <2>4. CASE down' = down
    BY <2>1, <2>2, <2>3, <2>4 DEF Behind, Clean, Upwards
  <2>5. CASE down' # down
    <3>1. PICK kind \in {"Prepare", "Cancel", "Enter", "chunk", "garbled"} :
                 /\ down' = ToAll(Frame(kind))
                 /\ kind = "Prepare" => /\ proto # NoProtocol /\ ~proto.abort /\ ~proto.sent
                                        /\ proto'.sent /\ transfer.stage = "idle"
                 /\ kind \in Orders => UNCHANGED <<seen, lost, transfer>>
                 /\ kind = "Cancel" => \/ transfer.stage = "idle" /\ proto' = NoProtocol
                                       \/ transfer.stage = "idle" /\ proto' = proto /\ ~proto.sent
                                       \/ Devices \subseteq late'
                 /\ kind \notin Orders => proto' = proto /\ transfer.stage # "idle"
      BY <2>5, CoordinatorParts
    <3> DEFINE f == Frame(kind)
    <3>2. /\ f \in Frames /\ f.kind = kind /\ f.upgrade = budget.upgrades
          /\ Port \in {{}, {Head1}}
          /\ \A x \in Devices : down'[x] = IF x \in Port THEN Append(down[x], f) ELSE down[x]
      BY <3>1, Sent
    <3> HIDE DEF f
    <3>3. CASE kind = "Cancel"
      <4>1. proto # NoProtocol /\ ~proto.sent
        <5>1. ~(Devices \subseteq late')
          BY DEF Live, Trusted
        <5>2. transfer.stage = "idle" => proto' # NoProtocol
          BY <3>1, <3>3 DEF Live, Orders
        <5> QED BY <3>1, <3>3, <5>1, <5>2
      <4>2. \A n : Old(n) => n # budget.upgrades
        BY <4>1 DEF Old
      <4>3. \A x \in Devices : ~Knows(x)
        BY <4>2 DEF Knows, Numbers
      <4>4. Clean'
        BY <2>3, <4>3 DEF Clean
      <4>5. ASSUME NEW g \in Devices, NEW j \in 1 .. Len(down'[g])
            PROVE  ~(down'[g][j].kind = "Prepare" /\ down'[g][j].upgrade = budget.upgrades)
        <5>1. CASE g \in Port
          <6>1. down'[g] = Append(down[g], f)
            BY <3>2, <5>1
          <6>2. /\ Len(down'[g]) = Len(down[g]) + 1 /\ Len(down[g]) \in Nat
                /\ \A i \in 1 .. Len(down[g]) : down'[g][i] = down[g][i]
                /\ down'[g][Len(down[g]) + 1] = f
            BY <1>0, <3>2, <6>1, AppendProperties, LenProperties
          <6>3. CASE j = Len(down[g]) + 1
            BY <3>2, <3>3, <6>2, <6>3
          <6>4. CASE j # Len(down[g]) + 1
            <7>1. j \in 1 .. Len(down[g])
              BY <6>2, <6>4
            <7> QED BY <4>2, <6>2, <7>1 DEF Numbers
          <6> QED BY <6>3, <6>4
        <5>2. CASE g \notin Port
          BY <3>2, <4>2, <5>2 DEF Numbers
        <5> QED BY <5>1, <5>2
      <4>6. Behind'
        BY <2>2, <4>5 DEF Behind, Upwards
      <4> QED BY <4>4, <4>6
    <3>4. CASE kind = "Prepare"
      <4>1. \A n : Old(n) => n # budget.upgrades
        BY <3>1, <3>4 DEF Old
      <4>2. \A x \in Devices : ~Knows(x)
        BY <4>1 DEF Knows, Numbers
      <4>3. Clean'
        BY <2>3, <4>2 DEF Clean
      <4>4. ASSUME NEW g \in Devices, NEW j \in 1 .. Len(down'[g]), down'[g][j].kind = "Prepare",
                   down'[g][j].upgrade = budget.upgrades
            PROVE  /\ \A i \in 1 .. Len(down'[g]) : i > j => down'[g][i].kind \notin Orders
                   /\ \A e \in Upwards(g) \ {g} : NoneOf(down'[e], Orders)
        <5>1. \A i \in 1 .. Len(down[g]) : down[g][i].kind = "Prepare" =>
                                             down[g][i].upgrade # budget.upgrades
          BY <4>1 DEF Numbers
        <5>2. CASE g \in Port
          <6>1. g = Head1 /\ down'[g] = Append(down[g], f)
            BY <3>2, <5>2
          <6>2. /\ Len(down'[g]) = Len(down[g]) + 1 /\ Len(down[g]) \in Nat
                /\ \A i \in 1 .. Len(down[g]) : down'[g][i] = down[g][i]
            BY <1>0, <3>2, <6>1, AppendProperties, LenProperties
          <6>3. j = Len(down[g]) + 1
            BY <4>4, <5>1, <6>2
          <6>4. Upwards(g) \ {g} = {}
            BY <6>1, Ancestors
          <6> QED BY <6>2, <6>3, <6>4
        <5>3. CASE g \notin Port
          BY <3>2, <4>4, <5>1, <5>3
        <5> QED BY <5>2, <5>3
      <4>5. Behind'
        BY <2>2, <4>4 DEF Behind, Upwards
      <4> QED BY <4>3, <4>5
    <3>5. CASE kind \notin Orders
      <4>1. \A x \in Devices : NoneOf(down[x], Orders) => NoneOf(down'[x], Orders)
        <5> SUFFICES ASSUME NEW x \in Devices, NoneOf(down[x], Orders)
                     PROVE  NoneOf(down'[x], Orders)
          OBVIOUS
        <5>1. NoneOf(Append(down[x], f), Orders)
          BY <1>0, <3>2, <3>5, NoneOfAppend
        <5> QED BY <3>2, <5>1
      <4>2. \A x \in Devices : Upwards(x) \subseteq Devices
        BY Ancestors
      <4>3. Clean'
        BY <2>1, <2>3, <4>1, <4>2 DEF Clean, Upwards
      <4>4. ASSUME NEW g \in Devices, NEW j \in 1 .. Len(down'[g]), down'[g][j].kind = "Prepare",
                   down'[g][j].upgrade = budget.upgrades
            PROVE  /\ \A i \in 1 .. Len(down'[g]) : i > j => down'[g][i].kind \notin Orders
                   /\ \A e \in Upwards(g) \ {g} : NoneOf(down'[e], Orders)
        <5>1. CASE g \in Port
          <6>1. /\ Len(down'[g]) = Len(down[g]) + 1 /\ Len(down[g]) \in Nat
                /\ \A i \in 1 .. Len(down[g]) : down'[g][i] = down[g][i]
                /\ down'[g][Len(down[g]) + 1] = f
            <7>1. down'[g] = Append(down[g], f) /\ down[g] \in Seq(Frames) /\ f \in Frames
              BY <1>0, <3>2, <5>1
            <7> QED BY <7>1, AppendProperties, LenProperties
          <6>2. j # Len(down[g]) + 1
            BY <3>2, <3>5, <4>4, <6>1 DEF Orders
          <6>3. j \in 1 .. Len(down[g]) /\ down[g][j] = down'[g][j]
            BY <6>1, <6>2
          <6>4. /\ \A i \in 1 .. Len(down[g]) : i > j => down[g][i].kind \notin Orders
                /\ \A e \in Upwards(g) \ {g} : NoneOf(down[e], Orders)
            BY <2>1, <4>4, <6>3 DEF Behind
          <6>5. \A i \in 1 .. Len(down'[g]) : i > j => down'[g][i].kind \notin Orders
            BY <3>2, <3>5, <6>1, <6>4
          <6> QED BY <4>1, <4>2, <6>4, <6>5
        <5>2. CASE g \notin Port
          <6>1. down'[g] = down[g]
            BY <3>2, <5>2
          <6>2. /\ \A i \in 1 .. Len(down[g]) : i > j => down[g][i].kind \notin Orders
                /\ \A e \in Upwards(g) \ {g} : NoneOf(down[e], Orders)
            BY <2>1, <4>4, <6>1 DEF Behind
          <6> QED BY <4>1, <4>2, <6>1, <6>2
        <5> QED BY <5>1, <5>2
      <4>5. Behind'
        BY <2>2, <4>4 DEF Behind, Upwards
      <4> QED BY <4>3, <4>5
    <3> QED BY <3>1, <3>3, <3>4, <3>5 DEF Orders
  <2> QED BY <2>4, <2>5
<1> QED BY <1>1, <1>2

(* The number of an upgrade is new, and PrepareUpgrade is sent once.       *)
LEMMA CoordinatorNumbers ==
  ASSUME TypeOK, Numbers, Coordinator
  PROVE  Numbers'
<1> DEFINE OldNext(n) == /\ n >= budget'.upgrades
                         /\ proto' # NoProtocol /\ ~proto'.sent => n # budget'.upgrades
<1>0. /\ dev' = dev /\ budget.upgrades \in Nat /\ \A x \in Devices : down[x] \in Seq(Frames)
      /\ \A x \in Devices : dev[x].upgrade \in Nat
      /\ \A a \in acks : a.upgrade \in Nat
      /\ \A x \in Devices : \A i \in 1 .. Len(down[x]) : down[x][i].upgrade \in Nat
  <2>1. \A x \in Devices : down[x] \in Seq(Frames)
    BY DEF TypeOK
  <2>2. \A x \in Devices : \A i \in 1 .. Len(down[x]) : down[x][i] \in Frames
    BY <2>1, ElementOfSeq
  <2>3. \A x \in Devices : \A i \in 1 .. Len(down[x]) : down[x][i].upgrade \in Nat
    BY <2>2 DEF Frames
  <2>4. \A a \in acks : a \in [from : Devices, upgrade : Nat]
    BY DEF TypeOK
  <2>5. \A x \in Devices : dev[x].upgrade \in Nat
    BY DEF TypeOK, DeviceStates
  <2> QED BY <2>1, <2>3, <2>4, <2>5, CoordinatorType DEF TypeOK, Coordinator
<1>1. transfer'.stage # "idle" => proto' = NoProtocol
  BY CoordinatorParts
<1>2. ASSUME NEW n \in Nat, Old(n) PROVE OldNext(n)
  <2>1. CASE BeginUpgrade
    <3>1. budget'.upgrades = budget.upgrades - 1
      BY <2>1, CoordinatorParts
    <3> QED BY <1>0, <1>2, <3>1 DEF Old
  <2>2. CASE ~BeginUpgrade
    <3>1. budget'.upgrades = budget.upgrades
      BY <2>2, CoordinatorParts
    <3>2. proto' # NoProtocol /\ ~proto'.sent => proto # NoProtocol /\ ~proto.sent
      BY <2>2, CoordinatorParts
    <3> QED BY <1>2, <3>1, <3>2 DEF Old
  <2> QED BY <2>1, <2>2
<1> HIDE DEF OldNext
<1>3. \A x \in Devices : dev'[x].mode # None => OldNext(dev'[x].upgrade)
  BY <1>0, <1>2 DEF Numbers
<1>4. \A a \in acks' : OldNext(a.upgrade)
  BY <1>0, <1>2, CoordinatorParts DEF Numbers
<1>5. ASSUME NEW x \in Devices, NEW i \in 1 .. Len(down'[x]), down'[x][i].kind = "Prepare"
      PROVE  OldNext(down'[x][i].upgrade)
  <2>1. CASE down' = down
    BY <1>0, <1>2, <1>5, <2>1 DEF Numbers
  <2>2. CASE down' # down
    <3>1. PICK kind \in {"Prepare", "Cancel", "Enter", "chunk", "garbled"} :
                 /\ down' = ToAll(Frame(kind))
                 /\ kind = "Prepare" => proto'.sent
      BY <2>2, CoordinatorParts
    <3> DEFINE f == Frame(kind)
    <3>2. /\ f \in Frames /\ f.kind = kind /\ f.upgrade = budget.upgrades
          /\ down'[x] = IF x \in Port THEN Append(down[x], f) ELSE down[x]
      BY <3>1, Sent
    <3> HIDE DEF f
    <3>3. CASE x \notin Port
      <4>1. down'[x] = down[x]
        BY <3>2, <3>3
      <4> QED BY <1>0, <1>2, <1>5, <4>1 DEF Numbers
    <3>4. CASE x \in Port
      <4>1. down'[x] = Append(down[x], f) /\ down[x] \in Seq(Frames)
        BY <1>0, <3>2, <3>4
      <4>2. /\ Len(down'[x]) = Len(down[x]) + 1 /\ Len(down[x]) \in Nat
            /\ \A n \in 1 .. Len(down[x]) : down'[x][n] = down[x][n]
            /\ down'[x][Len(down[x]) + 1] = f
        BY <3>2, <4>1, AppendProperties, LenProperties
      <4>3. CASE i = Len(down[x]) + 1
        <5>1. down'[x][i].upgrade = budget.upgrades /\ kind = "Prepare"
          BY <1>5, <3>2, <4>2, <4>3
        <5>2. ~BeginUpgrade
          BY <2>2, CoordinatorParts
        <5>3. budget'.upgrades = budget.upgrades /\ proto'.sent
          BY <3>1, <5>1, <5>2, CoordinatorParts
        <5> QED BY <1>0, <5>1, <5>3 DEF OldNext
      <4>4. CASE i # Len(down[x]) + 1
        <5>1. i \in 1 .. Len(down[x]) /\ down'[x][i] = down[x][i]
          BY <4>2, <4>4
        <5> QED BY <1>0, <1>2, <1>5, <5>1 DEF Numbers
      <4> QED BY <4>3, <4>4
    <3> QED BY <3>3, <3>4
  <2> QED BY <2>1, <2>2
<1> QED BY <1>1, <1>3, <1>4, <1>5 DEF Numbers, Old, OldNext

-----------------------------------------------------------------------------
(* A device that is ready for the present upgrade stays so until it        *)
(* resets, for no order reaches it any more.                               *)
LEMMA AckedKept ==
  ASSUME TypeOK, Clean, Live, NEW d \in Devices, Inner(d), NEW x \in Devices, Acked(x)
  PROVE  Acked(x)'
<1>0. budget' = budget
  BY InnerRest
<1>1. Knows(x)
  BY DEF Acked, Knows, None
<1>2. x \in Upwards(x)
  BY Ancestors
<1>3. dev'[x].mode = dev[x].mode /\ dev'[x].upgrade = dev[x].upgrade
  <2>1. CASE Recv(d)
    <3>1. ASSUME x = d PROVE Head(down[d]).kind \notin Orders
      <4>1. NoneOf(down[d], Orders)
        BY <1>1, <1>2, <3>1 DEF Clean
      <4>2. down[d] # <<>>
        BY <2>1, RecvParts
      <4> QED BY <4>1, <4>2, NoneOfTail DEF TypeOK
    <3> QED BY <2>1, <3>1, RecvParts DEF Orders
  <2>2. CASE PollMode(d)
    <3>1. dev[d].mode \in {"erase", "passive"}
      BY <2>2, PollModeParts
    <3>2. x # d
      BY <3>1 DEF Acked
    <3> QED BY <2>2, <3>2, PollModeParts
  <2>3. CASE ReadChunk(d)
    BY <2>3, ReadChunkParts
  <2>4. CASE Signal(d)
    BY <2>4, SignalParts
  <2>5. CASE Confirm(d) \/ Verify(d) \/ Switch(d)
    <3>1. dev[x].mode # "confirm"
      BY DEF Acked
    <3> QED BY <2>5, <3>1, EndParts
  <2> QED BY <2>1, <2>2, <2>3, <2>4, <2>5 DEF Inner
<1> QED BY <1>0, <1>3 DEF Acked

(* The answers, and the devices that are counted, over a device's steps.   *)
LEMMA InnerCounted ==
  ASSUME TypeOK, Rested, Numbers, Clean, Answered, Counted, NEW d \in Devices, Inner(d)
  PROVE  Answered' /\ Counted'
<1>0. UNCHANGED <<proto, transfer, late, stale, budget>>
  BY InnerRest
<1>1. (Live' <=> Live) /\ Trusted' = Trusted
  BY <1>0 DEF Live, Trusted
<1>2. \A x \in Devices : dev'[x].link = dev[x].link
  BY InnerLoops
<1>3. ASSUME NEW a \in acks'
      PROVE  /\ dev'[a.from].link = "up"
             /\ Live /\ a.upgrade = budget.upgrades => Acked(a.from)'
  <2>1. CASE a \in acks
    <3>1. a.from \in Devices
      BY <2>1 DEF TypeOK
    <3> QED BY <1>2, <2>1, <3>1, AckedKept DEF Answered
  <2>2. CASE a \notin acks
    <3>1. PollMode(d)
      BY <1>3, <2>2 DEF Inner, Recv, ReadChunk, Signal, Confirm, Verify, Switch
    <3>2. a.from = d /\ a.upgrade = dev[d].upgrade
      BY <1>3, <2>2, <3>1 DEF PollMode
    <3>3. dev'[d].link = "up" /\ dev'[d].mode \in {"ready", "forward"}
          /\ dev'[d].upgrade = dev[d].upgrade
      BY <3>1, PollModeParts
    <3> QED BY <1>0, <3>2, <3>3 DEF Acked
  <2> QED BY <2>1, <2>2
<1>4. Answered'
  BY <1>0, <1>1, <1>3 DEF Answered
<1>5. ASSUME proto # NoProtocol, ~proto.abort,
             NEW x \in (proto.confirmed \union proto.passive) \intersect Trusted,
             dev'[x].link = "up"
      PROVE  Acked(x)'
  <2>1. x \in Devices /\ Live /\ dev[x].link = "up"
    BY <1>2, <1>5 DEF Live, Trusted
  <2>2. Acked(x)
    BY <1>5, <2>1 DEF Counted
  <2> QED BY <2>1, <2>2, AckedKept
<1>6. ASSUME transfer.stage # "idle", NEW x \in Trusted, dev'[x].link = "up"
      PROVE  Acked(x)'
  <2>1. x \in Devices /\ Live /\ dev[x].link = "up"
    BY <1>2, <1>6 DEF Live, Trusted
  <2>2. Acked(x)
    BY <1>6, <2>1 DEF Counted
  <2> QED BY <2>1, <2>2, AckedKept
<1>7. Counted'
  BY <1>0, <1>1, <1>5, <1>6 DEF Counted
<1> QED BY <1>4, <1>7

(* Power and links: the answers of what is gone are lost, and what joins   *)
(* in the middle of an upgrade is late.                                    *)
LEMMA PowerCounted ==
  ASSUME TypeOK, LinkInvariant, ChainUp, Numbers, Answered, Counted, NEW d \in Devices,
         Reset(d) \/ Unplug(d) \/ PlugIn(d) \/ Join(d)
  PROVE  Answered' /\ Counted'
<1>0. UNCHANGED <<proto, transfer>> /\ budget'.upgrades = budget.upgrades
  BY DeviceNumbers
<1>1. stale' = stale /\ late \subseteq late'
  BY DEF Reset, Unplug, PlugIn, Join, history
<1>2. (Live' => Live) /\ Trusted' \subseteq Trusted
  BY <1>0, <1>1 DEF Live, Trusted
<1>3. ASSUME NEW x \in Devices, dev'[x].link = "up", ~Join(d) \/ x # d
      PROVE  dev[x].link = "up" /\ dev'[x] = dev[x]
  <2>1. x \in Upwards(x)
    BY Ancestors
  <2> QED BY <1>3, <2>1, PowerKeeps, JoinKeeps
<1>4. ASSUME NEW x \in Devices, dev'[x].link = "up", ~Join(d) \/ x # d
      PROVE  Acked(x)' <=> Acked(x)
  BY <1>0, <1>3, <1>4 DEF Acked
<1>5. ASSUME NEW a \in acks' PROVE a \in acks /\ dev'[a.from].link = "up" /\ (~Join(d) \/ a.from # d)
  <2>1. a \in acks
    BY <1>5 DEF Reset, Unplug, PlugIn, Join, LinksLost
  <2>2. dev[a.from].link = "up" /\ a.from \in Devices
    BY <2>1 DEF Answered, TypeOK
  <2>3. CASE Reset(d) \/ Unplug(d)
    <3>1. a.from \notin Downwards(d)
      BY <1>5, <2>3 DEF Reset, Unplug, LinksLost
    <3>2. d \in Downwards(d)
      BY Ancestors
    <3>3. dev'[a.from] = dev[a.from]
      BY <2>2, <2>3, <3>1, <3>2 DEF Reset, Unplug
    <3> QED BY <2>1, <2>2, <3>1, <3>2, <3>3
  <2>4. CASE PlugIn(d)
    <3>1. dev[d].link = "off" /\ dev' = [dev EXCEPT ![d] = Booted]
      BY <2>4 DEF PlugIn
    <3>2. a.from # d
      BY <2>2, <3>1
    <3> QED BY <2>1, <2>2, <3>1, <3>2 DEF TypeOK
  <2>5. CASE Join(d)
    <3>1. dev[d].link = "on"
      BY <2>5, JoinParts
    <3>2. a.from # d
      BY <2>2, <3>1
    <3> QED BY <2>1, <2>2, <2>5, <3>2, JoinParts
  <2> QED BY <2>3, <2>4, <2>5
<1>6. Answered'
  <2>1. ASSUME NEW a \in acks', Live, a.upgrade = budget.upgrades PROVE Acked(a.from)'
    <3>1. a \in acks /\ dev'[a.from].link = "up" /\ (~Join(d) \/ a.from # d)
      BY <1>5
    <3>2. Acked(a.from) /\ a.from \in Devices
      BY <2>1, <3>1 DEF Answered, TypeOK
    <3> QED BY <1>4, <3>1, <3>2
  <2> QED BY <1>0, <1>2, <1>5, <2>1 DEF Answered
<1>7. ASSUME proto # NoProtocol \/ transfer.stage # "idle", NEW x \in Trusted'
      PROVE  x \in Trusted /\ x \in Devices /\ (~Join(d) \/ x # d)
  <2>1. Join(d) => d \in late'
    BY <1>7, JoinParts
  <2> QED BY <1>2, <1>7, <2>1 DEF Trusted
<1>8. Counted'
  <2>1. ASSUME proto # NoProtocol, ~proto.abort,
               NEW x \in (proto.confirmed \union proto.passive) \intersect Trusted',
               dev'[x].link = "up"
        PROVE  Acked(x)'
    <3>1. x \in Trusted /\ x \in Devices /\ (~Join(d) \/ x # d)
      BY <1>7, <2>1
    <3>2. dev[x].link = "up"
      BY <1>3, <2>1, <3>1
    <3>3. Acked(x)
      BY <2>1, <3>1, <3>2 DEF Counted
    <3> QED BY <1>4, <2>1, <3>1, <3>3
  <2>2. ASSUME transfer.stage # "idle", NEW x \in Trusted', dev'[x].link = "up"
        PROVE  Acked(x)'
    <3>1. x \in Trusted /\ x \in Devices /\ (~Join(d) \/ x # d)
      BY <1>7, <2>2
    <3>2. dev[x].link = "up"
      BY <1>3, <2>2, <3>1
    <3>3. Acked(x)
      BY <2>2, <3>1, <3>2 DEF Counted
    <3> QED BY <1>4, <2>2, <3>1, <3>3
  <2> QED BY <1>0, <1>1, <2>1, <2>2 DEF Counted
<1> QED BY <1>6, <1>8

(* The devices a protocol waits for, and those that have answered.         *)
LEMMA ProtocolCounts ==
  ASSUME TypeOK, Answered, Live, NEW a \in acks, RecvAck(a), proto # NoProtocol
  PROVE  /\ proto'.abort = proto.abort /\ stale \subseteq stale' /\ late' = late
         /\ \A x \in proto'.confirmed \union proto'.passive :
              x \in proto.confirmed \union proto.passive \/ x \in stale' \/ Acked(x)
<1>1. proto \in Protocols /\ late' = late /\ stale \subseteq stale'
  BY DEF RecvAck, TypeOK
<1>2. CASE a.from \in proto.devices
  <2>1. stale' = IF a.upgrade = budget.upgrades THEN stale ELSE stale \union {a.from}
    BY <1>2 DEF RecvAck
  <2>2. a.from \in stale' \/ Acked(a.from)
    BY <2>1 DEF Answered
  <2>3. \/ proto' = [proto EXCEPT !.confirmed = @ \union {a.from}]
        \/ proto' = [proto EXCEPT !.passive = @ \union {a.from}]
    BY <1>2 DEF RecvAck
  <2>4. /\ proto'.abort = proto.abort
        /\ proto'.confirmed \union proto'.passive = proto.confirmed \union proto.passive \union {a.from}
    <3>1. CASE proto' = [proto EXCEPT !.confirmed = @ \union {a.from}]
      BY <1>1, <3>1 DEF Protocols
    <3>2. CASE proto' = [proto EXCEPT !.passive = @ \union {a.from}]
      BY <1>1, <3>2 DEF Protocols
    <3> QED BY <2>3, <3>1, <3>2
  <2> QED BY <1>1, <2>2, <2>4
<1>3. CASE a.from \notin proto.devices
  <2>1. proto' = proto /\ stale' = stale
    BY <1>3 DEF RecvAck
  <2> QED BY <1>1, <2>1
<1> QED BY <1>2, <1>3

(* The coordinator takes an answer for one to this upgrade only where it   *)
(* is one, or the device is remembered as stale.                           *)
LEMMA CoordinatorCounted ==
  ASSUME TypeOK, Numbers, Answered, Counted, Coordinator
  PROVE  Answered' /\ Counted'
<1>0. /\ dev' = dev /\ budget.upgrades \in Nat /\ proto \in Protocols /\ seen \subseteq Devices
      /\ \A a \in acks : a.from \in Devices /\ a.upgrade \in Nat
  <2>1. \A a \in acks : a \in [from : Devices, upgrade : Nat]
    BY DEF TypeOK
  <2> QED BY <2>1, CoordinatorType DEF TypeOK, Coordinator
<1>1. CASE BeginUpgrade
  <2>1. /\ budget'.upgrades = budget.upgrades - 1 /\ acks' = acks /\ transfer.stage = "idle"
    BY <1>1, CoordinatorParts
  <2>2. \A a \in acks : a.upgrade # budget'.upgrades
    BY <1>0, <2>1 DEF Numbers, Old
  <2>3. Answered'
    BY <1>0, <2>1, <2>2 DEF Answered
  <2>4. /\ proto' = Protocol(seen, {x \in seen : Running(x) = "old"}) /\ transfer' = transfer
        /\ late' = late \union (Devices \ seen)
    BY <1>1 DEF BeginUpgrade
  <2>5. proto'.devices = seen /\ proto'.confirmed = {} /\ proto'.passive = {}
    BY <2>4 DEF Protocol
  <2> QED BY <2>1, <2>3, <2>4, <2>5 DEF Counted
<1>2. CASE ~BeginUpgrade
  <2>1. /\ budget'.upgrades = budget.upgrades /\ acks' \subseteq acks
        /\ late \subseteq late' /\ stale \subseteq stale'
    BY <1>2, CoordinatorParts
  <2>2. (\A x : Acked(x)' <=> Acked(x)) /\ Trusted' \subseteq Trusted
    BY <1>0, <2>1 DEF Acked, Trusted
  <2>3. Live' => Live
    <3>0. Live' => Trusted # {}
      BY <2>2 DEF Live
    <3>1. CASE transfer'.stage # "idle" /\ transfer.stage = "idle"
      BY <3>0, <3>1, CoordinatorParts DEF Live, Complete
    <3>2. CASE transfer'.stage # "idle" /\ transfer.stage # "idle"
      BY <3>0, <3>2 DEF Live
    <3>3. CASE transfer'.stage = "idle"
      <4> SUFFICES ASSUME Live' PROVE Live
        OBVIOUS
      <4>1. proto' # NoProtocol /\ ~proto'.abort
        BY <3>3 DEF Live
      <4>2. proto # NoProtocol /\ ~proto.abort
        BY <1>2, <4>1, CoordinatorParts
      <4> QED BY <3>0, <4>2 DEF Live
    <3> QED BY <3>1, <3>2, <3>3
  <2>4. Answered'
    BY <1>0, <2>1, <2>2, <2>3 DEF Answered
  <2>5. ASSUME proto' # NoProtocol PROVE Devices \ late' \subseteq proto'.devices
    <3>1. proto # NoProtocol /\ proto'.devices = proto.devices
      BY <1>2, <2>5, CoordinatorParts
    <3> QED BY <2>1, <3>1 DEF Counted
  <2>6. ASSUME proto' # NoProtocol, ~proto'.abort,
               NEW x \in (proto'.confirmed \union proto'.passive) \intersect Trusted',
               dev'[x].link = "up"
        PROVE  Acked(x)'
    <3>1. proto # NoProtocol /\ ~proto.abort /\ Live
      BY <1>2, <2>2, <2>6, CoordinatorParts DEF Live
    <3>2. \/ x \in proto.confirmed \union proto.passive
          \/ x \in stale'
          \/ Acked(x)
      <4>1. CASE \E a \in acks : RecvAck(a)
        BY <2>6, <3>1, <4>1, ProtocolCounts
      <4>2. CASE ~\E a \in acks : RecvAck(a)
        <5>1. proto' \in {proto, [proto EXCEPT !.sent = TRUE]} \/ \E b : proto' = [proto EXCEPT !.abort = b]
          BY <1>2, <2>6, <4>2 DEF Coordinator, CoordinatorStep, PollProtocol, Disconnected, Connected,
             CancelProtocol, SendCancelAll, EnterUpgradeMode, WriteChunk, ReadReady, ReadTimesOut
        <5>2. proto'.confirmed = proto.confirmed /\ proto'.passive = proto.passive
          BY <1>0, <5>1 DEF Protocols
        <5> QED BY <2>6, <5>2
      <4> QED BY <4>1, <4>2
    <3> QED BY <1>0, <2>2, <2>6, <3>1, <3>2 DEF Counted, Trusted
  <2>7. ASSUME transfer'.stage # "idle", NEW x \in Trusted', dev'[x].link = "up" PROVE Acked(x)'
    <3>1. x \in Trusted /\ dev[x].link = "up" /\ x \in Devices
      BY <1>0, <2>2, <2>7 DEF Trusted
    <3>2. CASE transfer.stage # "idle"
      BY <2>2, <3>1, <3>2 DEF Counted
    <3>3. CASE transfer.stage = "idle"
      <4>1. proto # NoProtocol /\ Complete(proto)
        BY <2>7, <3>3, CoordinatorParts
      <4>2. x \in proto.devices
        BY <3>1, <4>1 DEF Counted, Trusted
      <4>3. x \in proto.confirmed \union proto.passive
        BY <4>1, <4>2 DEF Complete
      <4>4. Acked(x)
        BY <3>1, <4>1, <4>3 DEF Counted, Complete
      <4> QED BY <2>2, <4>4
    <3> QED BY <3>2, <3>3
  <2>8. Counted'
    BY <2>5, <2>6, <2>7 DEF Counted
  <2> QED BY <2>4, <2>8
<1> QED BY <1>1, <1>2

-----------------------------------------------------------------------------
(* A device that gives up, or one beside it, was not counted as it should. *)
LEMMA GivesUpOnly ==
  ASSUME TypeOK, EnterFirst, NoEnter, Counted, NEW d \in Devices, Inner(d),
         NEW x \in Devices, dev'[x].loop = "panicked", dev[x].loop # "panicked"
  PROVE  ({x} \union Under(x)) \intersect (late \union stale) # {}
<1>1. CASE Recv(d)
  <2>1. /\ x = d /\ Listening(d) /\ down[d] # <<>>
        /\ \/ Head(down[d]).kind \in ChunkKinds
           \/ /\ Head(down[d]).kind = "Enter"
              /\ dev[d].mode \notin {"ready", "passive", "forward"}
    BY <1>1, RecvParts DEF Listening
  <2>2. Head(down[d]).kind \notin ChunkKinds
    BY <2>1, AheadTail DEF EnterFirst, TypeOK
  <2>3. ~NoneOf(down[d], {"Enter"})
    BY <2>1, <2>2, NoneOfTail DEF TypeOK
  <2>4. transfer.stage # "idle"
    BY <2>1, <2>3 DEF NoEnter
  <2>5. ~Acked(d)
    BY <2>1, <2>2 DEF Acked
  <2>6. d \notin Trusted
    BY <2>1, <2>4, <2>5 DEF Counted, Listening
  <2> QED BY <2>1, <2>6 DEF Trusted
<1>2. CASE PollMode(d)
  <2>1. /\ dev[d].link = "up" /\ dev[d].loop = "run" /\ dev[d].mode \in {"erase", "passive"}
        /\ x \in Above(d) /\ dev[x].loop = "transfer"
    BY <1>2, PollModeParts
  <2>2. d \in Devices \ {Head1} /\ Under(x) = {d}
    BY <2>1, AboveIs, Neighbours
  <2>3. Listening(d) /\ ~NoneOf(down[d], {"Enter"})
    BY <2>1, <2>2 DEF EnterFirst, Listening
  <2>4. transfer.stage # "idle"
    BY <2>3 DEF NoEnter
  <2>5. ~Acked(d)
    BY <2>1 DEF Acked
  <2>6. d \notin Trusted
    BY <2>1, <2>4, <2>5 DEF Counted
  <2> QED BY <2>2, <2>6 DEF Trusted
<1>3. CASE ReadChunk(d)
  BY <1>3, ReadChunkParts
<1>4. CASE Signal(d)
  BY <1>4, SignalParts
<1>5. CASE Confirm(d) \/ Verify(d) \/ Switch(d)
  BY <1>5, EndParts
<1> QED BY <1>1, <1>2, <1>3, <1>4, <1>5 DEF Inner

(* At first no upgrade was begun.                                          *)
LEMMA ReadyInit == Init => ReadyInvariant
<1> SUFFICES ASSUME Init PROVE ReadyInvariant
  OBVIOUS
<1>1. \A d \in Devices : /\ dev[d].loop = "run" /\ dev[d].link = "up" /\ ~dev[d].told
                         /\ dev[d].mode = None /\ dev[d].count = 0 /\ ~dev[d].belowReady
                         /\ down[d] = <<>> /\ readyByte[d] = 0
  BY FreshFields, FreshParts DEF Init
<1>2. /\ proto = NoProtocol /\ transfer.stage = "idle" /\ acks = {}
  BY DEF Init
<1>3. NoneOf(<<>>, {"Enter"}) /\ Ahead(<<>>) /\ Len(<<>>) = 0
  BY DEF NoneOf, Ahead
<1>4. \A d \in Devices : ~Started(d) /\ Upwards(d) \subseteq Devices
  BY <1>1, Ancestors DEF Started
<1>5. ChainUp /\ Rested /\ StartedBelow
  BY <1>1, <1>4 DEF ChainUp, Rested, StartedBelow
<1>6. EnterFirst /\ NoEnter /\ PortLost
  <2>1. \A d \in Devices \ {Head1} : \A e \in Above(d) : e \in Devices
    BY Neighbours
  <2> QED BY <1>1, <1>2, <1>3, <2>1 DEF EnterFirst, NoEnter, PortLost
<1>7. Numbers /\ Behind /\ Clean /\ Answered /\ Counted
  BY <1>1, <1>2, <1>3 DEF Numbers, Behind, Clean, Answered, Counted, Live
<1>8. EnteredOnlyWhenReady
  BY <1>1 DEF EnteredOnlyWhenReady
<1> QED BY <1>5, <1>6, <1>7, <1>8 DEF ReadyInvariant

(* Every step keeps the invariant.                                         *)
LEMMA ReadyStep ==
  ASSUME TypeOK, LinkInvariant, ReadyInvariant, [Next]_vars
  PROVE  ReadyInvariant'
<1> USE DEF ReadyInvariant
<1>1. CASE Coordinator
  <2>1. ChainUp' /\ Rested' /\ StartedBelow'
    BY <1>1, CoordinatorChain DEF Coordinator
  <2>2. EnterFirst' /\ NoEnter' /\ PortLost'
    BY <1>1, CoordinatorEnter
  <2>3. Numbers' /\ Behind' /\ Clean'
    BY <1>1, CoordinatorNumbers, CoordinatorClean
  <2>4. Answered' /\ Counted'
    BY <1>1, CoordinatorCounted
  <2>5. EnteredOnlyWhenReady'
    <3>1. dev' = dev /\ late \subseteq late' /\ stale \subseteq stale'
      BY <1>1, CoordinatorType, CoordinatorParts DEF Coordinator
    <3> QED BY <3>1 DEF EnteredOnlyWhenReady
  <2> QED BY <2>1, <2>2, <2>3, <2>4, <2>5
<1>2. ASSUME NEW d \in Devices, Inner(d) PROVE ReadyInvariant'
  <2>1. ChainUp' /\ Rested' /\ StartedBelow'
    BY <1>2, InnerChain
  <2>2. EnterFirst' /\ NoEnter' /\ PortLost'
    BY <1>2, InnerEnter
  <2>3. Numbers' /\ Behind' /\ Clean'
    BY <1>2, DeviceNumbers, InnerClean
  <2>4. Answered' /\ Counted'
    BY <1>2, InnerCounted
  <2>5. EnteredOnlyWhenReady'
    <3>1. late' = late /\ stale' = stale
      BY <1>2, InnerRest
    <3>2. \A x \in Devices : dev'[x].loop = "panicked" =>
            ({x} \union Under(x)) \intersect (late \union stale) # {}
      BY <1>2, GivesUpOnly DEF EnteredOnlyWhenReady
    <3> QED BY <3>1, <3>2 DEF EnteredOnlyWhenReady, Under
  <2> QED BY <2>1, <2>2, <2>3, <2>4, <2>5
<1>3. ASSUME NEW d \in Devices, Reset(d) \/ Unplug(d) \/ PlugIn(d) \/ Join(d)
      PROVE  ReadyInvariant'
  <2>1. ChainUp' /\ Rested' /\ StartedBelow'
    BY <1>3, PowerChain
  <2>2. EnterFirst' /\ NoEnter' /\ PortLost'
    BY <1>3, PowerEnter
  <2>3. Numbers' /\ Behind' /\ Clean'
    BY <1>3, DeviceNumbers, PowerClean
  <2>4. Answered' /\ Counted'
    BY <1>3, PowerCounted
  <2>5. EnteredOnlyWhenReady'
    <3>1. late \subseteq late' /\ stale' = stale
      BY <1>3 DEF Reset, Unplug, PlugIn, Join, history
    <3>2. \A x \in Devices : dev'[x].loop = "panicked" => dev[x].loop = "panicked"
      BY <1>3, PowerParts
    <3> QED BY <3>1, <3>2 DEF EnteredOnlyWhenReady, Under
  <2> QED BY <2>1, <2>2, <2>3, <2>4, <2>5
<1>4. CASE UNCHANGED vars
  BY <1>4 DEF vars, ChainUp, Rested, StartedBelow, EnterFirst, NoEnter, PortLost, Numbers, Behind,
     Clean, Answered, Counted, EnteredOnlyWhenReady, Started, Ahead, Listening, NoneOf, Old, Live,
     Knows, Acked, Trusted, Port, Upwards
<1> QED BY <1>1, <1>2, <1>3, <1>4 DEF Next, DeviceStep, Inner, Coordinator

(* What has to hold of the chain for an upgrade to be entered rightly.     *)
THEOREM FirmwareUpgradeReadyInvariant == Spec => []ReadyInvariant
<1>1. Init => ReadyInvariant
  BY ReadyInit
<1>2. TypeOK /\ LinkInvariant /\ ReadyInvariant /\ [Next]_vars => ReadyInvariant'
  BY ReadyStep
<1> QED BY <1>1, <1>2, FirmwareUpgradeTypeOK, FirmwareUpgradeLinkInvariant, PTL DEF Spec

(* A device is sent EnterUpgradeMode only when it is ready for it.         *)
THEOREM FirmwareUpgradeEnteredOnlyWhenReady == Spec => []EnteredOnlyWhenReady
<1>1. ReadyInvariant => EnteredOnlyWhenReady
  BY DEF ReadyInvariant
<1> QED BY <1>1, FirmwareUpgradeReadyInvariant, PTL

=============================================================================
