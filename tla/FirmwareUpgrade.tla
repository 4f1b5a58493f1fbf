--------------------------- MODULE FirmwareUpgrade ---------------------------
(***************************************************************************)
(* A firmware upgrade of the devices in a chain: the coordinator's         *)
(* protocol that waits until every device is ready, the transfer that all  *)
(* devices write and hand on chunk by chunk, and the two slots of a        *)
(* device's flash with the otadata that tells the bootloader which to use. *)
(*                                                                         *)
(* Links are up or not: how they come up is DeviceLink.  A message to all  *)
(* passes from device to device; during the transfer the same link carries *)
(* chunks down and bytes that say "ready" up.  One erase of the spare slot *)
(* stands for the erases of its sectors.                                   *)
(***************************************************************************)
EXTENDS Integers, Sequences, FiniteSets, SequencesExt

CONSTANTS
  Chain,          \* the devices in the order they are plugged in
  Chunks,         \* chunks of the new firmware
  MaxUpgrades,    \* bound on upgrades that are begun
  MaxFaults       \* bound on cables pulled, garbled chunks and cancellations

Devices == ToSet(Chain)

ASSUME UpgradeAssumption ==
  /\ Chain \in Seq(Devices) /\ IsInjective(Chain)
  /\ Chunks \in Nat \ {0}
  /\ MaxUpgrades \in Nat
  /\ MaxFaults \in Nat

VARIABLES
  flash,      \* each device's otadata and slots
  dev,        \* each device's loop
  down,       \* what is on its way to each device
  readyByte,  \* number of ready bytes each device has sent that were not read
  acks,       \* AckUpgradeMode on their way to the coordinator
  seen,       \* devices in the coordinator's device list
  proto,      \* FirmwareUpgradeProtocol, or NoProtocol
  transfer,   \* what the app does after it, and the chunks it has written
  lost,       \* listed devices whose disconnection was not processed yet
  cancelling, \* calls of cancel_protocol that have still to send Cancel
  late,       \* history: devices that joined, or got the Cancel of an earlier
              \*   one, when an upgrade was under way
  stale,      \* history: devices counted for what they said in an earlier one
  budget

deviceVars == <<flash, dev, readyByte>>
history == <<late, stale>>
vars == <<flash, dev, down, readyByte, acks, seen, proto, transfer, lost, cancelling, late, stale,
          budget>>

None == "none"
Slots == {0, 1}
NoSlot == -1

-----------------------------------------------------------------------------
(* The flash.  An otadata sector is a sequence number, 0 when it does not  *)
(* read; a slot holds an old or the new firmware, or is not complete.      *)

Other(slot) == 1 - slot

(* current_slot: the first readable otadata with the higher number. *)
CurrentSlot(f) ==
  IF \A s \in Slots : f.otadata[s] = 0 THEN NoSlot
  ELSE IF f.otadata[1] > f.otadata[0] THEN 1 ELSE 0

\* Mutant: the slot that is running is written.
NextSlotRunning(f) == IF CurrentSlot(f) = NoSlot THEN 0 ELSE CurrentSlot(f)

NextSlot(f) == IF CurrentSlot(f) = NoSlot THEN 0 ELSE Other(CurrentSlot(f))

ActivePartition(f) == IF CurrentSlot(f) = NoSlot THEN 0 ELSE CurrentSlot(f)

(* The bootloader takes the slot that the highest number stands for. *)
BootSlot(f) ==
  LET seq == IF f.otadata[0] >= f.otadata[1] THEN f.otadata[0] ELSE f.otadata[1]
  IN  IF seq = 0 THEN 0 ELSE (seq - 1) % 2

Running(d) == flash[d].image[BootSlot(flash[d])]

-----------------------------------------------------------------------------
Idle == [link |-> "off", loop |-> "run", mode |-> None, upgrade |-> 0, count |-> 0,
         below |-> FALSE, belowReady |-> FALSE, told |-> FALSE, garbled |-> FALSE]
Booted == [Idle EXCEPT !.link = "on"]

Protocol(devices, need) == [devices |-> devices, need |-> need, confirmed |-> {},
                            passive |-> {}, sent |-> FALSE, abort |-> FALSE]
NoProtocol == Protocol({}, {})

(* The devices run from the first slot, as they leave the factory, or from *)
(* the second after an earlier upgrade; some may have the new firmware.    *)
Init ==
  /\ \E start \in Slots, current \in SUBSET Devices :
       flash = [d \in Devices |->
                  [otadata |-> [s \in Slots |-> IF s <= start THEN s + 1 ELSE 0],
                   image |-> [s \in Slots |-> IF s # start THEN "partial"
                                              ELSE IF d \in current THEN "new" ELSE "old"]]]
  /\ dev = [d \in Devices |-> [Booted EXCEPT !.link = "up"]]
  /\ down = [d \in Devices |-> <<>>]
  /\ readyByte = [d \in Devices |-> 0]
  /\ acks = {}
  /\ seen = Devices
  /\ proto = NoProtocol
  /\ transfer = [stage |-> "idle", written |-> 0]
  /\ lost = {}
  /\ cancelling = 0
  /\ late = {}
  /\ stale = {}
  /\ budget = [upgrades |-> MaxUpgrades, faults |-> MaxFaults]

Position(d) == SelectInSeq(Chain, LAMBDA e : e = d)
Above(d) == IF Position(d) = 1 THEN {} ELSE {Chain[Position(d) - 1]}
Under(d) == IF Position(d) = Len(Chain) THEN {} ELSE {Chain[Position(d) + 1]}
Below(d) == {e \in Under(d) : dev[e].link = "up"}
Downwards(d) == {e \in Devices : Position(e) >= Position(d)}
Head1 == Chain[1]

Frame(kind) == [kind |-> kind, upgrade |-> budget.upgrades]

(* A frame is put on the links to some devices. *)
Put(links, devices, frame) ==
  [d \in Devices |-> IF d \in devices THEN Append(links[d], frame) ELSE links[d]]

(* A message to all is written to the port, if there is one. *)
Port == {Head1} \intersect (seen \ lost)
ToAll(frame) == Put(down, Port, frame)

Fault == budget.faults > 0 /\ budget' = [budget EXCEPT !.faults = @ - 1]

-----------------------------------------------------------------------------
(* The protocol that waits for the devices.  The loop that polls the ports *)
(* runs it, until the app has asked for the transfer.                      *)

Polling == transfer.stage \in {"idle", "ready"}

(* begin_upgrade_firmware, for the devices that are listed. *)
BeginUpgrade ==
  /\ transfer.stage = "idle"
  /\ proto = NoProtocol
  /\ budget.upgrades > 0
  /\ \E d \in seen : Running(d) = "old"
  /\ budget' = [budget EXCEPT !.upgrades = @ - 1]
  /\ proto' = Protocol(seen, {d \in seen : Running(d) = "old"})
  /\ late' = late \union (Devices \ seen)
  /\ UNCHANGED <<deviceVars, down, acks, seen, transfer, lost, cancelling, stale>>

\* Mutant: devices that only hand the firmware on are not waited for.
CompleteActive(p) == ~p.abort /\ p.confirmed = p.need

Complete(p) == ~p.abort /\ p.confirmed = p.need /\ p.devices \ p.need \subseteq p.passive

(* poll, and the completion that the stack finds right after it: an abort  *)
(* sends Cancel to all, a success lets the app go on to the transfer.      *)
PollProtocol ==
  /\ Polling
  /\ proto # NoProtocol
  /\ \/ /\ proto.abort
        /\ down' = ToAll(Frame("Cancel"))
        /\ proto' = NoProtocol
        /\ UNCHANGED transfer
     \/ /\ ~proto.abort
        /\ ~proto.sent
        /\ down' = ToAll(Frame("Prepare"))
        /\ proto' = [proto EXCEPT !.sent = TRUE]
        /\ UNCHANGED transfer
     \/ /\ proto.sent
        /\ Complete(proto)
        /\ proto' = NoProtocol
        /\ transfer' = [transfer EXCEPT !.stage = "ready"]
        /\ UNCHANGED down
  /\ UNCHANGED <<deviceVars, acks, seen, lost, cancelling, history, budget>>

(* process_comms_message. *)
RecvAck(a) ==
  /\ Polling
  /\ a \in acks
  /\ a.from \notin lost
  /\ acks' = acks \ {a}
  /\ IF proto # NoProtocol /\ a.from \in proto.devices
       THEN /\ proto' = IF a.from \in proto.need
                          THEN [proto EXCEPT !.confirmed = @ \union {a.from}]
                          ELSE [proto EXCEPT !.passive = @ \union {a.from}]
            /\ stale' = IF a.upgrade = budget.upgrades THEN stale ELSE stale \union {a.from}
       ELSE UNCHANGED <<proto, stale>>
  /\ UNCHANGED <<deviceVars, down, seen, transfer, lost, cancelling, late, budget>>

(* A device that went aborts the protocol it is part of. *)
Disconnected(d) ==
  /\ Polling
  /\ d \in lost
  /\ lost' = lost \ {d}
  /\ seen' = seen \ {d}
  /\ proto' = IF proto = NoProtocol THEN NoProtocol
              ELSE [proto EXCEPT !.abort = @ \/ d \in proto.devices]
  /\ UNCHANGED <<deviceVars, down, acks, transfer, cancelling, history, budget>>

Connected(d) ==
  /\ Polling
  /\ d \notin seen
  /\ dev[d].link = "up"
  /\ seen' = seen \union {d}
  /\ UNCHANGED <<deviceVars, down, acks, proto, transfer, lost, cancelling, history, budget>>

(* cancel_protocol, under its locks: the protocol is off the stack.        *)
CancelProtocol ==
  /\ Polling
  /\ proto # NoProtocol
  /\ Fault
  /\ proto' = NoProtocol
  /\ cancelling' = cancelling + 1
  /\ UNCHANGED <<deviceVars, down, acks, seen, transfer, lost, history>>

(* Once they are dropped it sends Cancel, which the loop writes to the     *)
(* port: the next upgrade may have been announced before.                  *)
SendCancelAll ==
  /\ Polling
  /\ cancelling > 0
  /\ cancelling' = cancelling - 1
  /\ down' = ToAll(Frame("Cancel"))
  /\ late' = IF proto.sent \/ transfer.stage = "ready" THEN Devices ELSE late
  /\ UNCHANGED <<deviceVars, acks, seen, proto, transfer, lost, stale, budget>>

-----------------------------------------------------------------------------
(* run_firmware_upgrade, on the thread that otherwise polls the ports. *)

EnterUpgradeMode ==
  /\ transfer.stage = "ready"
  /\ down' = ToAll(Frame("Enter"))
  /\ transfer' = [stage |-> IF Port = {} THEN "idle" ELSE "write", written |-> 0]
  /\ UNCHANGED <<deviceVars, acks, seen, proto, lost, cancelling, history, budget>>

(* A chunk is written to the port, or the write fails. *)
WriteChunk(kind) ==
  /\ transfer.stage = "write"
  /\ IF kind = "garbled" THEN Fault ELSE UNCHANGED budget
  /\ down' = ToAll(Frame(kind))
  /\ transfer' = IF Port = {} THEN [transfer EXCEPT !.stage = "idle"]
                 ELSE [stage |-> "read", written |-> transfer.written + 1]
  /\ UNCHANGED <<deviceVars, acks, seen, proto, lost, cancelling, history>>

(* One byte is read after each chunk.  The devices say once that they are  *)
(* ready before the first, so the byte after a chunk is the answer to the  *)
(* chunk before, and the answer to the last chunk is not waited for.       *)
ReadReady ==
  /\ transfer.stage = "read"
  /\ readyByte[Head1] > 0
  /\ readyByte' = [readyByte EXCEPT ![Head1] = @ - 1]
  /\ transfer' = [transfer EXCEPT !.stage = IF transfer.written = Chunks THEN "idle" ELSE "write"]
  /\ UNCHANGED <<flash, dev, down, acks, seen, proto, lost, cancelling, history, budget>>

-----------------------------------------------------------------------------
(* The device loop.  The one above loses its footing when something other  *)
(* than a ready byte reaches it during the transfer.                       *)

Listening(d) == dev[d].link = "up" /\ dev[d].loop = "run"

Panics(d) == [dev[d] EXCEPT !.loop = "panicked"]

Warned(d, upgrade) ==
  [dev[d] EXCEPT !.mode = IF Running(d) = "new" THEN "passive" ELSE "confirm",
                 !.upgrade = upgrade]

(* enter_upgrade_mode, up to its loop. *)
Enters(d) ==
  IF dev[d].mode \in {"ready", "passive", "forward"}
    THEN [dev[d] EXCEPT !.loop = "transfer", !.below = Below(d) # {},
                        !.belowReady = Below(d) = {}]
    ELSE Panics(d)

(* A message to all is handed on before it is looked at; the loop panics   *)
(* on bytes that are not a message.                                        *)
Recv(d) ==
  /\ Listening(d)
  /\ down[d] # <<>>
  /\ LET frame == Head(down[d])
     IN  /\ down' = Put([down EXCEPT ![d] = Tail(@)], Below(d), frame)
         /\ dev' = [dev EXCEPT ![d] =
                      CASE frame.kind = "Prepare" -> Warned(d, frame.upgrade)
                        [] frame.kind = "Cancel" -> [dev[d] EXCEPT !.mode = None]
                        [] frame.kind = "Enter" -> Enters(d)
                        [] frame.kind \in {"chunk", "garbled"} -> Panics(d)]
  /\ UNCHANGED <<flash, readyByte, acks, seen, proto, transfer, lost, cancelling, history, budget>>

Confirm(d) ==
  /\ Listening(d)
  /\ dev[d].mode = "confirm"
  /\ dev' = [dev EXCEPT ![d].mode = "erase"]
  /\ UNCHANGED <<flash, down, readyByte, acks, seen, proto, transfer, lost, cancelling, history, budget>>

(* FirmwareUpgradeMode::poll: the spare slot is erased, and the coordinator *)
(* told.                                                                    *)
PollMode(d) ==
  /\ Listening(d)
  /\ dev[d].mode \in {"erase", "passive"}
  /\ flash' = IF dev[d].mode = "erase"
                THEN [flash EXCEPT ![d].image[NextSlot(flash[d])] = "partial"] ELSE flash
  /\ LET told == [dev EXCEPT ![d].mode = IF @ = "erase" THEN "ready" ELSE "forward"]
     IN  dev' = [e \in Devices |-> IF e \in Above(d) /\ dev[e].loop = "transfer"
                                     THEN Panics(e) ELSE told[e]]
  /\ acks' = acks \union {[from |-> d, upgrade |-> dev[d].upgrade]}
  /\ UNCHANGED <<down, readyByte, seen, proto, transfer, lost, cancelling, history, budget>>

-----------------------------------------------------------------------------
(* The loop of enter_upgrade_mode. *)

Upgrading(d) == dev[d].mode = "ready"
Spare(d) == NextSlot(flash[d])

\* Mutant: the chunk is taken although the device below is still writing.
TakesAny(d) == dev[d].loop = "transfer"

Takes(d) == dev[d].loop = "transfer" /\ dev[d].belowReady

(* A chunk is handed on and written; the last one ends the loop.  Whatever *)
(* else is sent is taken for a chunk.                                      *)
ReadChunk(d) ==
  /\ Takes(d)
  /\ down[d] # <<>>
  /\ LET frame == Head(down[d])
         count == dev[d].count + 1
         garbled == dev[d].garbled \/ frame.kind # "chunk"
     IN  /\ down' = Put([down EXCEPT ![d] = Tail(@)],
                        IF dev[d].below THEN Below(d) ELSE {}, frame)
         /\ dev' = [dev EXCEPT ![d] =
                      [@ EXCEPT !.count = count, !.garbled = garbled,
                                !.belowReady = ~dev[d].below, !.told = FALSE,
                                !.loop = IF count < Chunks THEN "transfer"
                                         ELSE IF Upgrading(d) THEN "verify" ELSE "reset"]]
         /\ flash' = IF Upgrading(d)
                       THEN [flash EXCEPT ![d].image[Spare(d)] =
                               IF count = Chunks /\ ~garbled THEN "new" ELSE "partial"]
                       ELSE flash
  /\ UNCHANGED <<readyByte, acks, seen, proto, transfer, lost, cancelling, history, budget>>

(* Ready bytes from below are read; when the device below is ready this    *)
(* one says so once to the one above.                                      *)
Heard(d) == {e \in Below(d) : dev[d].below /\ readyByte[e] > 0}
Ready(d) == dev[d].belowReady \/ Heard(d) # {}

\* Mutant: told_upstream_im_ready is not cleared by a chunk.
SaysOnce(d) == Ready(d) /\ ~dev[d].told /\ dev[d].count = 0

Says(d) == Ready(d) /\ ~dev[d].told

Signal(d) ==
  /\ dev[d].loop = "transfer"
  /\ Heard(d) # {} \/ Says(d)
  /\ dev' = [dev EXCEPT ![d] = [@ EXCEPT !.belowReady = Ready(d),
                                       !.told = dev[d].told \/ Ready(d)]]
  /\ readyByte' = [e \in Devices |-> IF e \in Heard(d) THEN 0
                                     ELSE IF e = d /\ Says(d) THEN readyByte[d] + 1
                                     ELSE readyByte[e]]
  /\ UNCHANGED <<flash, down, acks, seen, proto, transfer, lost, cancelling, history, budget>>

(* The read of the coordinator times out when no device will go on; that   *)
(* takes far longer than a step of a device.                               *)
Quiet(d) ==
  /\ Listening(d) \/ Takes(d) => down[d] = <<>>
  /\ dev[d].loop = "transfer" => Heard(d) = {} /\ ~Says(d)

ReadTimesOut ==
  /\ transfer.stage = "read"
  /\ readyByte[Head1] = 0
  /\ \A d \in Devices : Quiet(d)
  /\ transfer' = [transfer EXCEPT !.stage = "idle"]
  /\ UNCHANGED <<deviceVars, down, acks, seen, proto, lost, cancelling, history, budget>>

(* decide_upgrade. *)
Verdict(d) == flash[d].image[Spare(d)] = "new"

(* A refused image parks the device; switch_partition erases the otadata   *)
(* of the spare slot first.                                                *)
Verify(d) ==
  /\ dev[d].loop = "verify"
  /\ dev' = [dev EXCEPT ![d].loop = IF Verdict(d) THEN "switch" ELSE "parked"]
  /\ flash' = IF Verdict(d) THEN [flash EXCEPT ![d].otadata[Spare(d)] = 0] ELSE flash
  /\ UNCHANGED <<down, readyByte, acks, seen, proto, transfer, lost, cancelling, history, budget>>

\* Mutant: the number is that of the slot that runs.
NextSeqSame(f) == IF CurrentSlot(f) = NoSlot THEN 1 ELSE f.otadata[CurrentSlot(f)]

NextSeq(f) == IF CurrentSlot(f) = NoSlot THEN 1 ELSE f.otadata[CurrentSlot(f)] + 1

Switch(d) ==
  /\ dev[d].loop = "switch"
  /\ dev' = [dev EXCEPT ![d].loop = "reset"]
  /\ flash' = [flash EXCEPT ![d].otadata[Spare(d)] = NextSeq(flash[d])]
  /\ UNCHANGED <<down, readyByte, acks, seen, proto, transfer, lost, cancelling, history, budget>>

-----------------------------------------------------------------------------
(* Resets, and cables. *)

(* The links through some devices are lost, and the coordinator will hear. *)
LinksLost(devices) ==
  /\ lost' = lost \union (devices \intersect seen)
  /\ acks' = {a \in acks : a.from \notin devices}

(* A device that resets takes the links below it with it. *)
Reset(d) ==
  /\ dev[d].loop = "reset"
  /\ dev' = [e \in Devices |-> IF e = d THEN Booted
                               ELSE IF e \in Downwards(d) /\ dev[e].link = "up"
                                 THEN [dev[e] EXCEPT !.link = "on"] ELSE dev[e]]
  /\ down' = [down EXCEPT ![d] = <<>>]
  /\ readyByte' = [readyByte EXCEPT ![d] = 0]
  /\ LinksLost(Downwards(d))
  /\ UNCHANGED <<flash, seen, proto, transfer, cancelling, history, budget>>

(* The cable above a device is pulled: it and what is below it lose power. *)
(* Nothing else gets a device out of a transfer that has stopped.          *)
Stuck(d) ==
  /\ transfer.stage = "idle"
  /\ dev[d].loop \in {"transfer", "parked", "panicked"}
  /\ \A e \in Devices : Quiet(e)
Unplug(d) ==
  /\ dev[d].link # "off"
  /\ IF \E e \in Downwards(d) : Stuck(e) THEN UNCHANGED budget ELSE Fault
  /\ dev' = [e \in Devices |-> IF e \in Downwards(d) THEN Idle ELSE dev[e]]
  /\ down' = [e \in Devices |-> IF e \in Downwards(d) THEN <<>> ELSE down[e]]
  /\ readyByte' = [e \in Devices |-> IF e \in Downwards(d) THEN 0 ELSE readyByte[e]]
  /\ LinksLost(Downwards(d))
  /\ UNCHANGED <<flash, seen, proto, transfer, cancelling, history>>

PlugIn(d) ==
  /\ dev[d].link = "off"
  /\ \A e \in Above(d) : dev[e].link # "off"
  /\ dev' = [dev EXCEPT ![d] = Booted]
  /\ UNCHANGED <<flash, down, readyByte, acks, seen, proto, transfer, lost, cancelling, history, budget>>

(* A link comes up when both ends run their loops. *)
Join(d) ==
  /\ dev[d].link = "on"
  /\ dev[d].loop = "run"
  /\ \A e \in Above(d) : Listening(e)
  /\ d = Head1 => transfer.stage = "idle"
  /\ dev' = [dev EXCEPT ![d] = [Booted EXCEPT !.link = "up"]]
  /\ down' = [down EXCEPT ![d] = <<>>]
  /\ late' = IF proto # NoProtocol \/ transfer.stage # "idle" THEN late \union {d} ELSE late
  /\ UNCHANGED <<flash, readyByte, acks, seen, proto, transfer, lost, cancelling, stale, budget>>

-----------------------------------------------------------------------------
CoordinatorStep ==
  \/ PollProtocol
  \/ \E a \in acks : RecvAck(a)
  \/ \E d \in Devices : Disconnected(d) \/ Connected(d)
  \/ EnterUpgradeMode
  \/ WriteChunk("chunk")
  \/ ReadReady
  \/ ReadTimesOut

DeviceStep(d) ==
  \/ Recv(d) \/ PollMode(d)
  \/ ReadChunk(d) \/ Signal(d)
  \/ Verify(d) \/ Switch(d) \/ Reset(d)
  \/ Join(d)

Next ==
  \/ CoordinatorStep
  \/ \E d \in Devices : DeviceStep(d) \/ Confirm(d)
  \/ BeginUpgrade
  \/ CancelProtocol \/ SendCancelAll
  \/ WriteChunk("garbled")
  \/ \E d \in Devices : Unplug(d) \/ PlugIn(d)

Spec == Init /\ [][Next]_vars

(* The threads and the devices go on; the users confirm. *)
FairSpec ==
  /\ Spec
  /\ WF_vars(CoordinatorStep)
  /\ \A d \in Devices : WF_vars(DeviceStep(d)) /\ WF_vars(Confirm(d))

-----------------------------------------------------------------------------
Flags == BOOLEAN
Images == {"old", "new", "partial"}
FlashStates == [otadata : [Slots -> Nat], image : [Slots -> Images]]
Frames == [kind : {"Prepare", "Cancel", "Enter", "chunk", "garbled"}, upgrade : Nat]
DeviceStates ==
  [link : {"off", "on", "up"},
   loop : {"run", "transfer", "verify", "switch", "reset", "parked", "panicked"},
   mode : {None, "confirm", "erase", "ready", "passive", "forward"},
   upgrade : Nat, count : Nat,
   below : Flags, belowReady : Flags, told : Flags, garbled : Flags]
Protocols ==
  [devices : SUBSET Devices, need : SUBSET Devices, confirmed : SUBSET Devices,
   passive : SUBSET Devices, sent : Flags, abort : Flags]

TypeOK ==
  /\ flash \in [Devices -> FlashStates]
  /\ dev \in [Devices -> DeviceStates]
  /\ down \in [Devices -> Seq(Frames)]
  /\ readyByte \in [Devices -> Nat]
  /\ acks \subseteq [from : Devices, upgrade : Nat]
  /\ seen \subseteq Devices /\ lost \subseteq Devices /\ cancelling \in Nat
  /\ late \subseteq Devices /\ stale \subseteq Devices
  /\ proto \in Protocols
  /\ transfer \in [stage : {"idle", "ready", "write", "read"}, written : Nat]
  /\ budget \in [upgrades : Nat, faults : Nat]

(* The sequence number of an otadata stands for its slot, and one of the   *)
(* two can be read.                                                        *)
Numbered(f) ==
  /\ \A s \in Slots : f.otadata[s] # 0 => (f.otadata[s] - 1) % 2 = s
  /\ CurrentSlot(f) # NoSlot

(* The inductive invariant: the slot that runs is complete, and the spare  *)
(* one is when its otadata is about to be written.                         *)
FlashInvariant ==
  \A d \in Devices :
    /\ Numbered(flash[d])
    /\ flash[d].image[CurrentSlot(flash[d])] # "partial"
    /\ dev[d].loop = "switch" => flash[d].image[Spare(d)] = "new"

(* Whenever the power goes, during the erase of the spare slot, between    *)
(* two chunks or inside switch_partition, the bootloader finds a complete  *)
(* firmware (ota.rs next_slot, switch_partition, enter_upgrade_mode).      *)
AlwaysBootable == \A d \in Devices : Running(d) \in {"old", "new"}

(* The slot the device takes for its own is the slot the bootloader        *)
(* starts, also with one otadata erased, so the digest that it announces   *)
(* is that of the firmware that runs (ota.rs current_slot).                *)
BootloaderAgrees == \A d \in Devices : ActivePartition(flash[d]) = BootSlot(flash[d])

-----------------------------------------------------------------------------
(* The handshake between a device and the one below it: E and D are their  *)
(* records, q is what is on its way down and r are the ready bytes on      *)
(* their way up.                                                           *)

ChunkKinds == {"chunk", "garbled"}
NoneOf(q, kinds) == \A n \in 1 .. Len(q) : q[n].kind \notin kinds

Entered == {"transfer", "verify", "switch", "reset", "parked"}

(* A device that runs its loop has said nothing.                           *)
Alone(D, r) ==
  /\ D.loop = "run" => r = 0 /\ ~D.told
  /\ D.link = "off" => D.loop = "run"

(* D gets ready, has said so, was heard, or has been sent a chunk.         *)
Round(E, D, q, r) ==
  \/ ~D.told /\ r = 0 /\ ~E.belowReady /\ q = <<>>
  \/ D.told /\ D.belowReady /\ r = 1 /\ ~E.belowReady /\ q = <<>>
  \/ D.told /\ D.belowReady /\ r = 0 /\ E.belowReady /\ q = <<>>
  \/ D.told /\ D.belowReady /\ r = 0 /\ ~E.belowReady /\ Len(q) = 1

(* Both run their loops; or E entered, and D has Enter on its way, did not *)
(* enter, takes part, or is done.                                          *)
Linked(E, D, q, r) ==
  \/ /\ E.loop = "run" /\ D.loop \in {"run", "panicked"}
     /\ r = 0 /\ NoneOf(q, {"Enter"} \union ChunkKinds)
  \/ /\ E.loop \in Entered /\ E.below
     /\ D.loop = "transfer" /\ Round(E, D, q, r)
  \/ /\ E.loop \in Entered /\ E.below
     /\ D.loop # "transfer" /\ r = 0 /\ ~E.belowReady /\ NoneOf(q, ChunkKinds)
     /\ D.loop = "run" => \A n \in 1 .. Len(q) : q[n].kind = "Enter" => n = Len(q)

(* A link that was lost may hold the chunk that D was about to take.       *)
Loose(D, q) ==
  NoneOf(q, ChunkKinds) \/ (Len(q) = 1 /\ D.loop = "transfer" /\ D.belowReady)

Pair(E, D, q, r) ==
  E.loop # "panicked" => IF D.link = "up" THEN Linked(E, D, q, r) ELSE Loose(D, q)

(* The inductive invariant of the transfer.                                *)
LinkInvariant ==
  /\ \A d \in Devices : Alone(dev[d], readyByte[d])
  /\ \A d \in Devices \ {Head1} : \A e \in Above(d) :
       Pair(dev[e], dev[d], down[d], readyByte[d])

(* A device is sent EnterUpgradeMode only when it is ready for it, and     *)
(* hears only ready bytes from below, except where a device at either end  *)
(* joined in the middle of an upgrade, was counted for an answer to an     *)
(* earlier one (firmware_upgrade.rs is_complete, firmware.rs:65), or got   *)
(* the Cancel of an earlier one behind the call of this one.               *)
EnteredOnlyWhenReady ==
  \A d \in Devices : dev[d].loop = "panicked" =>
    ({d} \union Under(d)) \intersect (late \union stale) # {}

(* A chunk is sent down to a device only when it will read it at once: the *)
(* wire between two devices has no room for a chunk while the flash is     *)
(* written (enter_upgrade_mode downstream_ready, told_upstream_im_ready).  *)
ChunksOnlyWhenReady ==
  \A d \in Devices \ {Head1} : \A e \in Above(d) :
    dev[e].loop \in {"transfer", "verify", "switch", "reset"} /\ dev[e].count > 0 =>
      LET chunks == {n \in DOMAIN down[d] : down[d][n].kind \in ChunkKinds}
      IN  chunks # {} => Takes(d) /\ \A m, n \in chunks : m = n

(* An upgrade that nothing disturbs ends with the new firmware running on  *)
(* every device, those included that only handed it on.                    *)
Disturbed == budget.faults < MaxFaults \/ late \union stale # {}
UpgradeCompletes ==
  proto # NoProtocol ~> (Disturbed \/ \A d \in Devices : Running(d) = "new" /\ dev[d].link = "up")

=============================================================================
