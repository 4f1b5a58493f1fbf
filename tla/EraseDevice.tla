---------------------------- MODULE EraseDevice -----------------------------
(***************************************************************************)
(* Erasing a device and removing it from its wallet: the coordinator's     *)
(* EraseDevice protocol (frostsnap_coordinator/src/erase_device.rs), the   *)
(* device's Erase state machine (frostsnap_embedded/src/erase.rs) as its   *)
(* loop polls it, and what the device does at boot with a flash that was   *)
(* erased in part (DeviceLoop::new).                                       *)
(*                                                                         *)
(* The header, two copies in the sectors 0 and 1, gives the device its     *)
(* identity; the sectors behind it hold what that identity stored.  A      *)
(* sector is modelled by whose data it has.                                *)
(***************************************************************************)
EXTENDS Integers, Sequences

CONSTANTS
  NSectors,   (* sectors of the NVS partition                              *)
  MaxEvents   (* bound: user actions, reconnections, losses of power ...   *)

ASSUME EraseAssumption ==
  /\ NSectors \in Nat /\ NSectors >= 3
  /\ MaxEvents \in Nat

VARIABLES
  flash,      (* sector -> the identity whose data it has, or Blank        *)
  pc,         (* boot, init (writing a header), wipe, run                  *)
  sector,     (* the next sector that init or wipe handles                 *)
  self,       (* device_id of the running device, or Blank                 *)
  born,       (* the newest identity; a new header makes another           *)
  erase,      (* erase_state: none or the State of Erase                   *)
  workflow,   (* what the screen asks to confirm: erase, or none           *)
  conn,       (* UpstreamConnectionState                                   *)
  queue,      (* the messages for the coordinator that wait on the device  *)
  toDevice,   (* what is on its way to the device                          *)
  toCoord,    (* identities whose EraseConfirmed is on its way             *)
  protocol,   (* target of the coordinator's EraseDevice protocol or Blank *)
  removed,    (* identities whose shares the app deleted on a confirmation *)
  events      (* events so far                                             *)

deviceMemory == <<erase, workflow, conn, queue>>
eraseVars == <<flash, pc, sector, self, born, deviceMemory, toDevice, toCoord, protocol, removed, events>>

Blank == 0
Sectors == 0 .. NSectors - 1
Header == {0, 1}

\* read_header: the first copy, or the second when the first is blank.
Identity == IF flash[0] # Blank THEN flash[0] ELSE flash[1]

Event ==
  /\ events < MaxEvents
  /\ events' = events + 1

EraseInit ==
  /\ flash = [s \in Sectors |-> IF s \in Header THEN 1 ELSE Blank]
  /\ pc = "boot"
  /\ sector = 0
  /\ self = Blank
  /\ born = 1
  /\ erase = "none"
  /\ workflow = "none"
  /\ conn = "power_on"
  /\ queue = <<>>
  /\ toDevice = {}
  /\ toCoord = {}
  /\ protocol = Blank
  /\ removed = {}
  /\ events = 0

----------------------------------------------------------------------------
(* Coordinator *)

\* erase_device and the first poll of its protocol.
StartErase ==
  /\ Event
  /\ pc = "run" /\ conn = "acked"
  /\ protocol = Blank
  /\ protocol' = self
  /\ toDevice' = {"DataErase"}
  /\ UNCHANGED <<flash, pc, sector, self, born, deviceMemory, toCoord, removed>>

\* erase_all: the request alone, no protocol waits for the answer.
EraseAll ==
  /\ Event
  /\ pc = "run" /\ conn = "acked"
  /\ toDevice' = {"DataErase"}
  /\ UNCHANGED <<flash, pc, sector, self, born, deviceMemory, toCoord, protocol, removed>>

\* The user cancels in the app; the devices are not told.
CancelProtocol ==
  /\ Event
  /\ protocol # Blank
  /\ protocol' = Blank
  /\ UNCHANGED <<flash, pc, sector, self, born, deviceMemory, toDevice, toCoord, removed>>

\* process_comms_message; the app deletes the shares of a device that confirmed.
CoordReceive(id) ==
  /\ id \in toCoord
  /\ toCoord' = toCoord \ {id}
  /\ protocol' = IF protocol = id THEN Blank ELSE protocol
  /\ removed' = IF protocol = id THEN removed \cup {id} ELSE removed
  /\ UNCHANGED <<flash, pc, sector, self, born, deviceMemory, toDevice, events>>

----------------------------------------------------------------------------
(* The running device *)

\* Something is stored: a share, nonces, an entry of the log.
Store(s) ==
  /\ Event
  /\ pc = "run"
  /\ s \notin Header
  /\ flash' = [flash EXCEPT ![s] = self]
  /\ UNCHANGED <<pc, sector, self, born, deviceMemory, toDevice, toCoord, protocol, removed>>

ReceiveDataErase ==
  /\ pc = "run" /\ conn # "power_on"
  /\ "DataErase" \in toDevice
  /\ toDevice' = {}
  /\ workflow' = "erase"
  /\ UNCHANGED <<flash, pc, sector, self, born, erase, conn, queue, toCoord, protocol, removed, events>>

\* A Cancel of some other protocol: go_to_default.
ReceiveCancel ==
  /\ Event
  /\ pc = "run" /\ conn # "power_on"
  /\ workflow' = "none"
  /\ UNCHANGED <<flash, pc, sector, self, born, erase, conn, queue, toDevice, toCoord, protocol, removed>>

\* UiEvent::EraseDataConfirm
ConfirmErase ==
  /\ pc = "run"
  /\ workflow = "erase"
  /\ workflow' = "none"
  /\ erase' = "initial"
  /\ UNCHANGED <<flash, pc, sector, self, born, conn, queue, toDevice, toCoord, protocol, removed, events>>

\* A message of a device further down the chain, or one of the device itself.
Forward ==
  /\ Event
  /\ pc = "run"
  /\ queue' = Append(queue, "other")
  /\ UNCHANGED <<flash, pc, sector, self, born, erase, workflow, conn, toDevice, toCoord, protocol, removed>>

\* soft_reset: magic bytes from an upstream that starts over.
SoftReset ==
  /\ Event
  /\ pc = "run" /\ conn = "acked"
  /\ conn' = "power_on"
  /\ workflow' = "none"
  /\ UNCHANGED <<flash, pc, sector, self, born, erase, queue, toDevice, toCoord, protocol, removed>>

\* Magic bytes: the device announces itself and queues its name.
Handshake ==
  /\ pc = "run" /\ conn = "power_on"
  /\ conn' = "established"
  /\ queue' = Append(queue, "other")
  /\ UNCHANGED <<flash, pc, sector, self, born, erase, workflow, toDevice, toCoord, protocol, removed, events>>

AnnounceAck ==
  /\ pc = "run" /\ conn = "established"
  /\ conn' = "acked"
  /\ UNCHANGED <<flash, pc, sector, self, born, erase, workflow, queue, toDevice, toCoord, protocol, removed, events>>

\* dequeue_message: one message leaves, if q is what waits.
Dequeue(q) ==
  IF conn = "acked" /\ q # <<>>
  THEN /\ queue' = Tail(q)
       /\ toCoord' = IF Head(q) = "confirm" THEN toCoord \cup {self} ELSE toCoord
  ELSE queue' = q /\ UNCHANGED toCoord

PollIdle ==
  /\ pc = "run"
  /\ erase = "none" \/ conn = "power_on"
  /\ Dequeue(queue)
  /\ UNCHANGED <<flash, pc, sector, self, born, erase, workflow, conn, toDevice, protocol, removed, events>>

\* Mutant: the confirmation leaves before anything is erased.
PollInitialConfirms ==
  /\ pc = "run" /\ conn # "power_on"
  /\ erase = "initial"
  /\ erase' = "first"
  /\ workflow' = "none"
  /\ Dequeue(Append(queue, "confirm"))
  /\ UNCHANGED <<flash, pc, sector, self, born, conn, toDevice, protocol, removed, events>>

PollInitial ==
  /\ pc = "run" /\ conn # "power_on"
  /\ erase = "initial"
  /\ erase' = "first"
  /\ workflow' = "none"
  /\ Dequeue(queue)
  /\ UNCHANGED <<flash, pc, sector, self, born, conn, toDevice, protocol, removed, events>>

\* The first sector is erased and the confirmation queued.
PollFirst ==
  /\ pc = "run" /\ conn # "power_on"
  /\ erase = "first"
  /\ flash' = [flash EXCEPT ![0] = Blank]
  /\ erase' = "rest"
  /\ workflow' = "none"
  /\ Dequeue(Append(queue, "confirm"))
  /\ UNCHANGED <<pc, sector, self, born, conn, toDevice, protocol, removed, events>>

\* The blocking loop over the other sectors begins.
PollRest ==
  /\ pc = "run" /\ conn # "power_on"
  /\ erase = "rest"
  /\ pc' = "wipe"
  /\ sector' = 1
  /\ UNCHANGED <<flash, self, born, deviceMemory, toDevice, toCoord, protocol, removed, events>>

----------------------------------------------------------------------------
(* Starting and restarting *)

\* What a restart forgets; what was sent to the device is lost with it.
Restart ==
  /\ pc' = "boot"
  /\ sector' = 0
  /\ self' = Blank
  /\ erase' = "none"
  /\ workflow' = "none"
  /\ conn' = "power_on"
  /\ queue' = <<>>
  /\ toDevice' = {}
  /\ UNCHANGED <<born, protocol, removed>>

\* Mutant: the last sector is left out.
WipeShort ==
  /\ pc = "wipe"
  /\ flash' = [flash EXCEPT ![sector] = Blank]
  /\ IF sector < NSectors - 2
     THEN /\ sector' = sector + 1
          /\ UNCHANGED <<pc, self, born, deviceMemory, toDevice, protocol, removed>>
     ELSE Restart
  /\ UNCHANGED <<toCoord, events>>

\* One sector of the erase; after the last one the device resets.
Wipe ==
  /\ pc = "wipe"
  /\ flash' = [flash EXCEPT ![sector] = Blank]
  /\ IF sector < NSectors - 1
     THEN /\ sector' = sector + 1
          /\ UNCHANGED <<pc, self, born, deviceMemory, toDevice, protocol, removed>>
     ELSE Restart
  /\ UNCHANGED <<toCoord, events>>

\* Mutant: a missing header is written without looking at the other sectors.
BootTrusts ==
  /\ pc = "boot"
  /\ IF Identity # Blank THEN pc' = "run" /\ UNCHANGED born
                         ELSE pc' = "init" /\ born' = born + 1
  /\ self' = Identity
  /\ UNCHANGED <<flash, sector, deviceMemory, toDevice, toCoord, protocol, removed, events>>

\* DeviceLoop::new: a device without a header wipes what it finds behind it, and
\* gets a new header when there is nothing.
Boot ==
  /\ pc = "boot"
  /\ \/ Identity # Blank /\ pc' = "run" /\ UNCHANGED born
     \/ /\ Identity = Blank
        /\ \E s \in Sectors \ Header : flash[s] # Blank
        /\ pc' = "wipe"
        /\ UNCHANGED born
     \/ /\ Identity = Blank
        /\ \A s \in Sectors \ Header : flash[s] = Blank
        /\ pc' = "init"
        /\ born' = born + 1
  /\ self' = Identity
  /\ UNCHANGED <<flash, sector, deviceMemory, toDevice, toCoord, protocol, removed, events>>

\* FlashHeader::init: the two copies, one after the other.
InitHeader ==
  /\ pc = "init"
  /\ flash' = [flash EXCEPT ![sector] = born]
  /\ IF sector = 0 THEN sector' = 1 /\ UNCHANGED pc
                   ELSE sector' = 0 /\ pc' = "run"
  /\ self' = IF sector = 0 THEN self ELSE born
  /\ UNCHANGED <<born, deviceMemory, toDevice, toCoord, protocol, removed, events>>

\* At any moment; what the device sent last may be lost with it.
ErasePowerLoss ==
  /\ Event
  /\ Restart
  /\ toCoord' \in {toCoord, {}}
  /\ UNCHANGED flash

Device == PollIdle \/ PollInitial \/ PollFirst \/ PollRest \/ Wipe \/ Boot \/ InitHeader

EraseNext ==
  \/ StartErase \/ EraseAll \/ CancelProtocol
  \/ \E id \in toCoord : CoordReceive(id)
  \/ \E s \in Sectors : Store(s)
  \/ ReceiveDataErase \/ ReceiveCancel \/ ConfirmErase \/ Forward
  \/ SoftReset \/ Handshake \/ AnnounceAck
  \/ Device
  \/ ErasePowerLoss

EraseSpec == EraseInit /\ [][EraseNext]_eraseVars

\* The device loop and its start run by themselves; users, cables and the app do
\* what they like.
FairEraseSpec == EraseSpec /\ WF_eraseVars(Device)

----------------------------------------------------------------------------
(* Properties *)

EraseTypeOK ==
  /\ flash \in [Sectors -> 0 .. born]
  /\ pc \in {"boot", "init", "wipe", "run"}
  /\ sector \in Sectors
  /\ self \in 0 .. born
  /\ born \in Nat \ {0}
  /\ erase \in {"none", "initial", "first", "rest"}
  /\ workflow \in {"none", "erase"}
  /\ conn \in {"power_on", "established", "acked"}
  /\ queue \in Seq({"other", "confirm"})
  /\ toDevice \subseteq {"DataErase"}
  /\ toCoord \subseteq 1 .. born
  /\ protocol \in 0 .. born
  /\ removed \subseteq 1 .. born
  /\ events \in 0 .. MaxEvents

\* No identity finds what another one stored: wherever the power went away in an
\* erase, in the recovery of one or while a header was written, a device that
\* runs has only its own data behind its header (DeviceLoop::new, Erase::poll).
NoForeignData ==
  pc = "run" => \A s \in Sectors : flash[s] \in {Blank, self}

\* The app deletes the shares of a device only when that device has begun to
\* destroy its data, whatever was cancelled, repeated or confirmed late
\* (EraseDevice::process_comms_message, Erase::poll).
RemovedMeansBegun == \A id \in removed : flash[0] # id

\* Once both copies of the header are gone an erase is finished, over any number
\* of restarts: the device comes up again with nothing of what it was.
EraseCompletes ==
  \A id \in 1 .. MaxEvents :
    (born = id /\ pc \in {"boot", "wipe"} /\ Identity = Blank)
      ~> (pc = "run" /\ \A s \in Sectors : flash[s] # id)

=============================================================================
