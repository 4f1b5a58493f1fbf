# Frostsnap in TLA+

Frostsnap is a FROST threshold-signature wallet: hardware devices, each with a
share of a wallet's key, are chained over USB to an app, the coordinator, that
asks them to generate keys, to sign and to back up. This directory models the
parts of it where a mistake is expensive and a test seldom finds it: what a
device keeps in flash when the power goes away at the wrong moment, that a
secret nonce never signs twice, that app and device agree on which nonces are
used and on who has which share, that an erased device is erased, that a device
that is plugged in is found, that an upgrade leaves a device that starts, and that
the app's threads do not block each other.

`PROJECT.json` lists the runs, the lines of code that every definition models,
the hazards and the theorems. A run is `tlc -config <cfg> <MC module>`, a proof
`tlapm <module>Proofs.tla`.

## The system

| Part | State | Operations | Interacts with | What makes it correct |
|---|---|---|---|---|
| A/B slots (`frostsnap_embedded/ab_write.rs`) | two flash copies with an index | read, write | under nonce slots, share and header | a read finds the last complete value |
| Mutation log (`nor_flash_log.rs`, `flash_log.rs`) | entries in NOR flash, a position | push, read at boot | device loop | pushes are atomic and survive |
| Nonce slots (`frostsnap_core/device_nonces.rs`) | ratchet seed, index and last shares per stream | open, reconcile, sign | A/B slots, device loop | no nonce signs two messages |
| Nonce segments and cache (`nonce_stream.rs`, `coord_nonces.rs`) | public nonces per device and stream | extend, consume, choose | signing sessions | a nonce keeps its index; a session gets unused ones |
| Signing sessions (`coordinator.rs`, `coordinator/signing.rs`) | active and finished sessions | start, request, receive, cancel, forget | cache, keys, database | sessions never share nonces |
| Signing and replenishment protocols (`frostsnap_coordinator/signing.rs`, `nonce_replenish.rs`) | which devices still have to be asked | connect, disconnect, poll | UI stack, serial ports | what was interrupted can be finished |
| Device loop (`frostsnap_embedded/device_loop.rs`) | workflow, outgoing queue, connection | poll, confirm, soft reset | everything on the device | the device never panics |
| Erase (`erase.rs`, `erase_device.rs`) | erase state, header, sectors | ask, confirm, erase, boot | device loop, app | removed means erased |
| App calls (`frostsnapp/rust/coordinator.rs`) | some dozen mutexes | calls from Dart, the loop | all of the coordinator | no deadlock, calls return |
| Key generation (`coordinator.rs`, `device/keygen.rs`, `frostsnap_coordinator/keygen.rs`) | pending key generations, rounds per device, names being previewed | begin, three rounds of answers, finalise, cancel | devices, UI stack, database | every device of a key confirmed it and gets its share, and nobody has a share of no key |
| Restoration and consolidation (`restoration.rs` of coordinator and device, `enter_physical_backup.rs`) | restorations, pending consolidations; entered and saved backups | restore, add, save, finish, consolidate, delete | devices, UI stack, waiting calls, database | a share that is counted on is on its device |
| UI protocol stack (`ui_protocol.rs` and its protocols) | protocols on a stack | push, dispatch, complete | app calls, ports | every message reaches its protocol |
| Serial ports (`usb_serial_manager.rs`, `device_list.rs`) | port states, devices of each port, names | poll, handshake, register, disconnect | operating system, chain of devices | a device is listed once, where it is, while it is there |
| Firmware upgrade (`firmware_upgrade.rs`, `ota.rs`) | OTA slots, transfer state | prepare, transfer, verify, switch | chain of devices | a cut-off upgrade leaves a device that starts |

What is hard here: power is lost between any two flash operations; cables are
pulled with messages in flight; the user cancels while an answer is under way;
several coordinators use one device's slots; the app's synchronous calls run on
Flutter's thread while the loop thread holds half of the locks.

## Modules

**AtomicRegister** is what the code above the A/B slots expects: writes take
effect at once or not at all.

**AbWrite** is `AbSlot`. `slots` are the two copies with the number of 256-byte
buffers programmed so far, the other variables are the locals of the running
`write`. `BeginWrite` is the head of `write`, `EraseSlot` and `ProgramChunk` are
one flash operation each, for the first copy (`round` 1) and then the other.
`WritePowerLoss` may happen anywhere. Refinement mapping: the register is what `read`
would return, its version the current index; a write takes effect with the last
buffer of the first copy.

**DeviceNonces** is `AbSlots`, `SecretNonceSlot` and the three handlers of
`device.rs` that use them. A nonce is a seed and an index; `released` is a
history of all shares that left. `OpenNonceStreams` receives the request,
`OpenStream` handles one stream of it (one slot write), `StartBatch` and
`FinishBatch` are the nonce jobs that the loop works on, `Sign` is
`sign_guaranteeing_nonces_destroyed` with its write and the answer,
`SignPowerLoss` the same cut off before the answer or, for a slot value of more
than one buffer (`Tearable`), in the middle of the write, which reads as an
empty slot. The requests are arbitrary: nothing is assumed of coordinators.

**NonceStream** has the operators on nonce segments (`Extend`, `DeleteUpTo`,
`SubSegment`); **CoordSigning** uses them for the coordinator's signing state,
with one action for each of `start_sign`, `request_device_sign`, the two
handlers of device messages, the cancellations, `forget_finished_sign_session`,
`delete_share` and `delete_key`. Each action is one transaction
(`staged_mutate`), so a restart of the app changes nothing here. Verification
of a share is reduced to whether it was made with the session's nonces.
`CoordNext(segs)` is the coordinator among devices that answer what they like, with
nonces out of `segs`.

**SignSystem** composes CoordSigning with an INSTANCE of DeviceNonces, the two
protocols and the link: `toDevice` and `toCoord` are FIFO and emptied by
`LinkBreaks`. `Unplug` and the device's loss of power, `RestartApp`,
`CancelProtocol` and `CancelSession` may come at any point. **SignInvariant** has its
inductive invariant, as operators on the parts of the state they speak of.

In this and in the three modules with cancels below, `cancel_protocol` is two steps:
one under its locks, and `SendCancelAll` when it has dropped them. `cancelling` counts
the calls in between. The next attempt may begin there, and its messages are then
sent before that Cancel. Each module remembers whom this met (`overtook`, `broken`,
`late`, `disturbed`).

**NorFlashLog** is the log word by word. A flash word is the set of values it was
programmed with since it was erased: `{}` is erased, one value reads back, two
are bits that nobody wrote. Every push writes its body through a buffer and then
its length.

**EraseDevice** has the coordinator's protocol, the poll of `Erase`, the blocking
erase that ends in a reset and the boot that finds a partly erased flash
(`DeviceLoop::new`). A sector is modelled by whose data it has; a device that
writes a new header is a new identity.

**AppLocks** gives every call of `FfiCoordinator` that takes a lock, and an
iteration of its thread, as a script of lock and unlock steps read from the
guards' scopes. `May` is a branch that may be left out, `Try` an early return
that drops all guards, `Wait` the receive of a waiter. Flutter's thread is a lock
of its own: synchronous calls have it, and the loop needs it in `poll_ports`.

**KeyGen** is a key generation from the wallet page to the flash of its devices.
`pending` is `pending_keygens`, `ui` the `KeyGen` protocol, `phase` the device's
temporary maps. `Iterate` is one iteration of the app's loop: `poll_ports` reads at
most one message of each port and sends the outbox, and then, under the locks,
disconnections, messages, the poll of the UI stack and the removal of finished
protocols follow in this order. The API calls are steps of their own because they
take the same locks. Two things take none: the Cancel of `cancel_protocol`
(`SendCancelAll`), and the page's new names after an abort (`ResetDeviceNames`), which
may also come inside an iteration, before the loop's own Cancel (`early`). `DevicePoll` is a poll of the device loop on a number of
messages: inbox, flash, outbox. `FinalizeKeygen` and `FinalizeFails` are the same
call with a commit that succeeds or fails. `broken` remembers the key generations
that a disconnection or a crash touched, or whose Begin was queued before the Cancel of
an earlier one (`SendCancelAll`); `abandoned` has those that were cancelled.

**Restoration** has the coordinator's restorations and pending consolidations, the
device's `tmp_loaded_backups` and `saved_backups`, the recovery page and the calls
that block on a waiter. A share image is a key and an index. A call goes through
stages: it has sent its request (`sent`), its waiter is pushed (`PushWaiter`), it is
answered or fails (`Receive`, `Lost`), and `exit_recovery_mode` then goes on with
the device's next consolidation (`ExitNext`, `ExitDone`). The device's poll is two steps,
because it sends (`DeviceSend`) before it writes what the last poll staged
(`DeviceWork`); a device that loses power between the two has told of something it
does not have and is recorded in `torn`. `ClosePage` is the page's cancel, of an entry
or of a replenishment of nonces that is not finished, and `SendCancelAll` its message;
`disturbed` has the devices that a Cancel or a loss of power met. **Lists** has `Vec::retain`, which Restoration and
DeviceLink use.

**DeviceLink** is a chain of devices below each port, with the frames in flight on
each link. `DevicePoll` is a poll of the device loop: the link below, forwarding, the
link above, one message out. `AwaitMagic`, `PollReady`, `PortGone` and `OpenPort` are
what `poll_ports` does with a port in each of its states, and `Apply` hands the
changes to the app's device list in the order they were made. Devices and the app
restart, and cables are moved, at any point.

**FirmwareUpgrade** starts from links that are up. `PollProtocol`, `RecvAck`,
`Disconnected`, `CancelProtocol` and `SendCancelAll` are the protocol that waits for
every device; `late` has the devices that joined after an upgrade was announced, and all
of them when the Cancel of an earlier one comes behind it;
`EnterUpgradeMode`, `WriteChunk`, `ReadReady` and `ReadTimesOut` are
`run_firmware_upgrade`; `ReadChunk` and `Signal` are the device's transfer loop, and
`Verify`, `Switch` and `Reset` its end, with a step between the erase and the write of
otadata. `BootSlot` is the ESP bootloader, which is not in this repository: the slot
that the highest sequence number stands for.

Definitions marked "Mutant" are wrong on purpose: each is the plausible mistake
that a property is shown to detect.

## Runs

| Run | Bounds | Shows |
|---|---|---|
| `ab_write` | two values, four writes, any number of power losses | atomic register; index never falls back |
| `device_nonces` | three streams on two slots, sessions of one and two signatures, three seeds, four slot uses | no nonce reuse with eviction, retries, restarts and torn slots |
| `coord_signing` | two devices, three streams, two sessions of which one may be finished, tasks of one and two signatures, indices overflow at 2 | sessions have disjoint nonces and leave none behind; joining segments and taking a part of one keeps each nonce at its index; an asked device keeps its share |
| `sign_system` | one device, three streams, batch of two, two sessions, six user actions or failures | cache and device agree; shares verify; sessions can be restored; no panic; a session ends, unless a late Cancel met it |
| `nor_flash_log` | twelve words, entries of two and four words, five pushes | a push is atomic, boot finds the end |
| `nor_flash_log_torn` | two pushes | violation, see below |
| `erase_device` | four sectors, five user actions or failures | no foreign data, removal only after the erase began, an erase finishes |
| `app_locks` | any two calls of the ordered ones with the loop | no circular wait; calls return |
| `keygen` | two devices, two attempts at a key of one device or of both, two messages per poll, one cancel, failure, unplugging or crash | no share without a key, no key without every confirmation, no late follow-up, every share arrives, completion |
| `restoration` | two devices, a 2-of-2 key with one device share and one paper, one restoration, two pages, any two faults: a device unplugged, a deletion, a crash, a page opened while a Cancel is still to be sent | shares are where they are counted on; panics, missed answers and idle consolidations only for the reasons named in the properties |
| `device_link` | two ports, chains of up to two devices, one of them unnamed, three moves, one restart, one report, one magic byte in flight | maps and lists agree; the app's expects hold; plugged devices are listed in the end |
| `firmware_upgrade` | a chain of two devices, two chunks, two upgrades, one fault, any of the devices already new, either slot active | always bootable; bootloader and firmware agree; no device entered unready; no chunk overruns; completion |

Why the bounds suffice: two copies and four writes let every copy be torn in
both rounds and be overwritten again. Three streams on two slots force an
eviction, after which the evicted stream can come back with a new seed; the
two-signature session is the one that can leave its slot half used or torn. In
`coord_signing` and `sign_system` two sessions on the same device compete for
streams, and a batch of two with tasks of up to two signatures empties a stream.
The log is long enough for three entries and is also filled to its last word.
Two calls and the loop show every
circular wait among the calls that has the loop in it or only two threads; the
theorem `OrderedCallsNeverCircular` has the rest. `MaxUses` and `StreamIndexMax` in `sign_system` are never
reached. A second attempt at a key is needed for late answers to meet another one,
a second device for a round that is half answered, and
selections that differ for a device of one attempt that is not in the other. In `restoration` two pages
let a second backup be entered while calls of the first still wait, and two
unpluggings interrupt and repeat a consolidation. Cancels of the page are not bounded. That the same backup can be saved for two
restorations takes `MaxDraws = 2` and `MaxPages = 3` in `MCRestoration.cfg`; its properties
hold there too with `MaxFaults = 0`; with faults it has more states than the run has time
for. In `device_link` the second device
makes one handshake depend on another that is being reset, the second port lets a
device come back elsewhere than it was, and with a threshold of one the magic bytes
that are written while a handshake is under way pass it. Two chunks are a first
one and a last one, and a chain of two has a device that hands on and one that does
not. In these four runs most faults come one at a time: the bound says so, and
combinations of them are beyond the runs.

CHECK_DEADLOCK is off where the bound on events or pushes ends a behaviour, or a
log that cannot be read does.

### Fairness

- `sign_system`: the coordinator's thread and the device's loop run for ever
  (`WF` of `Coordinator` and `DeviceLoop`); the user eventually confirms what the
  screen asks and plugs the device in again. Nothing is assumed of cancellations
  and failures, which are finite by the bound.
- `erase_device`: the device loop and its boot (`WF` of `Device`).
- `app_locks`: the loop iterates for ever, and a thread that waits for a
  mutex gets it if it is free again and again (`SF` of every thread's steps). The
  code sleeps 100 ms per iteration without a lock "to give time for the other
  threads to get a lock". A waiter is assumed to get its answer, or the
  disconnection, in some iteration.
- `keygen`: the app's loop and the devices' loops run for ever, and the user confirms
  on the devices and finishes the page. A call of `cancel_protocol` comes to send its
  Cancel (`WF` of `SendCancelAll`). The iteration that is fair reads a message
  from every port that has one, as `poll_ports` does once the bytes are there.
- `device_link`: both loops poll for ever (`WF` of `DevicePoll` and of
  `CoordinatorPoll`), and a port that can be opened is opened in the end. Nothing is
  assumed of the timing of magic bytes.
- `firmware_upgrade`: the coordinator's thread and the devices go on, and the users
  confirm. The coordinator's read times out only when no device has anything to do,
  as its timeout is far longer than the write of a sector.

## Proofs

| Module | Theorems | For |
|---|---|---|
| FlashProofs | A/B slot: `TypeOK`, `WriteInvariant`, `SameIndexSameValue`, `IndexNeverFallsBack` | values of every size, any number of writes |
| | `StateNeverLost`, refinement of `AtomicRegister` | values that fit one buffer (`SingleChunk`) |
| | log: `PushAtomic`, `BootFindsEnd` | any items and encodings, buffer and partition |
| DeviceStorageProofs | nonces: `TypeOK`, `NonceInvariant`, `NoNonceReuse`, `LastUsedDistinct` | any slots, streams, sessions, requests and tearing |
| | erase: `EraseTypeOK`, `NoForeignData`, `RemovedMeansBegun` | any number of sectors and events |
| FirmwareUpgradeProofs | `TypeOK`, `FlashInvariant`, `AlwaysBootable`, `BootloaderAgrees`, `LinkInvariant`, `ChunksOnlyWhenReady`, `ReadyInvariant`, `EnteredOnlyWhenReady` | any chain, chunks, upgrades and faults |
| SigningProofs | `ActiveNoncesDisjoint`, `AskedDevicesHoldShares`, `ClosedNoncesGone`, `TakenIsPrefix` | any devices, streams, tasks and threshold, whatever segments devices send |
| | what `Extend` joins (`ExtendKeepsBoth`) | segments of any length |
| | `DeviceNeverPanics`, `CoordinatorNeverCrashes`, `CacheNotBehind`, `SharesVerify`, `SessionsRestorable`, and that SignSystem implements CoordSigning | any finite set of streams, tasks, batch size, events; a slot for every stream that was drawn (`EnoughSlots`), no cancelled replenishment |
| KeyGenProofs | `NoOrphanShare`, `EveryoneConfirmed`, `CancelIsSafe`, `FinalizeArrives` | any devices, selections, attempts, cancels however late, disconnections and crashes |
| RestorationProofs | `RestorationInvariant`, `SharesAreBacked` | any devices, keys, thresholds, restorations, failures; papers that are backups of different keys (`OnePaper`) |
| | `PendingIsWorkedOn` | the same, while the page and a restoration do not wait for the same share (`Apart`) |
| DeviceLinkProofs | `PortsAgree` | any ports, chains, moves, resets, restarts and messages |
| AppLocksProofs | `NoCircularWait` | any number of threads and any of the 27 calls that `Unordered` does not name (`CallsInOrder`) |

*A/B slot.* `IndexNeverFallsBack` is not inductive: erasing a copy is harmless
only because the other one has the current index. `WriteInvariant` says so: each
copy holds a prefix of an encoding, in the first round the other copy has the
index before, in the second it has the complete new value, and equal indices mean
equal values. The refinement follows action by action: erasing is a stutter,
programming the first copy takes effect, programming the second returns.

*Nonces.* `NoNonceReuse` needs to know of the future: `NonceInvariant` adds that
seeds are drawn once, that every used nonce lies behind the index of the slot that
has its seed, and that a cached share is the only one made with its nonce, so
that repeating a session releases nothing new. Only `Sign` adds to `released`;
all other actions keep or drop slots.

*Erase.* `EraseInvariant` adds that flash has data of one identity at most, that a
new header is written on a blank flash by an identity nobody has heard of, that a
confirmation in the queue, on its way or applied is of an identity whose first
sector is gone, and what memory holds in each phase.

*Firmware upgrade.* `AlwaysBootable` needs `FlashInvariant`: the number in an otadata
has the parity of its slot, so that the bootloader, which computes the slot from the
highest number, and `current_slot`, which compares the two, agree, and equal numbers
do not occur; the current slot is complete; and a device between the two halves of
`switch_partition` has a verified image in its spare slot. The steps that write an
image write the spare slot; Verify erases the otadata of the slot that is not current,
which changes nothing; Switch makes the verified slot current.

*Chunks.* `ChunksOnlyWhenReady` is about one link, and so is `LinkInvariant`, which
holds of every link of the chain. As long as the device above has not panicked, the two
both run their loops; or the one above entered, and the one below has EnterUpgradeMode as
the last thing on its way, did not enter, or takes part. Then the two are at one of four
places of a round (`Round`): the lower one gets ready, has sent its byte, was heard, or
has been sent a chunk. Cables that are pulled, resets and devices that join start a link
afresh; only a link that was just lost may hold a chunk nobody waits for (`Loose`). Each
action is shown to keep the link above and the link below the device that acts. Nothing
is assumed of the coordinator, which has the first link only. TLC checked
`LinkInvariant` on chains of two and of three devices first; no run repeats that.

*Entering.* `EnteredOnlyWhenReady` relates the two ends of the chain: the coordinator
sends EnterUpgradeMode when it has counted every device, and each must still be in the
state it was counted for when the message arrives. `ReadyInvariant` has three parts:

- What is counted. Upgrades are numbered, so that an old PrepareUpgrade or answer is told
  from a present one (`Numbers`). As long as an upgrade may still be entered (`Live`),
  neither PrepareUpgrade nor Cancel is behind its PrepareUpgrade on the way down the
  chain (`Behind`), nor on the way to a device that got it (`Clean`): nothing takes a
  device back. An answer under way is of a device that is still ready (`Answered`),
  because its link is up, and so is each device that was counted (`Counted`), but those
  in `late`, or whose answer to an earlier upgrade was counted, the exceptions the
  property has. A Cancel that comes behind an upgrade puts all devices in `late`, and
  that upgrade does not live any more.
- The order on the links (`EnterFirst`): no chunk comes before EnterUpgradeMode, and it is
  on its way to every device that runs its loop below one that entered, so that such a
  device makes the one above panic only in a transfer.
- The end of the transfer (`NoEnter`): when the coordinator is done, no EnterUpgradeMode
  is on its way any more, which could meet a device after a later Cancel. This is because
  the port fails only with the first link (`PortLost`, `ChainUp`), the read times out only
  when nothing is on its way, and a ready byte reaches the coordinator only when every
  linked device has entered (`Rested`, `StartedBelow`).

TLC checked `ReadyInvariant` on chains of two devices with two upgrades and of three with
one first; no run repeats that.

*Signing sessions.* `CoordInvariant` adds to the two properties only the shape of the
state: what the cache holds under a stream's id is a segment of that stream, and an
active session is a task and nonces of known devices, of which some were asked and
some have answered. A new session takes streams that are in no other
(`ChosenNoncesUnused`). That closing a session leaves nothing behind needs what
`DeleteUpTo` and `Extend` do to indices: the nonces that come with the last shares are
joined to the cache first, and then everything below the session's end goes.

*Coordinator and device.* The five invariants of SignSystem are about the same
question, what each side believes the other has done with a stream's nonces, and none
is inductive without the others. `SystemInv` (in SignInvariant) answers it for all
streams and everything under way:

- `Agree`: slots are filled from the first on, each with another stream (`SlotsOK`);
  what the coordinator has of a stream, in the cache, in a session or in an answer, is
  of the seed of its slot (`CacheHeld`, `SessionsOK`, `ShareOK`), and a session's slot
  has not passed it or has its shares (`Signable`); the cache of a stream is not behind
  the slot unless a session of it was sent to the device (`NotBehind`); a request that
  is under way, for a session that may have been closed since, can be answered, and no
  session uses its nonces again (`RequestOK`).
- `Ordered`: requests in flight or on the screen use later nonces of a stream the later
  they were sent. `Superseded`: one that is not for the session being signed was
  answered before or has a Cancel behind it, or the Cancel is still to be sent.
- `TokenInv`: there is one request for nonces at a time, in one of five places from the
  link to the answer, and none while a Cancel is still to be sent. As long as it is past the link, nothing is on its way that makes
  the device sign (`Quiet`), so the answer starts where the slot is. This is what
  cancelling a replenishment breaks.
- `Drawn`: the device knows only streams the coordinator has drawn, so that with
  `EnoughSlots` a new stream finds an empty slot and evicts none.

Every step is shown to keep each part, and to be a step of `CoordNext` or to leave the
coordinator alone, with the segments of all devices as `AllSegments`: with
`CoordInvariant` this is both the inductive invariant and the refinement, proved
together because each step of the coordinator needs both. Both conditions are needed:
with `CancelReplenish`, or with fewer slots than streams, TLC finds the device at
"state changed while acking sign" (see the disagreements below). TLC checks
`SystemInv` and `Drawn` on the instance of `sign_system`, 320 000 states, before
anything is proved of them; no run repeats that.

*Log.* `LogInvariant` says where the position is, that everything before it reads back
as what was pushed and everything after it is erased, but for what the running push
has written of its body. `ReadFrom`, what `seek_iter` finds from a position on, is a
recursive function of the position: an erased word ends it, an entry that is not yet
there hides what is behind, and a length makes its entry appear at once.

*Key generation.* `KeyGenInvariant` follows the two properties back to where they are
decided. Finalize, in the outbox or on the link, is only for a persisted key and its
members, so the poll that saves a share saves one of a key. An Ack on the link was
confirmed by its user, the members that are counted while a key generation waits for
acks have confirmed, and when it can be finalised all have. A member set is drawn once,
and what is pending or a key has one, so a new attempt starts from nothing. That the
inbox, the outbox and the messages of all ports are worked off one by one are
recursions, over positions and over a set of devices in any order.

*Orders and devices.* `CancelIsSafe` and `FinalizeArrives` are about where a message
finds its device, and so about everything that is before it: a CertifyPlease, Check or
Finalize behind a Cancel meets a device that has forgotten the key generation.
`OrderInvariant` looks at each device and each key generation `k` of its that is not
broken, and at `Line`, what is on the link with what the outbox has for the device
behind it. `Holds` says of the two:

- `Lone`: at most one message, answer or prompt of `k` is under way. Each step of the
  protocol turns the one that is there into the next.
- `Met`: a message of `k` has no Cancel before it and finds the device in the phase in
  which the handler needs it.
- `Agrees`: while `k` is in `pending_keygens`, what is under way belongs to the round the
  entry waits for, only of a device that has not answered it; who has answered is in the
  phase that leads to the next round; and a Cancel that is under way is older than the
  Begin of `k`. `cancel_protocol` clears `pending_keygens` under its locks and sends the
  Cancel after it has dropped them. What was cancelled is therefore not pending when its
  Cancel is queued, and what else is pending then has not sent its Begin, or the Cancel
  breaks it: the exception is exactly the late Cancel.
- `Kept`: Finalize is in the line of a device whose key is persisted and whose share is
  not saved.

The rest says why this stays so between key generations: nothing is under way of one
whose Begin was not sent (`Fresh`), what is pending is the protocol on the UI stack and
its devices keep their names (`Active`, `OnStack`), keys have no device in common
(`Apart`), the devices are connected (`Attached`) and get nothing of others' keys
(`Known`). That keys have no device in
common matters where a device without a name panics: it is then of no other key that
waits for a share. The same predicate with the device's position
in its inbox, and with what it has to send, goes through the recursion of a poll, and
with the messages that were taken so far through the one of the app's iteration. TLC
checked `OrderInvariant` on the instance of `keygen` first; no run repeats that.

The proof found that `FinalizeArrives` was not true as it had been stated, with every
attempt made by the same devices. With selections that differ (`Some`) TLC shows it: a
device whose earlier key generation was broken by a disconnection gets a late message of
it, panics, and loses the phase of the key generation it is in now, which was not broken.
The property now excepts a device that panicked on a message, which by `CancelIsSafe`
only a broken key generation of its own leads to, and the run has such selections.

*Restoration.* That the app counts on a share is decided by what a device said, so
`SharesAreBacked` needs that what is said stays true until it is acted on.
`RestorationInvariant` defines for each device what it has and cannot lose: `Stored`, its
complete shares with those it has told of and writes next, and `Kept`, these and its saved
backups. Nothing is claimed of a device in `torn`. The invariant has four parts:

- The device (`Holder`): its shares and backups are its own, and each message in its queue
  and each task in its outbox is true of its memory (`Tells`, `Task`). A poll goes through
  its messages one by one, and each step only adds to `Stored` and `Kept` (`Grows`), so
  that an answer given earlier in the poll is not made false later in it.
- The link (`UpTrue`): what it has told and the app has not read is so.
- The page and the calls: a share on the page is backed (`FinderTrue`, `PageTrue`), and
  only a device that had no share at first is named and asked for a paper (`Fresh`,
  `FreshOnly`), also when it is unplugged and comes back in between. A device with shares
  thus keeps what it had.
- The database (`RestorationsTrue`, `WalletsTrue`): every share that is counted on is
  backed, and one that is a saved backup only has its entry in `pending`.

Why a new share never replaces another is where the papers matter. A device stores one
share of a key, and while the name it was given is under way the page still takes it for
blank and gives it another paper. If that is a backup of the same key, the share of
the second replaces the first, which the app counts on: TLC shows it with two papers of one key
in `MCRestoration.tla`. The theorem is therefore stated for papers of different
keys, as many as there are. TLC checked `RestorationInvariant` on the instance of
`restoration` first; no run repeats that.

`PendingIsWorkedOn` names the calls, and the device's answer must not end a call whose
consolidation is still pending. `WorkInvariant` adds to it that what is pending is of a
known wallet and one of the device's own shares, and that only an exit has more to do.
By `OnePaper` a device then has at most one pending consolidation of a wallet, so the
answer that ends an exit call is about the very entry it removes (`WorkStep`). The answer
removes another one where the page consolidates a share that is pending as well: the
coordinator looks at the page's first (restoration.rs:902), the call is done and the
entry stays until the second answer. `Apart` says that this does not happen, and is the
hypothesis of the theorem. In the instance of `restoration` TLC finds no state without it, and
checked `WorkInvariant` there too; that it holds for any constants is not proved.

*Ports.* `PortsAgree` is not inductive in the words it has: that a device is on a list once
is a number of positions there, and here that no two positions of a list have the same
device (`Once`). `PortsInvariant` says so of both maps (`ListsAgree`), with what the app's
list has; `LinkTypeOK` adds that what comes from a device is a frame of a device. A poll of
a port goes through a record of the manager's fields. `PollOK` says of it what holds after
each handler, `disconnect`, a DisconnectDownstream, `handle_announce` and the messages that
change no map: the maps agree, and the changes it reports are the difference to the
devices of before. `consume_manager_event` (`ApplyOK`) then brings the app's list to where
the maps are. What `retain` keeps is a recursion over the list (`RetainKeeps`).

*Locks.* `LocksInvariant` says that each thread is at a step of one of the scripts and
has no locks but those taken before it (`HeldAt`). If every script takes locks in
ascending rank, the thread of a circle that waits for the highest lock waits for
someone who has it and waits for a lower one, which its script does not do.
That is `OrderedLocksNeverCircular`, for any scripts. That the scripts of the app do so
is proved from the parts they are made of: `Keeps(H, s, G)` says that whoever runs `s`
with the locks `H` keeps the order and ends with `G`, and has a rule for each part
(one script after the other, a lock, an unlock, an early return, a branch); `Above(n, s)`
is the same for all `H` of ranks up to `n`. 27 of the 38 calls, and the loop's usual
iteration, follow (`ScriptsKeepOrder`); the others are listed in `Unordered`.

The theorem modules of the library cannot be used where they take an operator as a
parameter. Inductions are therefore stated with sets: a set of positions that has the
first, and the next of each it has, has all (`UpTo`, `DownwardInduction`, `OnSubsets`),
from the least element of what it lacks.

Assumptions on constants are the ASSUMEs of the modules: sizes are natural
numbers, special values are not members of the sets they stand beside.

The type invariants and the inductive invariants are proved only; no run repeats
them.

Only model-checked: all liveness, `CallsReturn` of AppLocks too, which is out of the
prover's reach; `PanicsOnlyWhenDisturbed` and `CallsAreAnswered` of Restoration, and that
`Apart` holds; `PanicsOnlyAfterReset` of DeviceLink.
`ExtendIsUnion` of MCCoordSigning looks at small segments; `ExtendKeepsBoth` is its
content for all.

## Disagreements between the code and what it says

- `nor_flash_log_torn`: a push that loses power before its length leaves
  programmed words; the next one is programmed over them, and the boot, which
  expects to read every entry, panics.

Seen while modelling, and left out of the properties above:

- Cancel does not stop a device's nonce batch. If the user cancels a replenishment
  and signs first, the late answer takes the coordinator's cache back to used nonces,
  and the next request panics the device at "state changed while acking sign". TLC
  shows it with `CancelReplenish = TRUE` in `MCSignSystem.cfg`; no nonce is reused. The
  constant also covers a replenishment that the user starts before the Cancel of a signing
  was sent, which that Cancel then meets.
- `cancel_protocol` drops its locks before it sends Cancel (coordinator.rs:690-692). The
  user can begin again in between, and the loop can queue the Begin, PrepareUpgrade or
  sign request of the new attempt first. The Cancel then meets devices of the new attempt:
  they forget it and panic on the next message of it, or the signing waits until it is
  cancelled or the device is plugged in again. The properties except what this met, and
  only that; TLC shows it for `CancelIsSafe`, `EnteredOnlyWhenReady` and `SigningEnds` if
  `SendCancelAll` leaves `broken`, `late` or `overtook` as it is.
- Lock order: `request_device_sign` locks the UI stack, database and coordinator in
  the reverse of the loop's order, and others, `delete_share` among them, lock the
  database before the coordinator; each can block with the loop for ever. They are the
  calls in `Unordered`, and TLC shows it with one of them in `Ordered` of `MCAppLocks`.
- A slot value longer than 256 bytes (five cached shares or more) has its index in
  the first buffer: cut off after it, the copy is newest and unreadable, and the
  slot reads as empty. `StateNeverLost` and the refinement therefore assume
  `SingleChunk`, and DeviceNonces has `Tearable` sessions. With such a slot a
  stream can come to live in two slots, as `get_or_create` takes the first slot
  that is empty or has the stream.
- An existing stream of an OpenNonceStreams is not refreshed, so a new stream of
  the same message can evict it after its job was made.
- With fewer slots than streams in use, a request for an evicted stream panics the
  device. A device has 27 slots and a coordinator opens four streams.
- `delete_share` refuses a device that was asked, not one that is selected and not
  yet asked; `request_device_sign` then fails its `expect`.
- A log that ends on the last word of its partition has no end mark and cannot be
  read at boot; the properties of NorFlashLog exclude it (`Full`).
- A device that lost power after its erase confirmation comes up from the second
  copy of its header with its share, although the app has removed it. And the
  confirmation can still be queued, behind a forwarded message or after a soft
  reset, when the erase that ends in a reset begins.
- Locks: the loop holds the firmware upgrade's mutex over `poll_ports`, against
  the comment above it; `sub_key_events` and `emit_key_state` nest `key_events`
  and `coordinator` in opposite orders, `mark_backup_complete` and `delete_key`
  nest `backup` and `db` so; `start_signing`, `cancel_protocol`, `verify_address`
  and `finalize_keygen` take `ui_stack` under `coordinator`, the sink of
  EnterPhysicalBackup takes them the other way round (it runs when
  PhysicalBackupSaved arrives before the waiter that should take it). `app_locks`
  leaves out the calls concerned.
- A call sends its request before it pushes its waiter: a faster answer goes to
  another protocol and the call waits until the device is unplugged
  (`late` in Restoration).
- Key generation: a disconnection aborts the UI protocol and leaves the entry in
  `pending_keygens` (the comment in `cancel_protocol`, which clears it, gives the reason
  why it has to be cleared), so that the devices that are left can get a follow-up for
  what Cancel made them forget, and panic, in the next attempt if they are in one. The page's new names can overtake the Cancel of
  an abort; the device then has no name when its key is finalised, and panics. A
  device that is unplugged between the commit and Finalize has no share of a key that
  lists it.
- Restoration: Cancel, or a loss of power, between the entry of a backup and the
  message that saves it panics the device. A device tells of a finished consolidation
  one poll before it writes it. The page takes a device for blank until the name it
  was given arrives: opened again before, with a second backup of the same key, it makes
  the device replace the share of the first, and the app lists an index the device may
  not have.
- `tmp_waiting_save` has one restoration for a device and an image. The same backup,
  entered and saved for a second restoration before the device answers for the first, takes
  its place: the first answer counts for the second, the second answer is refused, and the
  call for the first restoration waits until the device is unplugged. TLC shows it with
  `MaxDraws = 2` and `MaxPages = 3` if `CallsAreAnswered` is stated without `Awaited`.
- Device link: a device that is reset keeps what it had to forward. An Announce kept
  so lists a device that is no longer there, and a NeedName kept so arrives before the
  announcement and fails an expect of the app's list.
- Firmware upgrade: an AckUpgradeMode of a cancelled upgrade counts for the next one; a
  device that joins after PrepareUpgrade is not warned and panics at EnterUpgradeMode;
  the devices' ready byte before the first chunk puts the coordinator one ahead, so it
  reports success without the answer to the last chunk, before the image is verified;
  a device in the transfer loop waits without a timeout.

## Not modelled

- Genuine check: one pending challenge per connection around a certificate.
- Checking and showing a backup, and showing an address: nothing is kept beyond the
  screen.
- Persistence: a transaction of SQLite is taken as atomic, as `staged_mutate` uses it.
- Wire encodings, word backups, polynomial recovery, the Bitcoin wallet: data,
  cryptography and third-party code; the modules have their outcome where it matters.
- Drivers, secure boot, screens, fonts, the simulator, factory and build tools: I/O and
  layout without protocol state. They are most of the repository's lines.
- The conch, with which old firmware takes turns on the link.

## Plan

Modelled and checked, and next to be proved, in this order:

1. Restoration: `PanicsOnlyWhenDisturbed`, which needs the order of a device's messages
   around an entry of the page.
2. DeviceLink: `PanicsOnlyAfterReset`, which needs the order of a device's announcement
   and its name over all links of a chain.
