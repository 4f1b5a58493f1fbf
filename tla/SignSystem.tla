----------------------------- MODULE SignSystem -----------------------------
(***************************************************************************)
(* One coordinator and one of its devices: the coordinator's signing state *)
(* (CoordSigning) with the protocols that drive it                         *)
(* (frostsnap_coordinator/src/signing.rs, nonce_replenish.rs), the         *)
(* device's nonces (DeviceNonces) with the loop that feeds them            *)
(* (frostsnap_embedded/src/device_loop.rs), and the serial link, which     *)
(* keeps order and loses what is in flight when it breaks.                 *)
(***************************************************************************)
EXTENDS CoordSigning

CONSTANTS
  dev,           (* the device                                             *)
  NSlots,        (* its nonce slots                                        *)
  BatchSize,     (* nonce_batch_size                                       *)
  MinStreams,    (* N_NONCE_STREAMS                                        *)
  CancelReplenish, (* whether the user cancels a replenishment, or starts  *)
                 (* one before the Cancel of a signing is sent             *)
  MaxEvents,     (* bound: what users do and what fails                    *)
  MaxActive,     (* bound: sessions at a time                              *)
  MaxUses,       (* bound: see DeviceNonces, never reached                 *)
  None

VARIABLES
  slots, lastUsed, opening, tasks, batch, nextSeed, released, (* DeviceNonces *)
  prompt,        (* device: the sign request on its screen                 *)
  panicked,      (* device: it gave up on a sign request                   *)
  connected,     (* the device is plugged in and registered                *)
  toDevice,      (* messages in flight to the device                       *)
  toCoord,       (* messages in flight to the coordinator                  *)
  dispatch,      (* SigningDispatcher: its session                         *)
  needRequest,   (* connected_but_need_request                             *)
  replenishing,  (* there is a NonceReplenishProtocol                      *)
  pending,       (* its pending_messages                                   *)
  awaiting,      (* its awaiting_response                                  *)
  usedIds,       (* stream ids that were drawn                             *)
  cancelling,    (* calls of cancel_protocol that have still to send Cancel *)
  overtook,      (* history: a request met a Cancel that was sent after it *)
  events         (* user actions and failures so far                       *)

SessionIds ==
  [task : Tasks,
   nonces : [{dev} -> [stream : Streams, index : Nat, remaining : Nat, nonces : Seq(Nat \X Nat)]]]

ASSUME SystemAssumption ==
  /\ dev \in Devices
  /\ NSlots \in Nat \ {0} /\ BatchSize \in Nat \ {0} /\ MinStreams \in Nat
  /\ CancelReplenish \in BOOLEAN
  /\ MaxEvents \in Nat /\ MaxActive \in Nat /\ MaxUses \in Nat
  /\ None \notin Streams /\ None \notin SessionIds

D == INSTANCE DeviceNonces WITH
       Sessions <- SessionIds, NSigs <- [s \in SessionIds |-> TaskSigs[s.task]],
       Tearable <- {}, IndexMax <- StreamIndexMax, MaxOpen <- 1, MaxSeeds <- MaxUses

deviceVars == <<slots, lastUsed, opening, tasks, batch, nextSeed, released>>
linkVars == <<toDevice, toCoord, connected>>
protocolVars == <<dispatch, needRequest, replenishing, pending, awaiting, usedIds>>
cancelVars == <<cancelling, overtook>>
vars == <<coordVars, deviceVars, prompt, panicked, linkVars, protocolVars, cancelVars, events>>

Init ==
  /\ CoordInit
  /\ D!Init
  /\ prompt = None
  /\ panicked = FALSE
  /\ connected = TRUE
  /\ toDevice = <<>> /\ toCoord = <<>>
  /\ dispatch = None /\ needRequest = FALSE
  /\ replenishing = FALSE /\ pending = <<>> /\ awaiting = FALSE
  /\ usedIds = {}
  /\ cancelling = 0 /\ overtook = FALSE
  /\ events = 0

\* The user or a failure does something, which is bounded.
Event ==
  /\ events < MaxEvents
  /\ events' = events + 1

Send(m) == toDevice' = Append(toDevice, m)
Answer(m) == toCoord' = Append(toCoord, m)

OpenMsg(state) == [type |-> "open", state |-> state]
SignMsg(s) ==
  [type |-> "sign", session |-> s,
   state |-> [stream |-> s.nonces[dev].stream, index |-> s.nonces[dev].index,
              remaining |-> s.nonces[dev].remaining]]
CancelMsg == [type |-> "cancel"]

----------------------------------------------------------------------------
(* The coordinator's protocols *)

Ascending(S) ==
  CHOOSE f \in [1 .. Cardinality(S) -> S] : \A i, j \in 1 .. Cardinality(S) : i < j => f[i] < f[j]

StreamState(x) ==
  IF x \in DOMAIN cache[dev]
    THEN [stream |-> x, index |-> cache[dev][x].index, remaining |-> Len(cache[dev][x].nonces)]
    ELSE [stream |-> x, index |-> 0, remaining |-> 0]

\* generate_nonce_stream_opening_requests: new streams, so that there are
\* MinStreams, and then what the coordinator has of the others.
OpeningRequests(fresh) ==
  LET ids == Ascending(fresh) \o Ascending(DOMAIN cache[dev])
  IN  [n \in 1 .. Len(ids) |-> StreamState(ids[n])]

Missing == IF Cardinality(DOMAIN cache[dev]) < MinStreams
             THEN MinStreams - Cardinality(DOMAIN cache[dev]) ELSE 0

\* replenish_nonces, when some_nonces_requested.  Its dialog is modal: nothing
\* is signed meanwhile.
StartReplenish ==
  /\ Event
  /\ connected
  /\ ~replenishing
  /\ dispatch = None
  /\ CancelReplenish \/ cancelling = 0
  /\ \E fresh \in SUBSET (Streams \ usedIds) :
       /\ Cardinality(fresh) = Missing
       /\ LET requests == OpeningRequests(fresh)
          IN  /\ \E n \in 1 .. Len(requests) : requests[n].remaining = 0
              /\ pending' = requests
       /\ usedIds' = usedIds \cup fresh
  /\ replenishing' = TRUE
  /\ awaiting' = FALSE
  /\ UNCHANGED <<coordVars, deviceVars, prompt, panicked, linkVars, dispatch, needRequest,
                 cancelVars>>

\* NonceReplenishProtocol::poll
SendOpening ==
  /\ replenishing /\ ~awaiting /\ pending # <<>>
  /\ Send(OpenMsg(Head(pending)))
  /\ pending' = Tail(pending)
  /\ awaiting' = TRUE
  /\ UNCHANGED <<coordVars, deviceVars, prompt, panicked, toCoord, connected, dispatch,
                 needRequest, replenishing, usedIds, cancelVars, events>>

\* start_signing
StartSigning(t) ==
  /\ Event
  /\ dispatch = None
  /\ ~replenishing
  /\ Cardinality(ActiveSessions) < MaxActive
  /\ StartSign(t, {dev})
  /\ dispatch' = NewSession(t, {dev})
  /\ needRequest' = connected
  /\ UNCHANGED <<deviceVars, prompt, panicked, linkVars, replenishing, pending, awaiting, usedIds,
                 cancelVars>>

\* try_restore_signing_session
RestoreSigning(s) ==
  /\ Event
  /\ dispatch = None
  /\ ~replenishing
  /\ dispatch' = s
  /\ needRequest' = connected
  /\ UNCHANGED <<coordVars, deviceVars, prompt, panicked, linkVars, replenishing, pending,
                 awaiting, usedIds, cancelVars>>

\* request_device_sign, then SigningDispatcher::send_sign_request
RequestSign ==
  /\ dispatch # None /\ needRequest
  /\ RequestDeviceSign(dispatch, dev)
  /\ Send(SignMsg(dispatch))
  /\ needRequest' = FALSE
  /\ overtook' = FALSE
  /\ UNCHANGED <<deviceVars, prompt, panicked, toCoord, connected, dispatch, replenishing,
                 pending, awaiting, usedIds, cancelling, events>>

\* Every protocol of the UI stack is cancelled, under the locks.
AbortProtocols ==
  /\ dispatch' = None /\ needRequest' = FALSE
  /\ replenishing' = FALSE /\ pending' = <<>> /\ awaiting' = FALSE
  /\ cancelling' = cancelling + 1

\* cancel_protocol; a session that was being signed stays active.
CancelProtocol ==
  /\ Event
  /\ dispatch # None \/ (CancelReplenish /\ replenishing)
  /\ AbortProtocols
  /\ UNCHANGED <<coordVars, deviceVars, prompt, panicked, linkVars, usedIds, overtook>>

\* The devices are told when the locks are dropped: a new request may have been
\* sent before.
SendCancelAll ==
  /\ cancelling > 0
  /\ cancelling' = cancelling - 1
  /\ IF connected THEN Send(CancelMsg) ELSE UNCHANGED toDevice
  /\ overtook' = (overtook \/ (dispatch # None /\ connected /\ ~needRequest))
  /\ UNCHANGED <<coordVars, deviceVars, prompt, panicked, toCoord, connected, protocolVars, events>>

\* cancel_sign_session, with cancel_protocol when the session is being signed.
CancelSession(s) ==
  /\ Event
  /\ CancelSignSession(s)
  /\ IF dispatch = s THEN AbortProtocols
     ELSE UNCHANGED <<dispatch, needRequest, replenishing, pending, awaiting, cancelling>>
  /\ UNCHANGED <<deviceVars, prompt, panicked, linkVars, usedIds, overtook>>

----------------------------------------------------------------------------
(* The device *)

\* The public nonces of a finished job.
JobSegment(job) ==
  Segment(job.stream, job.index, [k \in 1 .. job.length |-> <<job.seed, job.index + k - 1>>])

JobSegments(jobs) == [n \in 1 .. Len(jobs) |-> JobSegment(jobs[n])]

NoncesMsg(segs) == [type |-> "nonces", segments |-> segs]

\* The device takes a message off the link, between two of which it finishes
\* what it does for the first.
Receives(type) ==
  /\ D!Idle
  /\ toDevice # <<>>
  /\ Head(toDevice).type = type
  /\ toDevice' = Tail(toDevice)

ReceiveOpen ==
  /\ Receives("open")
  /\ LET state == Head(toDevice).state
     IN  IF D!Holding(state.stream) # {} THEN D!OpenNonceStreams(<<state>>, <<>>)
                                         ELSE D!OpenNonceStreams(<<>>, <<state>>)
  /\ UNCHANGED <<coordVars, prompt, panicked, toCoord, connected, protocolVars, cancelVars, events>>

OpenStream ==
  /\ D!OpenStream
  /\ IF tasks' = <<>> THEN Answer(NoncesMsg(<<>>)) ELSE UNCHANGED toCoord
  /\ UNCHANGED <<coordVars, prompt, panicked, toDevice, connected, protocolVars, cancelVars, events>>

StartBatch ==
  /\ D!StartBatch
  /\ UNCHANGED <<coordVars, prompt, panicked, linkVars, protocolVars, cancelVars, events>>

\* The nonce batch is worked on whatever the screen shows, and sent when it is
\* finished.
FinishBatch ==
  /\ D!FinishBatch
  /\ Answer(NoncesMsg(JobSegments(batch)))
  /\ UNCHANGED <<coordVars, prompt, panicked, toDevice, connected, protocolVars, cancelVars, events>>

\* A request for a stream the device does not have is an error, which the
\* device loop does not survive.
ReceiveSign ==
  /\ Receives("sign")
  /\ LET m == Head(toDevice)
     IN  IF D!Holding(m.state.stream) = {}
           THEN panicked' = TRUE /\ UNCHANGED prompt
           ELSE prompt' = m /\ UNCHANGED panicked
  /\ UNCHANGED <<coordVars, deviceVars, toCoord, connected, protocolVars, cancelVars, events>>

\* Cancel clears the screen and leaves the nonce batch alone.
ReceiveCancel ==
  /\ Receives("cancel")
  /\ prompt' = None
  /\ UNCHANGED <<coordVars, deviceVars, panicked, toCoord, connected, protocolVars, cancelVars, events>>

\* sign_ack has the nonces that are asked for.
CanAck(m) ==
  /\ D!Holding(m.state.stream) # {}
  /\ LET v == slots[D!First(D!Holding(m.state.stream))]
     IN  D!Cached(v, m.session) \/ D!NoncesAvailable(v, m.session, m.state.index)

\* The nonces of the shares a slot has cached, in the order of the signatures.
SharesNonces(v) ==
  [k \in 1 .. Cardinality(v.shares) |->
     LET sh == CHOOSE x \in v.shares : x.item = k IN <<sh.seed, sh.index>>]

\* The user confirms: sign_ack, whose error is "state changed while acking sign".
ConfirmSign ==
  /\ prompt # None
  /\ D!Idle
  /\ prompt' = None
  /\ IF CanAck(prompt)
       THEN /\ D!Sign(prompt.session, prompt.state)
            /\ LET v == slots'[D!First(D!Holding(prompt.state.stream))]
               IN  Answer([type |-> "shares", session |-> prompt.session, used |-> SharesNonces(v),
                           replenish |-> JobSegments(D!Reconcile(v, prompt.state))])
            /\ UNCHANGED panicked
       ELSE /\ panicked' = TRUE
            /\ UNCHANGED <<deviceVars, toCoord>>
  /\ UNCHANGED <<coordVars, toDevice, connected, protocolVars, cancelVars, events>>

----------------------------------------------------------------------------
(* The coordinator's inbox *)

CoordReceive ==
  /\ toCoord # <<>>
  /\ toCoord' = Tail(toCoord)
  /\ LET m == Head(toCoord)
     IN  \/ /\ m.type = "nonces"
            /\ IF m.segments = <<>> THEN UNCHANGED coordVars ELSE RecvNonces(dev, m.segments[1])
            /\ awaiting' = FALSE
            /\ replenishing' = (replenishing /\ (pending # <<>> \/ ~awaiting))
            /\ UNCHANGED <<dispatch, needRequest>>
         \/ /\ m.type = "shares"
            /\ RecvShares(dev, m.session, m.used, m.replenish)
            /\ IF dispatch = m.session /\ dispatch \notin DOMAIN active'
                 THEN dispatch' = None /\ needRequest' = FALSE
                 ELSE UNCHANGED <<dispatch, needRequest>>
            /\ UNCHANGED <<awaiting, replenishing>>
  /\ UNCHANGED <<deviceVars, prompt, panicked, toDevice, connected, pending, usedIds, cancelVars,
                 events>>

----------------------------------------------------------------------------
(* Failures *)

\* What was in flight is gone, and the coordinator's protocols see the
\* disconnection.
LinkBreaks ==
  /\ toDevice' = <<>> /\ toCoord' = <<>>
  /\ prompt' = None
  /\ connected' = FALSE
  /\ needRequest' = FALSE
  /\ replenishing' = FALSE /\ pending' = <<>> /\ awaiting' = FALSE

\* The device is unplugged, which takes its power, possibly while it signs.
Unplug ==
  /\ Event
  /\ connected
  /\ \/ D!PowerLoss
     \/ prompt # None /\ CanAck(prompt) /\ D!SignPowerLoss(prompt.session, prompt.state)
  /\ LinkBreaks
  /\ UNCHANGED <<coordVars, panicked, dispatch, usedIds, cancelVars>>

\* The app is restarted: its protocols are gone, and the device loop resets
\* when it sees the magic bytes of the new connection.
RestartApp ==
  /\ Event
  /\ D!Idle
  /\ batch' = <<>>
  /\ LinkBreaks
  /\ dispatch' = None
  /\ cancelling' = 0 /\ overtook' = FALSE
  /\ UNCHANGED <<coordVars, slots, lastUsed, opening, tasks, nextSeed, released, panicked, usedIds>>

\* Mutant: a device that is plugged in again is not asked again.
ConnectAsksOnce ==
  /\ ~connected
  /\ connected' = TRUE
  /\ UNCHANGED <<coordVars, deviceVars, prompt, panicked, toDevice, toCoord, dispatch,
                 needRequest, replenishing, pending, awaiting, usedIds, cancelVars, events>>

\* SigningDispatcher::connected
Connect_ ==
  /\ ~connected
  /\ connected' = TRUE
  /\ needRequest' = (dispatch # None)
  /\ UNCHANGED <<coordVars, deviceVars, prompt, panicked, toDevice, toCoord, dispatch,
                 replenishing, pending, awaiting, usedIds, cancelVars, events>>

----------------------------------------------------------------------------
Coordinator == SendOpening \/ RequestSign \/ CoordReceive

DeviceLoop ==
  \/ ReceiveOpen \/ OpenStream \/ StartBatch \/ FinishBatch
  \/ ReceiveSign \/ ReceiveCancel

Running == ~panicked /\ ~crashed

Next ==
  /\ Running
  /\ \/ Coordinator
     \/ DeviceLoop
     \/ ConfirmSign
     \/ Connect_
     \/ StartReplenish
     \/ \E t \in Tasks : StartSigning(t)
     \/ \E s \in ActiveSessions : RestoreSigning(s)
     \/ CancelProtocol
     \/ SendCancelAll
     \/ \E s \in ActiveSessions : CancelSession(s)
     \/ Unplug
     \/ RestartApp

Spec == Init /\ [][Next]_vars

\* Both loops run for ever, and the user confirms what the screen shows and plugs
\* the device in again.
Fairness ==
  /\ WF_vars(Running /\ Coordinator)
  /\ WF_vars(Running /\ DeviceLoop)
  /\ WF_vars(Running /\ ConfirmSign)
  /\ WF_vars(Running /\ Connect_)

FairSpec == Spec /\ Fairness

----------------------------------------------------------------------------
(* Properties *)

\* "state changed while acking sign" and "failed to process coordinator message"
\* never stop the device: it has the nonces of every request it shows.
DeviceNeverPanics == ~panicked

\* What is given to the next session is unused: in a stream no session is
\* using the coordinator is never behind the device.
CacheNotBehind ==
  \A x \in DOMAIN cache[dev] \ UsedStreams : \A i \in D!Holding(x) :
    cache[dev][x].index >= slots[i].index

\* Shares that reach the coordinator while their session is active verify: both
\* sides mean the same nonces by the session.
SharesVerify ==
  \A n \in 1 .. Len(toCoord) :
    LET m == toCoord[n]
    IN  m.type = "shares" /\ m.session \in ActiveSessions =>
          m.used = m.session.nonces[dev].nonces

\* Every session the coordinator keeps can still be signed, also when it was
\* interrupted: the device has its shares or its unused nonces
\* (try_restore_signing_session, "the signing logic will handle cached
\* signatures naturally").
SessionsRestorable == \A s \in ActiveSessions : CanAck(SignMsg(s))

\* A session that is being signed comes to an end, by its signature or the user's
\* cancellation, although the device may be unplugged or lose its power after it
\* signed and before its shares arrive: the request is sent again and answered
\* from the slot.  A request that is overtaken by the Cancel of an earlier signing
\* waits until the user cancels or plugs the device in again.
SigningEnds == (dispatch # None) ~> (dispatch = None \/ overtook)

=============================================================================
