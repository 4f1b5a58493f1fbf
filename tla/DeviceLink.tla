------------------------------ MODULE DeviceLink ------------------------------
(***************************************************************************)
(* Devices in a chain below a USB port, the handshake that joins each link *)
(* and the list of devices that the coordinator keeps for each port.       *)
(*                                                                         *)
(* chain[p] is what is plugged in below port p, the head first.  Each      *)
(* device shares a link with what is above it (the coordinator or the      *)
(* device before it): down[d] and up[d] are the frames in flight to and    *)
(* from d.  A device polls as device_loop.rs does: it looks after the link *)
(* below, forwards what comes from there, reads what comes from above and  *)
(* sends one message of its queue.  The coordinator polls a port as        *)
(* UsbSerialManager::poll_ports does, and hands its changes to the list of *)
(* the app.  The poll of all ports is one step for each port.              *)
(*                                                                         *)
(* Frames are not corrupted, and a cable is moved more slowly than its     *)
(* ends poll: a place is filled again once what is above it has seen that  *)
(* it is empty.                                                            *)
(***************************************************************************)
EXTENDS Integers, Sequences, FiniteSets, SequencesExt, Lists

CONSTANTS
  Devices,
  Ports,
  Named,          \* the devices that have a name
  Threshold,      \* MAGIC_BYTES_RESET_THRESHOLD
  MaxMagic,       \* bound on the magic bytes in flight on a link
  MaxMoves,       \* bound on pluggings and unpluggings
  MaxFaults,      \* bound on restarts of the app and of devices
  MaxReports      \* bound on the messages of devices' own work

None == "none"

ASSUME LinkAssumption ==
  /\ Named \subseteq Devices
  /\ None \notin Ports
  /\ Threshold \in Nat
  /\ MaxMagic \in Nat \ {0}
  /\ MaxMoves \in Nat
  /\ MaxFaults \in Nat
  /\ MaxReports \in Nat

VARIABLES
  chain,          \* what is plugged in below each port
  down,           \* frames to each device from above
  up,             \* frames from each device to above
  dev,            \* the state of each device's loop
  ports,          \* the state of each port in the coordinator
  list,           \* reverse_device_ports: the devices of each port, in order
  portOf,         \* device_ports
  registered,     \* registered_devices
  names,          \* device_names, which is persisted
  ui,             \* the app's device list: who is connected, who is listed
  panicked,       \* an expect of the app's device list failed
  kept,           \* history: devices whose messages outlived a reset above
  budget          \* the moves, faults and reports that are left

coordVars == <<ports, list, portOf, registered, names, ui, panicked>>
vars == <<chain, down, up, dev, coordVars, kept, budget>>

Magic == [frame |-> "magic"]
Reset == [frame |-> "reset"]
Off == [state |-> "off", below |-> "Disconnected", queue |-> <<>>,
        softReset |-> FALSE, magics |-> 0]
On == [Off EXCEPT !.state = "PowerOn"]

Message(d, body) == [from |-> d, body |-> body]

Init ==
  /\ chain = [p \in Ports |-> <<>>]
  /\ down = [d \in Devices |-> <<>>]
  /\ up = [d \in Devices |-> <<>>]
  /\ dev = [d \in Devices |-> Off]
  /\ ports = [p \in Ports |-> "closed"]
  /\ list = [p \in Ports |-> <<>>]
  /\ portOf = [d \in Devices |-> None]
  /\ registered = {}
  /\ names = {}
  /\ ui = [connected |-> {}, listed |-> {}]
  /\ panicked = FALSE
  /\ kept = {}
  /\ budget = [moves |-> MaxMoves, faults |-> MaxFaults, reports |-> MaxReports]

-----------------------------------------------------------------------------
(* Frames. *)

Count(frames, f) == Cardinality({i \in DOMAIN frames : frames[i] = f})
Room(frames) == Count(frames, Magic) < MaxMagic

\* Mutant: what was there before the magic bytes is kept.
AfterMagicKeeps(frames) ==
  IF Contains(frames, Magic) THEN SelectSeq(frames, LAMBDA f : f # Magic) ELSE frames

(* What is left once the magic bytes are found; all is read if they are not. *)
AfterMagic(frames) ==
  IF Contains(frames, Magic)
    THEN SubSeq(frames, SelectInSeq(frames, LAMBDA f : f = Magic) + 1, Len(frames))
    ELSE <<>>

-----------------------------------------------------------------------------
(* A device. *)

Place(d, p) == SelectInSeq(chain[p], LAMBDA e : e = d)
Below(d) ==
  LET at == {p \in Ports : Place(d, p) # 0 /\ Place(d, p) < Len(chain[p])}
  IN  IF at = {} THEN None ELSE LET p == CHOOSE q \in at : TRUE IN chain[p][Place(d, p) + 1]

(* set_state(PowerOn): what was forwarded is kept, what is its own is not. *)
PowerOn(d, s) ==
  [s EXCEPT !.state = "PowerOn",
            !.queue = Retain(@, {m \in ToSet(@) : m.from = d})]

SoftReset(d, s) ==
  IF s.softReset
    THEN [PowerOn(d, s) EXCEPT !.softReset = FALSE, !.magics = 0, !.below = "Disconnected"]
    ELSE s

(* The link below, to device b if there is one, and the handshake with it. *)
Downstream(d, s, b) ==
  CASE b # None /\ s.below = "Disconnected" -> [s EXCEPT !.below = "Connected"]
    [] b # None /\ s.below = "Connected" /\ Contains(up[b], Magic) ->
         [s EXCEPT !.below = "Established"]
    [] b = None /\ s.below = "Established" ->
         [s EXCEPT !.below = "Disconnected",
                   !.queue = Append(@, Message(d, "DisconnectDownstream"))]
    [] b = None /\ s.below = "Connected" -> [s EXCEPT !.below = "Disconnected"]
    [] OTHER -> s

(* What has come from below and is read by the loop that forwards it: all, *)
(* or up to a reset.                                                       *)
Arrived(frames) ==
  LET reset == SelectInSeq(frames, LAMBDA f : f = Reset)
  IN  IF reset = 0 THEN frames ELSE SubSeq(frames, 1, reset)

Forward(d, s, arrived) ==
  LET broken == Contains(arrived, Magic) \/ Contains(arrived, Reset)
      asMessage(f) == IF f \in {Magic, Reset} THEN Message(d, "DisconnectDownstream") ELSE f
  IN  [s EXCEPT !.queue = @ \o [i \in DOMAIN arrived |-> asMessage(arrived[i])],
                !.below = IF broken THEN "Disconnected" ELSE @]

\* Mutant: a device that is not acknowledged waits for ever.
MagicAgainWaits(d, s) == IF s.state = "Acked" THEN [s EXCEPT !.softReset = TRUE] ELSE s

(* Magic bytes that come last: the coordinator is waiting for a handshake. *)
MagicAgain(d, s) ==
  CASE s.state = "Acked" -> [s EXCEPT !.softReset = TRUE]
    [] s.state # "Acked" /\ s.magics > Threshold -> [PowerOn(d, s) EXCEPT !.magics = 0]
    [] OTHER -> [s EXCEPT !.magics = @ + 1]

(* The handshake above: announce, and queue the name or the need of one. *)
Handshake(d, s) ==
  [s EXCEPT !.state = "Established",
            !.queue = Append(@, Message(d, IF d \in Named THEN "SetName" ELSE "NeedName"))]

(* What is in from below once the handshake has looked for magic bytes. *)
Incoming(s, b) ==
  CASE b = None -> <<>>
    [] b # None /\ s.below = "Connected" -> AfterMagic(up[b])
    [] OTHER -> up[b]

(* What it does above with the frames it reads. *)
PollAbove(d, s, read) ==
  CASE s.state = "PowerOn" /\ Contains(down[d], Magic) -> Handshake(d, s)
    [] s.state # "PowerOn" /\ read # <<>> /\ Last(read) = Magic -> MagicAgain(d, s)
    [] OTHER -> s

(* dequeue_message: the announcement, or one message once acknowledged. *)
Dequeued(d, s, shook) ==
  CASE shook -> <<Magic, Message(d, "Announce")>>
    [] ~shook /\ s.state = "Acked" /\ s.queue # <<>> -> <<Head(s.queue)>>
    [] OTHER -> <<>>

(* One poll.  tick: it is time to write magic bytes to the device below. *)
DevicePoll(d, tick) ==
  /\ dev[d].state # "off"
  /\ \E b \in {Below(d)}, s0 \in {SoftReset(d, dev[d])} :
     \E s1 \in {Downstream(d, s0, b)}, incoming \in {Incoming(s0, b)} :
     \E arrived \in {IF s1.below = "Established" THEN Arrived(incoming) ELSE <<>>} :
     \E s2 \in {Forward(d, s1, arrived)} :
     \E read \in {IF s2.state = "PowerOn" THEN <<>> ELSE down[d]} :
     \E s \in {PollAbove(d, s2, read)} :
     \E shook \in {s2.state = "PowerOn" /\ s.state = "Established"} :
     \E sends \in {Dequeued(d, s, shook)},
        forwarded \in {IF s2.below = "Established"
                         THEN SelectSeq(read, LAMBDA f : f # Magic /\ f # [to |-> d])
                         ELSE <<>>} :
       /\ tick => b # None /\ s0.below = "Connected" /\ Room(down[b])
       /\ dev' = [dev EXCEPT ![d] =
                    [s EXCEPT !.queue = IF ~shook /\ sends # <<>> THEN Tail(@) ELSE @,
                              !.state = IF Contains(read, [to |-> d]) THEN "Acked" ELSE @]]
       /\ down' = [e \in Devices |->
                     CASE e = d -> IF shook THEN AfterMagic(down[d]) ELSE <<>>
                       [] e = b -> (IF tick THEN Append(down[e], Magic) ELSE down[e])
                                     \o forwarded
                       [] OTHER -> down[e]]
       /\ up' = [e \in Devices |->
                   CASE e = d -> up[e] \o sends
                     [] e = b -> SubSeq(incoming, Len(arrived) + 1, Len(incoming))
                     [] OTHER -> up[e]]
       /\ kept' = IF dev[d].softReset \/ (s2.state # "PowerOn" /\ s.state = "PowerOn")
                    THEN kept \union ({m.from : m \in ToSet(s.queue)} \ {d})
                    ELSE kept
       /\ UNCHANGED <<chain, coordVars, budget>>

(* A device has something of its own to say: an answer to the coordinator. *)
Report(d) ==
  /\ dev[d].state = "Acked"
  /\ budget.reports > 0
  /\ budget' = [budget EXCEPT !.reports = @ - 1]
  /\ dev' = [dev EXCEPT ![d].queue = Append(@, Message(d, "Core"))]
  /\ UNCHANGED <<chain, down, up, coordVars, kept>>

(* A device resets after an erase or an upgrade: it says so and boots. *)
Reboot(d) ==
  /\ dev[d].state # "off"
  /\ budget.faults > 0
  /\ budget' = [budget EXCEPT !.faults = @ - 1]
  /\ dev' = [dev EXCEPT ![d] = On]
  /\ up' = [up EXCEPT ![d] = Append(@, Reset)]
  /\ down' = [down EXCEPT ![d] = <<>>]
  /\ UNCHANGED <<chain, coordVars, kept>>

-----------------------------------------------------------------------------
(* The coordinator.  What a poll of a port does is put together in a record: *)
(* the manager's maps and the changes it reports to the app.               *)

Manager ==
  [ports |-> ports, list |-> list, portOf |-> portOf, registered |-> registered,
   gone |-> {}, new |-> {}, needsName |-> {}, named |-> {}]

(* Devices leave: from their port, from the registered ones, and a change. *)
Removed(m, devices) ==
  [m EXCEPT !.portOf = [d \in Devices |-> IF d \in devices THEN None ELSE @[d]],
            !.registered = @ \ devices,
            !.gone = @ \union devices]

(* disconnect: the port and every device on its list. *)
Disconnect(m, p) ==
  [Removed(m, ToSet(m.list[p])) EXCEPT !.ports[p] = "closed", !.list[p] = <<>>]

(* A device says that what was below it is gone. *)
DisconnectDownstream(m, p, from) ==
  LET i == SelectInSeq(m.list[p], LAMBDA d : d = from)
      keep == IF i = 0 THEN Len(m.list[p]) ELSE i
  IN  [Removed(m, ToSet(SubSeq(m.list[p], keep + 1, Len(m.list[p]))))
         EXCEPT !.list[p] = SubSeq(@, 1, keep)]

\* Mutant: the list of the old port is left alone.
HandleAnnounceTwice(m, p, from) ==
  LET m1 == IF m.portOf[from] = None THEN m ELSE Removed(m, {from})
  IN  [m1 EXCEPT !.portOf[from] = p, !.list[p] = Append(@, from), !.new = {from}]

(* An announcement is a new connection even under a known id. *)
HandleAnnounce(m, p, from) ==
  LET old == m.portOf[from]
      m1 == IF old = None THEN m
            ELSE [Removed(m, {from}) EXCEPT !.list[old] = Retain(@, {from})]
  IN  [m1 EXCEPT !.portOf[from] = p, !.list[p] = Append(@, from), !.new = {from}]

(* One frame of a port that is ready. *)
Received(m, p, f) ==
  IF f \in {Magic, Reset} THEN Disconnect(m, p)
  ELSE CASE f.body = "Announce" -> HandleAnnounce(m, p, f.from)
         [] f.body = "DisconnectDownstream" -> DisconnectDownstream(m, p, f.from)
         [] f.body = "NeedName" -> [m EXCEPT !.needsName = {f.from}]
         [] f.body = "Core" -> m
         [] f.body = "SetName" -> [m EXCEPT !.named = {f.from} \ names]

(* Devices that are reachable and have a known name are registered. *)
Register(m) ==
  [m EXCEPT !.registered = @ \union {d \in names : m.portOf[d] # None}]

(* consume_manager_event, for the changes of a poll in the order it makes  *)
(* them.  A device that is added to the list has to be connected.          *)
Connected(m) == (ui.connected \ m.gone) \union m.new
Added(m) == m.needsName \union (m.registered \ (registered \ m.gone))
ConsumeEvents(m) ==
  LET stays == ui.listed \ m.gone
  IN  /\ ui' = [connected |-> Connected(m), listed |-> stays \union Added(m)]
      /\ panicked' = \/ ~((ui.listed \intersect m.gone) \subseteq ui.connected)
                     \/ ~((Added(m) \ stays) \subseteq Connected(m))

(* The end of a poll: what is reported, and who has a name. *)
Apply(polled) ==
  \E m \in {Register(polled)} :
    /\ ports' = m.ports
    /\ list' = m.list
    /\ portOf' = m.portOf
    /\ registered' = m.registered
    /\ names' = names \union m.named
    /\ ConsumeEvents(m)

Plugged(p) == chain[p] # <<>>

(* The port has gone. *)
PortGone(p) ==
  /\ ~panicked
  /\ ~Plugged(p)
  /\ ports[p] # "closed"
  /\ Apply(Disconnect(Manager, p))
  /\ UNCHANGED <<chain, down, up, dev, kept, budget>>

(* A port that has come is opened; it can be denied, and is tried again,   *)
(* or be in use by another program, and is left alone.                     *)
OpenPort(p, result) ==
  /\ ~panicked
  /\ Plugged(p)
  /\ ports[p] \in {"closed", "pending"}
  /\ ports' = [ports EXCEPT ![p] = result]
  /\ UNCHANGED <<chain, down, up, dev, list, portOf, registered, names, ui, panicked,
                 kept, budget>>

(* An open port is searched for magic bytes, or given some. *)
AwaitMagic(p) ==
  LET d == Head(chain[p])
      found == Contains(up[d], Magic)
      writes == ~found /\ Room(down[d])
  IN  /\ ~panicked
      /\ Plugged(p)
      /\ ports[p] = "awaiting"
      /\ ports' = [ports EXCEPT ![p] = IF found THEN "ready" ELSE "awaiting"]
      /\ up' = [up EXCEPT ![d] = AfterMagic(@)]
      /\ down' = [down EXCEPT ![d] = IF writes THEN Append(@, Magic) ELSE @]
      /\ UNCHANGED <<chain, dev, list, portOf, registered, names, ui, panicked, kept, budget>>

(* One frame of a ready port is read, and an announcement acknowledged. *)
PollReady(p) ==
  /\ ~panicked
  /\ Plugged(p)
  /\ ports[p] = "ready"
  /\ \E d \in {Head(chain[p])} :
       /\ up[d] # <<>>
       /\ \E m \in {Received(Manager, p, Head(up[d]))} :
            /\ Apply(m)
            /\ down' = [down EXCEPT ![d] = @ \o SetToSeq({[to |-> e] : e \in m.new})]
       /\ up' = [up EXCEPT ![d] = Tail(@)]
  /\ UNCHANGED <<chain, dev, kept, budget>>

(* A name that was learnt in the poll before. *)
PollIdle ==
  /\ ~panicked
  /\ Register(Manager) # Manager
  /\ Apply(Manager)
  /\ UNCHANGED <<chain, down, up, dev, kept, budget>>

(* The app stops and starts: only the names were saved.  What the ports    *)
(* had received may be lost.                                               *)
AppRestart(lost) ==
  /\ budget.faults > 0
  /\ budget' = [budget EXCEPT !.faults = @ - 1]
  /\ ports' = [p \in Ports |-> "closed"]
  /\ list' = [p \in Ports |-> <<>>]
  /\ portOf' = [d \in Devices |-> None]
  /\ registered' = {}
  /\ ui' = [connected |-> {}, listed |-> {}]
  /\ panicked' = FALSE
  /\ up' = [d \in Devices |->
              IF lost /\ \E p \in Ports : Plugged(p) /\ Head(chain[p]) = d THEN <<>> ELSE up[d]]
  /\ UNCHANGED <<chain, down, dev, names, kept>>

-----------------------------------------------------------------------------
(* The cables. *)

Move == budget.moves > 0 /\ budget' = [budget EXCEPT !.moves = @ - 1]

PlugIn(d, p) ==
  /\ dev[d].state = "off"
  /\ Move
  /\ IF Plugged(p) THEN dev[Last(chain[p])].below = "Disconnected"
                   ELSE ports[p] = "closed"
  /\ chain' = [chain EXCEPT ![p] = Append(@, d)]
  /\ dev' = [dev EXCEPT ![d] = On]
  /\ UNCHANGED <<down, up, coordVars, kept>>

(* A cable is pulled: everything from d on is without power. *)
Unplug(d) ==
  \E p \in Ports :
    LET lost == ToSet(SubSeq(chain[p], Place(d, p), Len(chain[p])))
    IN  /\ Place(d, p) # 0
        /\ Move
        /\ chain' = [chain EXCEPT ![p] = SubSeq(@, 1, Place(d, p) - 1)]
        /\ dev' = [e \in Devices |-> IF e \in lost THEN Off ELSE dev[e]]
        /\ down' = [e \in Devices |-> IF e \in lost THEN <<>> ELSE down[e]]
        /\ up' = [e \in Devices |-> IF e \in lost THEN <<>> ELSE up[e]]
        /\ UNCHANGED <<coordVars, kept>>

Opened == {"awaiting", "pending", "ignored"}

Next ==
  \/ \E d \in Devices, tick \in BOOLEAN : DevicePoll(d, tick)
  \/ \E d \in Devices : Report(d) \/ Reboot(d) \/ Unplug(d)
  \/ \E d \in Devices, p \in Ports : PlugIn(d, p)
  \/ \E p \in Ports : PortGone(p) \/ AwaitMagic(p) \/ PollReady(p)
  \/ \E p \in Ports, result \in Opened : OpenPort(p, result)
  \/ PollIdle
  \/ \E lost \in BOOLEAN : AppRestart(lost)

Spec == Init /\ [][Next]_vars

(* The thread that polls the ports, without the openings that fail. *)
CoordinatorPoll(p) ==
  \/ PortGone(p)
  \/ OpenPort(p, "awaiting")
  \/ AwaitMagic(p)
  \/ PollReady(p)
  \/ PollIdle

(* Both loops run for ever, and a port that may be opened is in the end. *)
Fairness ==
  /\ \A d \in Devices : WF_vars(\E tick \in BOOLEAN : DevicePoll(d, tick))
  /\ \A p \in Ports : WF_vars(CoordinatorPoll(p))

FairSpec == Spec /\ Fairness


-----------------------------------------------------------------------------
(* Properties. *)

(* The manager's two maps and the app's list are kept by different code    *)
(* (disconnect, DisconnectDownstream, handle_announce, consume_manager_    *)
(* event) and describe the same devices: a device is on the list of the    *)
(* port it is reached through, once, and on no other; whoever is           *)
(* registered is in the app's list, and the app's list has only devices    *)
(* that are connected.                                                     *)
PortsAgree ==
  /\ \A d \in Devices, p \in Ports :
       Cardinality({i \in DOMAIN list[p] : list[p][i] = d}) = IF portOf[d] = p THEN 1 ELSE 0
  /\ registered \subseteq ui.listed
  /\ panicked \/ ui.connected = {d \in Devices : portOf[d] # None}
  /\ panicked \/ ui.listed \subseteq ui.connected

(* A port is settled when its list has the devices of its chain in their   *)
(* order, and the app shows them.  A device that is not there may be on    *)
(* the list only if a device above it went through a reset with a message  *)
(* of it in its queue.                                                     *)
Settled(p) ==
  /\ ports[p] = IF Plugged(p) THEN "ready" ELSE "closed"
  /\ SelectSeq(list[p], LAMBDA d : Contains(chain[p], d)) = chain[p]
  /\ ToSet(list[p]) \subseteq ToSet(chain[p]) \union kept
  /\ ToSet(chain[p]) \subseteq ui.listed

(* Once cables and restarts come to rest every port that could be opened   *)
(* settles, whatever handshakes, announcements and acknowledgements were   *)
(* lost on the way: the retries of both loops (magic bytes every period,   *)
(* the count up to MAGIC_BYTES_RESET_THRESHOLD, the soft reset) are enough *)
(* and do not reset each other for ever.                                   *)
Converges == <>[](panicked \/ \A p \in Ports : ports[p] = "ignored" \/ Settled(p))

(* DeviceList::append takes a device that needs a name to be connected     *)
(* (get_device(id).expect("invariant")).  The name of a device follows its *)
(* announcement, so this holds, unless a device above it went through a    *)
(* reset with the message in its queue: set_state(PowerOn) keeps what was  *)
(* forwarded, and hands it on before the device below is announced again.  *)
PanicsOnlyAfterReset == panicked => kept # {}

=============================================================================
