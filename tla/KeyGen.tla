------------------------------- MODULE KeyGen -------------------------------
(***************************************************************************)
(* Key generation: the coordinator's pending_keygens                       *)
(* (frostsnap_core/src/coordinator.rs), the KeyGen protocol on the app's   *)
(* UI stack (frostsnap_coordinator/src/keygen.rs), the app's loop and API  *)
(* calls (frostsnapp/rust/src/coordinator.rs) with the wallet page that    *)
(* drives them (frostsnapp/lib/wallet_create.dart), and the devices        *)
(* (frostsnap_core/src/device/keygen.rs, frostsnap_embedded/src/           *)
(* device_loop.rs), over a link that keeps order and loses what is in      *)
(* flight when a device is unplugged or the app dies.  The cryptography is *)
(* abstract: a device's contribution and certificate are its membership in *)
(* a set, and the key is named by the key generation that made it.         *)
(***************************************************************************)
EXTENDS Naturals, Sequences, SequencesExt, FiniteSets, FiniteSetsExt

CONSTANTS
  Devices,
  KeygenIds,     (* the random ids, numbered in the order they are drawn   *)
  MemberSets,    (* the selections of devices the user makes               *)
  None,
  MaxInbox,      (* bound: messages a device reads in one poll             *)
  MaxEvents      (* bound: cancels, failures and disconnections            *)

\* What the KeyGen protocol knows: keygen_id, whether Begin is still among its
\* keygen_messages, and finished and aborted of its state.
Protocols == [id : KeygenIds, send : BOOLEAN, finished : BOOLEAN, aborted : BOOLEAN]

ASSUME KeyGenAssumption ==
  /\ IsFiniteSet(Devices)
  /\ MemberSets \subseteq (SUBSET Devices) \ {{}}
  /\ KeygenIds \subseteq Nat
  /\ None \notin KeygenIds /\ None \notin Protocols
  /\ MaxInbox \in Nat \ {0}
  /\ MaxEvents \in Nat

VARIABLES
  pending,    (* coordinator: pending_keygens                              *)
  members,    (* the devices of a key generation, {} before it begins      *)
  keys,       (* database: the keys that were finalized                    *)
  ui,         (* the KeyGen protocol on the UI stack, or None              *)
  form,       (* wallet page: the devices that have a name                 *)
  renaming,   (* wallet page: it was told of an abort                      *)
  cancelling, (* calls of cancel_protocol that have still to send Cancel   *)
  outbox,     (* UsbSerialManager's port_outbox                            *)
  seen,       (* device_ports                                              *)
  plugged,    (* the devices that have power                               *)
  down, up,   (* messages in flight, by device                             *)
  phase,      (* device: its temporary keygen maps                         *)
  prompt,     (* device: the key generation on its screen                  *)
  named,      (* device: pending_device_name is set                        *)
  shares,     (* device flash: the keys it has a share of                  *)
  panicked,   (* device: what it panicked on                               *)
  confirmed,  (* history: the device's user accepted the session hash      *)
  broken,     (* history: a member of it was disconnected, the app died,   *)
              (*   or it had begun when an earlier cancel sent its Cancel  *)
  abandoned,  (* history: cancelled, or its finalization failed            *)
  events

coordVars == <<pending, members, keys>>
pageVars == <<ui, form, renaming>>
linkVars == <<seen, plugged, down, up>>
deviceVars == <<phase, prompt, named, shares, panicked>>
historyVars == <<confirmed, broken, abandoned>>
vars == <<coordVars, pageVars, cancelling, outbox, linkVars, deviceVars, historyVars, events>>

NoKeygen == [state |-> "none", from |-> {}]
Idle == [k \in KeygenIds |-> "none"]

Message(type, k, to) == [type |-> type, id |-> k, to |-> to]
Cancel == Message("Cancel", None, Devices)
Preview(S) == Message("Preview", None, S)
Answer(type, k) == [type |-> type, id |-> k]

Init ==
  /\ pending = [k \in KeygenIds |-> NoKeygen]
  /\ members = [k \in KeygenIds |-> {}]
  /\ keys = {}
  /\ ui = None
  /\ form = Devices /\ renaming = FALSE
  /\ cancelling = 0 /\ outbox = <<>>
  /\ seen = Devices /\ plugged = Devices
  /\ down = [d \in Devices |-> <<>>] /\ up = [d \in Devices |-> <<>>]
  /\ phase = [d \in Devices |-> Idle]
  /\ prompt = [d \in Devices |-> None]
  /\ named = [d \in Devices |-> TRUE]
  /\ shares = [d \in Devices |-> {}]
  /\ panicked = [d \in Devices |-> "no"]
  /\ confirmed = {} /\ broken = {} /\ abandoned = {}
  /\ events = 0

\* What users do and what fails is bounded.
Event ==
  /\ events < MaxEvents
  /\ events' = events + 1

\* The key generations a device of S is a member of.
Joined(S) == {k \in KeygenIds : members[k] \cap S # {}}

----------------------------------------------------------------------------
(* The app's calls *)

\* The page lets blank devices be selected, and only when they have names.
Selectable(S) ==
  /\ S \subseteq form
  /\ \A k \in keys : members[k] \cap S = {}

\* generate_new_key: KeyGen::new aborts when a device is not in the device
\* list, but begins all the same, and start_protocol pushes it.
GenerateNewKey(k, S) ==
  /\ ui = None /\ ~renaming
  /\ members[k] = {} /\ \A j \in KeygenIds : j < k => members[j] # {}
  /\ Selectable(S)
  /\ pending' = [pending EXCEPT ![k] = [state |-> "responses", from |-> {}]]
  /\ members' = [members EXCEPT ![k] = S]
  /\ LET aborted == ~(S \subseteq seen)
     IN  /\ ui' = [id |-> k, send |-> TRUE, finished |-> FALSE, aborted |-> aborted]
         /\ renaming' = aborted
         /\ broken' = IF aborted THEN broken \cup {k} ELSE broken
  /\ UNCHANGED <<keys, form, cancelling, outbox, linkVars, deviceVars, confirmed,
                 abandoned, events>>

\* finalize_keygen of the core: the entry is taken and the key is mutated in.
Finalizable(k) ==
  /\ ui # None /\ ui.id = k
  /\ pending[k].state = "finalize"

\* finalize_keygen of the app, when the mutations are persisted: only then are
\* the devices told.
FinalizeKeygen(k) ==
  /\ Finalizable(k)
  /\ pending' = [pending EXCEPT ![k] = NoKeygen]
  /\ keys' = keys \cup {k}
  /\ outbox' = Append(outbox, Message("Finalize", k, members[k]))
  /\ ui' = [ui EXCEPT !.finished = TRUE]
  /\ UNCHANGED <<members, form, renaming, cancelling, linkVars, deviceVars,
                 historyVars, events>>

\* Mutant: the devices are told before the mutations are persisted.
FinalizeFailsAfterSend(k) ==
  /\ Event
  /\ Finalizable(k)
  /\ pending' = [pending EXCEPT ![k] = NoKeygen]
  /\ outbox' = Append(outbox, Message("Finalize", k, members[k]))
  /\ abandoned' = abandoned \cup {k}
  /\ UNCHANGED <<members, keys, pageVars, cancelling, linkVars, deviceVars, confirmed, broken>>

\* The same call when persist_update fails.
FinalizeFails(k) ==
  /\ Event
  /\ Finalizable(k)
  /\ pending' = [pending EXCEPT ![k] = NoKeygen]
  /\ abandoned' = abandoned \cup {k}
  /\ UNCHANGED <<members, keys, pageVars, cancelling, outbox, linkVars, deviceVars, confirmed,
                 broken>>

\* resetDeviceNames: a name, or a Cancel for a device that has none.
Names == <<Preview(form), Message("Cancel", None, seen \ form)>>

\* Mutant: pending_keygens keeps the cancelled key generation.
CancelProtocolOfUi ==
  /\ Event
  /\ ui # None
  /\ ui' = None
  /\ IF ui.finished
       THEN UNCHANGED <<renaming, cancelling, abandoned>>
       ELSE /\ renaming' = TRUE
            /\ cancelling' = cancelling + 1
            /\ abandoned' = abandoned \cup {ui.id}
  /\ UNCHANGED <<coordVars, form, outbox, linkVars, deviceVars, confirmed, broken>>

\* cancel_protocol, under its locks: the page hears of the abort.  A finished
\* protocol completes with success and nobody is told.
CancelProtocol ==
  /\ Event
  /\ ui # None
  /\ ui' = None
  /\ IF ui.finished
       THEN UNCHANGED <<pending, renaming, cancelling, abandoned>>
       ELSE /\ pending' = [pending EXCEPT ![ui.id] = NoKeygen]
            /\ renaming' = TRUE
            /\ cancelling' = cancelling + 1
            /\ abandoned' = abandoned \cup {ui.id}
  /\ UNCHANGED <<members, keys, form, outbox, linkVars, deviceVars, confirmed, broken>>

\* A key generation whose Begin was queued, and which is not finalized yet.
Begun == {k \in KeygenIds : ui # None /\ ui.id = k /\ ~ui.send /\ ~ui.finished}

\* cancel_protocol, once it has dropped its locks: the names of the page, and the
\* Begin of the next key generation, may have been sent before.
SendCancelAll ==
  /\ cancelling > 0
  /\ cancelling' = cancelling - 1
  /\ outbox' = Append(outbox, Cancel)
  /\ broken' = broken \cup Begun
  /\ UNCHANGED <<coordVars, pageVars, linkVars, deviceVars, confirmed, abandoned, events>>

\* resetKeygenState: the page hears of the abort and sends the names again,
\* without a lock.
ResetDeviceNames ==
  /\ renaming
  /\ renaming' = FALSE
  /\ outbox' = outbox \o Names
  /\ UNCHANGED <<coordVars, ui, form, cancelling, linkVars, deviceVars, historyVars,
                 events>>

\* setDeviceName, and the same with an empty name.
SetDeviceName(d) ==
  /\ d \in seen \ form
  /\ form' = form \cup {d}
  /\ outbox' = Append(outbox, Preview({d}))
  /\ UNCHANGED <<coordVars, ui, renaming, cancelling, linkVars, deviceVars,
                 historyVars, events>>

ClearDeviceName(d) ==
  /\ Event
  /\ ui = None
  /\ d \in form
  /\ form' = form \ {d}
  /\ outbox' = Append(outbox, Message("Cancel", None, {d}))
  /\ UNCHANGED <<coordVars, ui, renaming, cancelling, linkVars, deviceVars, historyVars>>

----------------------------------------------------------------------------
(* The app's loop *)

Readable == {d \in seen \cap plugged : up[d] # <<>>}

\* The states of a pending keygen, and what is sent when all devices answered.
Expects == [Response |-> "responses", Certify |-> "certificates", Ack |-> "acks"]

\* Mutant: the certificates are taken for the acks.
AdvancesUnconfirmed ==
  [Response |-> "certificates", Certify |-> "finalize", Ack |-> "finalize"]

Advances == [Response |-> "certificates", Certify |-> "acks", Ack |-> "finalize"]
FollowUp == [Response |-> <<"CertifyPlease">>, Certify |-> <<"Check">>, Ack |-> <<>>]

\* A member answers once: a second contribution is an error, a second
\* certificate or ack is not.
Accepts(entry, d, S, type) ==
  /\ entry.state = Expects[type]
  /\ d \in S
  /\ type = "Response" => d \notin entry.from

\* Mutant: the entry is put back only when it advances.
RecvDeviceMessageTakes(d, s) ==
  LET k == Head(up[d]).id
      type == Head(up[d]).type
  IN  IF Accepts(s.pending[k], d, members[k], type) /\ s.pending[k].from \cup {d} = members[k]
        THEN [pending |-> [s.pending EXCEPT ![k] = [state |-> Advances[type], from |-> {}]],
              out |-> s.out \o [n \in DOMAIN FollowUp[type] |->
                                  Message(FollowUp[type][n], k, members[k])]]
        ELSE [s EXCEPT !.pending[k] = NoKeygen]

\* recv_device_message of the first message from d, on the pending keygens and
\* what is to be sent.  The entry is taken, and an error drops it, except that
\* an ack of a stranger leaves it.
RecvDeviceMessage(d, s) ==
  LET k == Head(up[d]).id
      type == Head(up[d]).type
      from == s.pending[k].from \cup {d}
      accepted == Accepts(s.pending[k], d, members[k], type)
  IN  CASE accepted /\ from = members[k] ->
             [pending |-> [s.pending EXCEPT ![k] = [state |-> Advances[type], from |-> {}]],
              out |-> s.out \o [n \in DOMAIN FollowUp[type] |->
                                  Message(FollowUp[type][n], k, members[k])]]
        [] accepted /\ from # members[k] -> [s EXCEPT !.pending[k].from = from]
        [] ~accepted ->
             [s EXCEPT !.pending[k] = IF type = "Ack" /\ @.state = "acks" THEN @ ELSE NoKeygen]

Received(R) == FoldSet(RecvDeviceMessage, [pending |-> pending, out |-> <<>>], R)

\* KeyGen::disconnected, for the devices that are gone.
Disconnected(S) ==
  IF ui # None /\ S \cap members[ui.id] # {} THEN [ui EXCEPT !.aborted = TRUE] ELSE ui

\* What is in the outbox for a device, in the order it was sent.
Addressed(d) ==
  LET ms[i \in 0 .. Len(outbox)] ==
        IF i = 0 THEN <<>>
        ELSE IF d \in outbox[i].to THEN Append(ms[i - 1], outbox[i]) ELSE ms[i - 1]
  IN  ms[Len(outbox)]

\* The page hears of an abort from its sink, and then sends the names again.
\* It holds no lock: when it is early it overtakes the Cancel that the loop sends
\* after the abort, else it does so in a step of its own.
Tell(early) ==
  /\ early => form # {}
  /\ renaming' = ~early

CancelAll(early) == IF early THEN Names \o <<Cancel>> ELSE <<Cancel>>

\* An iteration of the loop.  poll_ports drops the lost ports, reads at most
\* one message from each port (those in R have a whole one) and sends what is
\* in the outbox to the devices that are there.  Under its locks the loop then
\* hands the disconnections to the UI stack, receives the messages, polls the
\* UI stack, which sends Begin, and removes finished protocols from it, which
\* sends Cancel after an abort.  A call that waits for the locks, or takes them
\* before the loop does, does what it does after, or before, the iteration.
\* An iteration that finds nothing to do is left out.
Iterate(R, early) ==
  LET gone == seen \ plugged
  IN  \E stack \in {Disconnected(gone)}, s \in {Received(R)} :
        LET begins == stack # None /\ stack.send
            aborts == stack # None /\ stack.aborted /\ ~stack.finished
            completes == stack # None /\ (stack.aborted \/ stack.finished)
        IN  /\ R # {} \/ outbox # <<>> \/ gone # {} \/ begins \/ completes
            /\ seen' = seen \ gone
            /\ up' = [d \in Devices |-> IF d \in R THEN Tail(up[d]) ELSE up[d]]
            /\ down' = [d \in Devices |->
                          IF d \in seen \ gone
                            THEN down[d] \o Addressed(d)
                            ELSE down[d]]
            /\ pending' = s.pending
            /\ outbox' = s.out \o (IF begins THEN <<Message("Begin", stack.id, members[stack.id])>>
                                    ELSE <<>>)
                               \o (IF aborts THEN CancelAll(early) ELSE <<>>)
            /\ IF aborts /\ ~ui.aborted THEN Tell(early) ELSE ~early /\ UNCHANGED renaming
            /\ ui' = IF stack = None \/ completes THEN None ELSE [stack EXCEPT !.send = FALSE]
            /\ broken' = broken \cup Joined(gone)
            /\ UNCHANGED <<members, keys, form, cancelling, plugged, deviceVars, confirmed, abandoned,
                           events>>

----------------------------------------------------------------------------
(* The devices *)

\* What a poll of the device's loop works on.
Working(d) == [phase |-> phase[d], prompt |-> prompt[d], named |-> named[d],
               saved |-> {}, out |-> <<>>, failed |-> FALSE]

To(w, k, from, to, out) ==
  IF w.phase[k] = from
    THEN [w EXCEPT !.phase[k] = to, !.out = Append(@, out)]
    ELSE [w EXCEPT !.failed = TRUE]

\* One message of the inbox; recv_coordinator_message returns an error, and
\* the loop panics, when the keygen is not where the message expects it.
Process(w, m) ==
  IF w.failed THEN w
  ELSE CASE m.type = "Cancel" ->
              [w EXCEPT !.phase = Idle, !.prompt = None, !.named = FALSE]
         [] m.type = "Preview" -> [w EXCEPT !.named = TRUE]
         [] m.type = "Begin" ->
              [w EXCEPT !.phase[m.id] = "1", !.out = Append(@, Answer("Response", m.id))]
         [] m.type = "CertifyPlease" -> To(w, m.id, "1", "2", Answer("Certify", m.id))
         [] m.type = "Check" -> To(w, m.id, "2", "none", Answer("CheckKeyGen", m.id))
         [] m.type = "Finalize" ->
              LET v == To(w, m.id, "4", "none", Answer("FinalizeKeyGen", m.id))
              IN  IF v.failed THEN v ELSE [v EXCEPT !.saved = @ \cup {m.id}]

\* One entry of the outbox, which is worked off after the whole inbox and after
\* the mutations are in flash.
Emit(w, o) ==
  IF w.failed THEN w
  ELSE CASE o.type = "CheckKeyGen" -> [w EXCEPT !.prompt = o.id]
         [] o.type = "FinalizeKeyGen" ->
              [w EXCEPT !.failed = ~w.named, !.named = FALSE, !.prompt = None]
         [] OTHER -> [w EXCEPT !.out = Append(@, o)]

\* The device after the first n messages of its inbox, and after its outbox.
AfterInbox(d, n) ==
  LET w[i \in 0 .. n] == IF i = 0 THEN Working(d) ELSE Process(w[i - 1], down[d][i])
  IN  w[n]

AfterOutbox(w) ==
  LET v[i \in 0 .. Len(w.out)] ==
        IF i = 0 THEN [w EXCEPT !.out = <<>>] ELSE Emit(v[i - 1], w.out[i])
  IN  v[Len(w.out)]

\* The device's loop reads n messages.  What it sent before it panics is lost
\* with its memory.
DevicePoll(d, n) ==
  /\ d \in plugged
  /\ panicked[d] = "no"
  /\ n \in 1 .. Len(down[d]) /\ n <= MaxInbox
  /\ down' = [down EXCEPT ![d] = SubSeq(@, n + 1, Len(@))]
  /\ \E w \in {AfterInbox(d, n)} : \E v \in {AfterOutbox(w)} :
       /\ shares' = [shares EXCEPT ![d] = IF w.failed THEN @ ELSE @ \cup w.saved]
       /\ panicked' = [panicked EXCEPT ![d] = CASE w.failed -> "message"
                                                [] ~w.failed /\ v.failed -> "name"
                                                [] OTHER -> "no"]
       /\ phase' = [phase EXCEPT ![d] = IF v.failed THEN Idle ELSE v.phase]
       /\ prompt' = [prompt EXCEPT ![d] = IF v.failed THEN None ELSE v.prompt]
       /\ named' = [named EXCEPT ![d] = v.named /\ ~v.failed]
       /\ up' = [up EXCEPT ![d] = IF v.failed THEN @ ELSE @ \o v.out]
  /\ UNCHANGED <<coordVars, pageVars, cancelling, outbox, seen, plugged, historyVars, events>>

\* Mutant: the ack is sent and nothing is kept for Finalize.
KeyGenConfirmForgets(d) ==
  /\ prompt[d] # None
  /\ up' = [up EXCEPT ![d] = Append(@, Answer("Ack", prompt[d]))]
  /\ prompt' = [prompt EXCEPT ![d] = None]
  /\ confirmed' = confirmed \cup {<<d, prompt[d]>>}
  /\ UNCHANGED <<coordVars, pageVars, cancelling, outbox, seen, plugged, down, phase, named, shares,
                 panicked, broken, abandoned, events>>

\* KeyGenConfirm: keygen_ack
KeyGenConfirm(d) ==
  /\ prompt[d] # None
  /\ phase' = [phase EXCEPT ![d][prompt[d]] = "4"]
  /\ up' = [up EXCEPT ![d] = Append(@, Answer("Ack", prompt[d]))]
  /\ prompt' = [prompt EXCEPT ![d] = None]
  /\ confirmed' = confirmed \cup {<<d, prompt[d]>>}
  /\ UNCHANGED <<coordVars, pageVars, cancelling, outbox, seen, plugged, down, named, shares,
                 panicked, broken, abandoned, events>>

----------------------------------------------------------------------------
(* Failures *)

\* Memory is lost, flash is not.
Rebooted(S) ==
  /\ phase' = [d \in Devices |-> IF d \in S THEN Idle ELSE phase[d]]
  /\ prompt' = [d \in Devices |-> IF d \in S THEN None ELSE prompt[d]]
  /\ named' = [d \in Devices |-> IF d \in S THEN FALSE ELSE named[d]]
  /\ panicked' = [d \in Devices |-> IF d \in S THEN "no" ELSE panicked[d]]
  /\ UNCHANGED shares

Unplug(d) ==
  /\ Event
  /\ d \in plugged
  /\ plugged' = plugged \ {d}
  /\ down' = [down EXCEPT ![d] = <<>>]
  /\ up' = [up EXCEPT ![d] = <<>>]
  /\ Rebooted({d})
  /\ broken' = broken \cup Joined({d})
  /\ UNCHANGED <<coordVars, pageVars, cancelling, outbox, seen, confirmed, abandoned>>

\* A device comes (back) and announces itself: plugged in again, or reset by
\* the magic bytes of a restarted app.  The page sends its name when it has one.
Connect(d) ==
  /\ d \notin seen
  /\ panicked[d] = "no"
  /\ seen' = seen \cup {d}
  /\ plugged' = plugged \cup {d}
  /\ down' = [down EXCEPT ![d] = <<>>]
  /\ up' = [up EXCEPT ![d] = <<>>]
  /\ Rebooted({d})
  /\ outbox' = IF d \in form THEN Append(outbox, Preview({d})) ELSE outbox
  /\ UNCHANGED <<coordVars, pageVars, cancelling, historyVars, events>>

\* The app dies and is started again: only its database is left.
AppCrash ==
  /\ Event
  /\ pending' = [k \in KeygenIds |-> NoKeygen]
  /\ ui' = None
  /\ form' = {} /\ renaming' = FALSE
  /\ cancelling' = 0 /\ outbox' = <<>>
  /\ seen' = {}
  /\ up' = [d \in Devices |-> <<>>]
  /\ broken' = broken \cup Joined(Devices)
  /\ UNCHANGED <<members, keys, plugged, down, deviceVars, confirmed, abandoned>>

----------------------------------------------------------------------------
Next ==
  \/ \E k \in KeygenIds, S \in MemberSets : GenerateNewKey(k, S)
  \/ \E k \in KeygenIds : FinalizeKeygen(k) \/ FinalizeFails(k)
  \/ CancelProtocol \/ SendCancelAll \/ ResetDeviceNames
  \/ \E R \in SUBSET Readable, early \in BOOLEAN : Iterate(R, early)
  \/ \E d \in Devices : \/ SetDeviceName(d) \/ ClearDeviceName(d) \/ KeyGenConfirm(d)
                        \/ Unplug(d) \/ Connect(d)
                        \/ \E n \in 1 .. MaxInbox : DevicePoll(d, n)
  \/ AppCrash

Spec == Init /\ [][Next]_vars

\* The app's loop and the devices' loops keep running, and now and then an
\* iteration finds every message that was sent; a call goes on; the user answers
\* the prompts of the devices, and the page what it is told.
Fairness ==
  /\ WF_vars(Iterate(Readable, FALSE))
  /\ WF_vars(SendCancelAll) /\ WF_vars(ResetDeviceNames)
  /\ \A k \in KeygenIds : WF_vars(FinalizeKeygen(k))
  /\ \A d \in Devices : WF_vars(DevicePoll(d, 1)) /\ WF_vars(KeyGenConfirm(d))

FairSpec == Spec /\ Fairness

----------------------------------------------------------------------------
(* Properties *)

\* A device has a share only of a key the coordinator has persisted, and that
\* it is a member of: finalize_keygen tells the devices after the commit, so
\* neither a crash nor a failed commit leaves a share nobody knows of.
NoOrphanShare ==
  \A d \in Devices : \A k \in shares[d] : k \in keys /\ d \in members[k]

\* A key exists only if the user accepted its session hash on every one of its
\* devices: no message of an earlier attempt counts for a later one.
EveryoneConfirmed ==
  \A k \in keys : \A d \in members[k] : <<d, k>> \in confirmed

\* What cancel_protocol clears pending_keygens for: a cancelled device gets no
\* follow-up of the key generation it forgot, which it would panic on, as long
\* as no device was disconnected and the app did not die during it, and the Cancel
\* of an earlier one, which is sent without a lock, did not come behind its Begin.
CancelIsSafe ==
  \A d \in Devices : panicked[d] = "message" => \E k \in broken : d \in members[k]

\* A device of a finalized key has its share or is about to get it: Finalize is
\* on its way and the device still holds what it needs for it, whatever the
\* user cancels, unless a disconnection, a crash or a late Cancel broke the key
\* generation, or the device panicked on a message of an earlier one that was broken.
InFlight(d, k) ==
  /\ phase[d][k] = "4"
  /\ \E m \in Range(outbox) \cup Range(down[d]) : m.type = "Finalize" /\ m.id = k

FinalizeArrives ==
  \A k \in keys \ broken : \A d \in members[k] :
    k \in shares[d] \/ InFlight(d, k) \/ panicked[d] = "message"

\* A key generation that is neither cancelled nor broken by a failure ends with
\* a share on each of its devices: every answer arrives and none is dropped,
\* also when it follows another attempt closely.
KeygenCompletes ==
  \A k \in KeygenIds :
    (ui # None /\ ui.id = k)
      ~> \/ k \in broken \cup abandoned
         \/ \A d \in members[k] : k \in shares[d]
         \/ \E d \in members[k] : panicked[d] # "no"

=============================================================================
